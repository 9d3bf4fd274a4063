--------------------------- MODULE ProfilerHandler --------------------------
(***************************************************************************)
(* The HTTP endpoints of the profilers                                     *)
(* (collector/collector/lib/ProfilerHandler.cpp, Profiler.h).  Every       *)
(* handler holds the mutex from its first test to its answer, so a request *)
(* is one step.  gperftools is external: the CPU profiler writes a file,   *)
(* the heap profiler hands out a buffer.                                   *)
(*                                                                         *)
(* A profile is named by the number of the run of its profiler, and the    *)
(* length of a profile by the profile: cpu_length = 2 says that            *)
(* cpu_profile_length_ is the length of the second CPU profile, 0 that it  *)
(* is 0.                                                                   *)
(***************************************************************************)
EXTENDS Integers

CONSTANT MaxProfiles   \* runs of each profiler in a behaviour

VARIABLES
  cpu_on, cpu_runs,       \* the CPU profiler: running, and started how often
  cpu_file,               \* the profile in kCPUProfileFilename; 0: no file
  cpu_length,             \* cpu_profile_length_
  heap_on, heap_runs,     \* the heap profiler
  heap_profile,           \* heap_profile_; 0: null
  heap_length,            \* heap_profile_length_
  heap_failed,            \* the last heap profile asked for could not be had
  served                  \* the last answer

cpuVars == <<cpu_on, cpu_runs, cpu_file, cpu_length>>
heapVars == <<heap_on, heap_runs, heap_profile, heap_length, heap_failed>>
profilerVars == <<cpuVars, heapVars, served>>

ProfilerInit ==
  /\ cpu_on = FALSE /\ cpu_runs = 0 /\ cpu_file = 0 /\ cpu_length = 0
  /\ heap_on = FALSE /\ heap_runs = 0 /\ heap_profile = 0 /\ heap_length = 0
  /\ heap_failed = FALSE
  /\ served = <<"nothing">>

(* mg_send_http_ok and mg_send_http_error.                                 *)
Answer(what) == served' = what
Ok == Answer(<<"ok">>)
ServerError == Answer(<<"500">>)

-----------------------------------------------------------------------------
(* POST /profile/cpu with "on".  ProfilerStart opens the file anew, unless *)
(* it cannot.                                                              *)
CPUOn ==
  /\ \/ cpu_on /\ UNCHANGED cpuVars /\ Ok
     \/ /\ ~cpu_on /\ cpu_runs < MaxProfiles
        /\ cpu_on' = TRUE /\ cpu_runs' = cpu_runs + 1
        /\ cpu_file' = cpu_runs'
        /\ UNCHANGED cpu_length
        /\ Ok
     \/ ~cpu_on /\ UNCHANGED cpuVars /\ ServerError
  /\ UNCHANGED heapVars

(* "off".  The length is that of the file, if there is one.  The first     *)
(* form keeps a length it has.                                             *)
CPUOffFirstLength ==
  /\ cpu_on' = FALSE
  /\ cpu_length' = IF cpu_on /\ cpu_length = 0 THEN cpu_file ELSE cpu_length
  /\ UNCHANGED <<cpu_runs, cpu_file, heapVars>> /\ Ok

CPUOff ==
  /\ cpu_on' = FALSE
  /\ cpu_length' = IF cpu_on /\ cpu_file # 0 THEN cpu_file ELSE cpu_length
  /\ UNCHANGED <<cpu_runs, cpu_file, heapVars>> /\ Ok

(* "empty".  The file goes unless it cannot be removed.                    *)
CPUEmpty ==
  /\ \/ cpu_length = 0 /\ UNCHANGED cpuVars /\ Ok
     \/ /\ cpu_length # 0 /\ cpu_length' = 0 /\ cpu_file' = 0
        /\ UNCHANGED <<cpu_on, cpu_runs>> /\ Ok
     \/ /\ cpu_length # 0 /\ cpu_length' = 0
        /\ UNCHANGED <<cpu_on, cpu_runs, cpu_file>> /\ ServerError
  /\ UNCHANGED heapVars

(* POST /profile/heap.                                                     *)
HeapOn ==
  /\ IF heap_on THEN UNCHANGED <<heap_on, heap_runs>>
     ELSE heap_runs < MaxProfiles /\ heap_on' = TRUE /\ heap_runs' = heap_runs + 1
  /\ UNCHANGED <<cpuVars, heap_profile, heap_length, heap_failed>> /\ Ok

(* "off".  The profile is fetched while the profiler still runs, and the   *)
(* old one is given up for it, fetched or not.  The second form takes the  *)
(* length without the profile.                                             *)
HeapOffDropsProfile ==
  /\ IF heap_on
     THEN /\ heap_profile' = 0 /\ heap_length' = heap_runs
          /\ heap_failed' = FALSE /\ heap_on' = FALSE
     ELSE UNCHANGED <<heap_profile, heap_length, heap_failed, heap_on>>
  /\ UNCHANGED <<cpuVars, heap_runs>> /\ Ok

HeapOff ==
  /\ \/ ~heap_on /\ UNCHANGED heapVars /\ Ok
     \/ /\ heap_on /\ heap_profile' = heap_runs /\ heap_length' = heap_runs
        /\ heap_on' = FALSE /\ heap_failed' = FALSE
        /\ UNCHANGED heap_runs /\ Ok
     \/ /\ heap_on /\ heap_profile' = 0 /\ heap_failed' = TRUE
        /\ UNCHANGED <<heap_on, heap_runs, heap_length>> /\ ServerError
  /\ UNCHANGED cpuVars

HeapEmpty ==
  /\ IF heap_length = 0 THEN UNCHANGED <<heap_length, heap_profile>>
     ELSE heap_length' = 0 /\ heap_profile' = 0
  /\ UNCHANGED <<cpuVars, heap_on, heap_runs, heap_failed>> /\ Ok

-----------------------------------------------------------------------------
(* GET.  A profile is sent as it is at that moment.                        *)
SendCPUProfile ==
  /\ Answer(IF cpu_length = 0 THEN <<"ok">> ELSE <<"cpu", cpu_file>>)
  /\ UNCHANGED <<cpuVars, heapVars>>

SendHeapProfile ==
  /\ Answer(IF heap_length = 0 THEN <<"ok">> ELSE <<"heap", heap_profile>>)
  /\ UNCHANGED <<cpuVars, heapVars>>

Status(on, length) == IF on THEN "on" ELSE IF length # 0 THEN "off" ELSE "empty"
SendStatus ==
  /\ Answer(<<"status", Status(cpu_on, cpu_length), Status(heap_on, heap_length)>>)
  /\ UNCHANGED <<cpuVars, heapVars>>

(* Any other route or data is the client's error, a request that cannot be *)
(* read and any POST to a build without profilers the server's.            *)
Refuse ==
  /\ Answer(<<"400">>) \/ ServerError
  /\ UNCHANGED <<cpuVars, heapVars>>

HandlePost == CPUOn \/ CPUOff \/ CPUEmpty \/ HeapOn \/ HeapOff \/ HeapEmpty \/ Refuse
HandleGet == SendStatus \/ SendCPUProfile \/ SendHeapProfile \/ Refuse

ProfilerNext == HandlePost \/ HandleGet
ProfilerSpec == ProfilerInit /\ [][ProfilerNext]_profilerVars

-----------------------------------------------------------------------------
(* ProfilerHandler.h: "get latest cpu profile", "get latest heap profile". *)
(* Once a profiler is stopped the profile that a GET would send is there,  *)
(* whole, and the one of its last run, whatever was started, stopped,      *)
(* emptied and failed before.  A heap profile that could not be had is the *)
(* exception: the old one is gone while its length is kept.                *)
LatestIsServed ==
  /\ ~cpu_on /\ cpu_length # 0 => cpu_file = cpu_length /\ cpu_length = cpu_runs
  /\ heap_length # 0 /\ ~heap_failed =>
       /\ heap_profile = heap_length
       /\ ~heap_on => heap_length = heap_runs
=============================================================================
