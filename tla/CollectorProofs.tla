-------------------------- MODULE CollectorProofs ---------------------------
(***************************************************************************)
(* The collector's NATS client, profiler endpoints, scrape of /proc and    *)
(* process pipeline, for every value of their constants.                   *)
(* The components share no variable; each has a part of its own, with the  *)
(* invariant that its property needs and a lemma for each of its steps.    *)
(***************************************************************************)
EXTENDS ProcfsScraper, ProcessPipeline, NatsClient, ProfilerHandler, TLAPS

-----------------------------------------------------------------------------
(* NatsClient.                                                             *)

(* A client that is connected has a connection, and so has every publisher *)
(* that has found it connected: only the owner destroys a connection, and  *)
(* only while nobody publishes.                                            *)
HasConnection ==
  /\ publisher \in [Publishers -> {"idle", "tested", "failed"}]
  /\ used # "null"
  /\ connected \/ ~Quiet => conn # "null"

(* Every step of the NATS client keeps a connection for whoever uses one.  *)
LEMMA HasConnectionStep ==
  ASSUME HasConnection, [NatsNext]_natsVars PROVE HasConnection'
<1> USE DEF HasConnection, Quiet
<1>1. CASE BrokerUp BY <1>1 DEF BrokerUp
<1>2. CASE BrokerDown BY <1>2 DEF BrokerDown
<1>3. CASE Reconnect BY <1>3 DEF Reconnect
<1>4. CASE GiveUp BY <1>4 DEF GiveUp
<1>5. CASE Start BY <1>5 DEF Start, Connect
<1>6. CASE Stop BY <1>6 DEF Stop, Disconnect
<1>7. ASSUME NEW t \in Publishers, NEW p \in BOOLEAN, TestConnected(t, p)
      PROVE  HasConnection'
  BY <1>7 DEF TestConnected
<1>8. ASSUME NEW t \in Publishers, Publish(t) PROVE HasConnection'
  BY <1>8 DEF Publish
<1>9. ASSUME NEW t \in Publishers, PublishFailed(t) PROVE HasConnection'
  BY <1>9 DEF PublishFailed
<1>10. CASE UNCHANGED natsVars BY <1>10 DEF natsVars
<1> QED BY <1>1, <1>2, <1>3, <1>4, <1>5, <1>6, <1>7, <1>8, <1>9, <1>10 DEF NatsNext

(* No step gives up a connection that the library still has, except the    *)
(* owner's Stop.                                                           *)
LEMMA GivesUpClosedOnly ==
  ASSUME [NatsNext]_natsVars
  PROVE  [(connected /\ ~connected' /\ wanted') => conn = "closed"]_natsVars
<1>1. CASE BrokerUp \/ BrokerDown \/ Reconnect \/ GiveUp
  BY <1>1 DEF BrokerUp, BrokerDown, Reconnect, GiveUp
<1>2. CASE Start BY <1>2 DEF Start
<1>3. CASE Stop BY <1>3 DEF Stop
<1>4. ASSUME NEW t \in Publishers,
             Publish(t) \/ PublishFailed(t) \/ \E p \in BOOLEAN : TestConnected(t, p)
      PROVE  (connected /\ ~connected' /\ wanted') => conn = "closed"
  BY <1>4, Zenon DEF TestConnected, Publish, PublishFailed, Gone
<1> QED BY <1>1, <1>2, <1>3, <1>4 DEF NatsNext

(* PushSignals, with any number of publishers and a broker that comes and  *)
(* goes: a connection is given up only when the library has closed it, and *)
(* no publisher ever hands a null connection to the library.               *)
THEOREM KeepsConnectionHolds == NatsSpec => KeepsConnection
<1>1. NatsInit => HasConnection
  BY DEF NatsInit, HasConnection, Quiet
<1>2. HasConnection => PublishUsesConnection
  BY DEF HasConnection, PublishUsesConnection
<1> QED BY <1>1, <1>2, HasConnectionStep, GivesUpClosedOnly, PTL
        DEF NatsSpec, KeepsConnection, KeepsWorkingConnection

-----------------------------------------------------------------------------
(* ProfilerHandler.                                                        *)

(* While the CPU profiler runs, its file is the one of this run or was     *)
(* removed together with the length of the profile before it.              *)
ProfilesMatch ==
  /\ cpu_on \in BOOLEAN /\ cpu_runs \in Nat
  /\ cpu_on => \/ cpu_file = cpu_runs /\ cpu_file # 0
               \/ cpu_file = 0 /\ cpu_length = 0
  /\ LatestIsServed

(* Every request to the profiler, of either kind and with any outcome,     *)
(* keeps the profile and its recorded length together.                     *)
LEMMA ProfilesMatchStep ==
  ASSUME ProfilesMatch, [ProfilerNext]_profilerVars PROVE ProfilesMatch'
<1> USE DEF ProfilesMatch, LatestIsServed, cpuVars, heapVars
<1>0. cpu_runs + 1 \in Nat /\ cpu_runs + 1 # 0
  OBVIOUS
<1>1. CASE CPUOn
  <2>1. CASE UNCHANGED cpuVars BY <1>1, <2>1, Zenon DEF CPUOn
  <2>2. CASE cpu_on' = TRUE /\ cpu_runs' = cpu_runs + 1 /\ cpu_file' = cpu_runs'
    BY <1>0, <1>1, <2>2, Zenon DEF CPUOn
  <2> QED BY <1>1, <2>1, <2>2, Zenon DEF CPUOn
<1>2. CASE CPUOff
  <2>1. CASE cpu_on /\ cpu_file # 0
    <3>1. cpu_file = cpu_runs BY <2>1
    <3>2. cpu_length' = cpu_file BY <1>2, <2>1, Zenon DEF CPUOff
    <3> QED BY <1>2, <3>1, <3>2, Zenon DEF CPUOff
  <2>2. CASE ~(cpu_on /\ cpu_file # 0)
    <3>1. cpu_length' = cpu_length BY <1>2, <2>2, Zenon DEF CPUOff
    <3>2. cpu_on => cpu_length = 0 BY <2>2, Zenon
    <3> QED BY <1>2, <3>1, <3>2, Zenon DEF CPUOff
  <2> QED BY <2>1, <2>2
<1>3. CASE CPUEmpty
  <2>1. CASE UNCHANGED cpuVars BY <1>3, <2>1, Zenon DEF CPUEmpty
  <2>2. CASE cpu_length' = 0 /\ UNCHANGED <<cpu_on, cpu_runs>> /\ cpu_file' \in {0, cpu_file}
    BY <1>3, <2>2, Zenon DEF CPUEmpty
  <2> QED BY <1>3, <2>1, <2>2, Zenon DEF CPUEmpty
<1>4. CASE HeapOn BY <1>4, Zenon DEF HeapOn
<1>5. CASE HeapOff BY <1>5, Zenon DEF HeapOff
<1>6. CASE HeapEmpty BY <1>6, Zenon DEF HeapEmpty
<1>7. CASE Refuse \/ HandleGet
  BY <1>7 DEF Refuse, HandleGet, SendStatus, SendCPUProfile, SendHeapProfile
<1>8. CASE UNCHANGED profilerVars BY <1>8 DEF profilerVars
<1> QED BY <1>1, <1>2, <1>3, <1>4, <1>5, <1>6, <1>7, <1>8
        DEF ProfilerNext, HandlePost

(* SendCPUProfile and SendHeapProfile: what a request for a profile would  *)
(* be sent is the profile of the last run, for any number of runs, failed  *)
(* starts, failed removals and removals in the middle of a run.            *)
THEOREM LatestIsServedHolds == ProfilerSpec => []LatestIsServed
<1>1. ProfilerInit => ProfilesMatch
  <2>1. 0 \in Nat
    OBVIOUS
  <2> QED BY <2>1, Zenon DEF ProfilerInit, ProfilesMatch, LatestIsServed
<1>2. ProfilesMatch => LatestIsServed
  BY DEF ProfilesMatch
<1> QED BY <1>1, <1>2, ProfilesMatchStep, PTL DEF ProfilerSpec

-----------------------------------------------------------------------------
(* ProcfsScraper.  SteadyIsFound speaks of the end of the scrape.  The     *)
(* invariant says what holds on the way: which sockets have been collected *)
(* (Collected), which namespaces have their connections or lost them       *)
(* (Known), and what was read of a namespace, once it is read (Complete)   *)
(* and while it is (Partial).                                              *)

KeyOf(p) == <<ContainerOf[p], NetnsOf[p]>>
Working == scraper.at \in {"sockets", "tcp", "tcp6", "recheck"}
Reading == scraper.at \in {"tcp", "tcp6", "recheck"}

Shape ==
  /\ steady \subseteq held /\ held \subseteq Pids \X Inodes
  /\ \A p \in Pids, i \in Inodes : <<p, i>> \in steady => p \notin gone
  /\ scraper \in [at : {"read", "sockets", "tcp", "tcp6", "recheck", "done"}, pid : Pids \cup {0},
                  no_sockets : BOOLEAN, success : BOOLEAN]
  /\ Working => scraper.pid \in Pids /\ Key \in DOMAIN sockets
  /\ Reading => Netns \in DOMAIN conns

(* The sockets of a process that was passed are collected.                 *)
Collected ==
  \A p \in Pids, i \in Inodes :
    /\ <<p, i>> \in steady /\ ContainerOf[p] # "none" /\ p \notin unseen
    /\ scraper.at = "sockets" => scraper.pid # p
    => KeyOf(p) \in DOMAIN sockets /\ i \in sockets[KeyOf(p)]

(* Where sockets were collected the connections are known, or were.        *)
Known ==
  /\ \A p \in Pids : KeyOf(p) \in DOMAIN sockets /\ sockets[KeyOf(p)] # {} =>
       NetnsOf[p] \in DOMAIN conns \cup erased
  /\ scraper.at = "sockets" /\ ~scraper.no_sockets => sockets[Key] # {}

(* The open sockets of a namespace that a file lists are in its entry.     *)
Has(ns, file) ==
  \A p \in Pids, i \in Inodes :
    <<p, i>> \in steady /\ NetnsOf[p] = ns /\ FileOf[i] = file => i \in conns[ns]

Complete ==
  \A ns \in DOMAIN conns \ erased :
    (Reading => Netns # ns) => Has(ns, "tcp") /\ (hasTcp6 => Has(ns, "tcp6"))

Partial ==
  /\ scraper.at \in {"sockets", "tcp"} => scraper.success
  /\ scraper.at \in {"tcp6", "recheck"} /\ scraper.pid \notin gone =>
       /\ scraper.success /\ Has(Netns, "tcp")
       /\ scraper.at = "recheck" => ~hasTcp6

ScraperIInv == Shape /\ Collected /\ Known /\ Complete /\ Partial /\ SteadyIsFound

(* What the processes do meanwhile makes fewer sockets steady.             *)
LEMMA ProcessesKeep ==
  ASSUME ScraperIInv, NEW p \in Pids,
         Exit(p) \/ \E i \in Inodes : Open(p, i) \/ Close(p, i)
  PROVE  ScraperIInv'
<1>1. /\ UNCHANGED <<hasTcp6, unseen, scraper, sockets, conns, erased, found>>
      /\ scraper.at # "done" /\ gone \subseteq gone' /\ steady' \subseteq steady
  BY Zenon DEF Exit, Open, Close
<1>2. steady' \subseteq held' /\ held' \subseteq Pids \X Inodes
  <2>1. CASE Exit(p)
    BY <2>1 DEF Exit, ScraperIInv, Shape
  <2>2. ASSUME NEW i \in Inodes, Open(p, i)
        PROVE  <1>2
    BY <2>2 DEF Open, ScraperIInv, Shape
  <2>3. ASSUME NEW i \in Inodes, Close(p, i)
        PROVE  <1>2
    BY <2>3 DEF Close, ScraperIInv, Shape
  <2>. QED  BY <2>1, <2>2, <2>3
<1>3. \A q \in Pids, i \in Inodes : <<q, i>> \in steady' => q \notin gone'
  <2>1. CASE Exit(p)
    BY <2>1 DEF Exit, ScraperIInv, Shape
  <2>2. CASE \E i \in Inodes : Open(p, i) \/ Close(p, i)
    BY <1>1, <2>2 DEF Open, Close, ScraperIInv, Shape
  <2>. QED  BY <2>1, <2>2
<1>4. Shape'
  BY <1>1, <1>2, <1>3 DEF ScraperIInv, Shape, Working, Reading, Key, Netns
<1>5. Collected' /\ Known'
  BY <1>1 DEF ScraperIInv, Collected, Known, Key
<1>6. \A ns, file : Has(ns, file) => Has(ns, file)'
  BY <1>1 DEF Has
<1>7. Complete'
  BY <1>1, <1>6 DEF ScraperIInv, Complete, Reading, Netns
<1>8. Partial'
  BY <1>1, <1>6 DEF ScraperIInv, Partial, Netns
<1>9. SteadyIsFound'
  BY <1>1 DEF SteadyIsFound
<1>. QED  BY <1>4, <1>5, <1>7, <1>8, <1>9 DEF ScraperIInv

(* A process is taken from the directory.                                  *)
LEMMA ReadProcessKeeps ==
  ASSUME ScraperIInv, NEW p \in Pids, ReadProcess(p)
  PROVE  ScraperIInv'
<1>1. /\ UNCHANGED <<hasTcp6, gone, held, usedInodes, steady, conns, erased, found>>
      /\ unseen' = unseen \ {p} /\ scraper.at = "read" /\ p \in unseen
  BY DEF ReadProcess, proc
<1>2. CASE p \in gone \/ ContainerOf[p] = "none"
  <2>1. UNCHANGED <<scraper, sockets>>
    BY <1>2 DEF ReadProcess
  <2>2. Shape' /\ Known' /\ Complete' /\ Partial' /\ SteadyIsFound'
    BY <1>1, <2>1 DEF ScraperIInv, Shape, Known, Complete, Has, Partial, SteadyIsFound, Working, Reading, Key, Netns
  <2>3. Collected'
    BY <1>1, <1>2, <2>1 DEF ScraperIInv, Shape, Collected
  <2>. QED  BY <2>2, <2>3 DEF ScraperIInv
<1>3. CASE ~(p \in gone \/ ContainerOf[p] = "none")
  <2>1. /\ scraper' = [at |-> "sockets", pid |-> p, success |-> TRUE,
                       no_sockets |-> Of(sockets, KeyOf(p)) = {}]
        /\ sockets' = With(sockets, KeyOf(p), Of(sockets, KeyOf(p)))
    BY <1>3 DEF ReadProcess, KeyOf
  <2>2. /\ scraper'.at = "sockets" /\ scraper'.pid = p /\ scraper'.success
        /\ scraper'.no_sockets = (Of(sockets, KeyOf(p)) = {})
    BY <2>1
  <2>3. /\ DOMAIN sockets' = DOMAIN sockets \cup {KeyOf(p)}
        /\ \A k \in DOMAIN sockets : sockets'[k] = sockets[k]
        /\ sockets'[KeyOf(p)] = Of(sockets, KeyOf(p))
        /\ KeyOf(p) \notin DOMAIN sockets => sockets'[KeyOf(p)] = {}
    BY <2>1 DEF With, Of
  <2>4. Key' = KeyOf(p)
    BY <2>2 DEF Key, KeyOf
  <2>5. Shape'
    <3>1. scraper' \in [at : {"read", "sockets", "tcp", "tcp6", "recheck", "done"}, pid : Pids \cup {0},
                        no_sockets : BOOLEAN, success : BOOLEAN]
      BY <2>1
    <3>. QED  BY <1>1, <2>2, <2>3, <2>4, <3>1 DEF ScraperIInv, Shape, Working, Reading
  <2>6. Collected'
    BY <1>1, <2>2, <2>3 DEF ScraperIInv, Collected
  <2>7. Known'
    BY <1>1, <2>2, <2>3, <2>4, Zenon DEF ScraperIInv, Known
  <2>8. Complete' /\ Partial' /\ SteadyIsFound'
    BY <1>1, <2>2 DEF ScraperIInv, Complete, Has, Partial, SteadyIsFound, Reading, Netns
  <2>. QED  BY <2>5, <2>6, <2>7, <2>8 DEF ScraperIInv
<1>. QED  BY <1>2, <1>3

(* The sockets of the process are collected, and the reading of its        *)
(* namespace begins where they are the first.                              *)
LEMMA GetSocketINodesKeeps ==
  ASSUME ScraperIInv, GetSocketINodes
  PROVE  ScraperIInv'
<1>1. /\ UNCHANGED <<hasTcp6, gone, held, usedInodes, steady, unseen, erased, found>>
      /\ scraper.at = "sockets" /\ scraper.pid \in Pids /\ Key \in DOMAIN sockets
      /\ Key = KeyOf(scraper.pid) /\ ~Reading
  BY DEF GetSocketINodes, proc, ScraperIInv, Shape, Working, Reading, Key, KeyOf
<1>2. CASE scraper.pid \in gone
  <2>1. scraper' = Idle /\ UNCHANGED <<sockets, conns>>
    BY <1>2 DEF GetSocketINodes
  <2>2. Shape' /\ Known' /\ Complete' /\ Partial' /\ SteadyIsFound'
    BY <1>1, <2>1 DEF ScraperIInv, Shape, Known, Complete, Has, Partial, SteadyIsFound, Working, Reading, Idle
  <2>3. Collected'
    BY <1>1, <1>2, <2>1 DEF ScraperIInv, Shape, Collected
  <2>. QED  BY <2>2, <2>3 DEF ScraperIInv
<1>3. CASE scraper.pid \notin gone
  <2>1. sockets' = [sockets EXCEPT ![Key] = @ \cup HeldBy(scraper.pid)]
    BY <1>3 DEF GetSocketINodes
  <2>2. /\ DOMAIN sockets' = DOMAIN sockets
        /\ \A k \in DOMAIN sockets :
             sockets'[k] = IF k = Key THEN sockets[k] \cup HeldBy(scraper.pid) ELSE sockets[k]
    BY <2>1
  <2>3. \/ /\ scraper.no_sockets /\ sockets'[Key] # {} /\ Netns \notin DOMAIN conns
           /\ scraper' = [scraper EXCEPT !.at = "tcp"] /\ conns' = With(conns, Netns, {})
        \/ /\ ~scraper.no_sockets \/ sockets'[Key] = {} \/ Netns \in DOMAIN conns
           /\ scraper' = Idle /\ conns' = conns
    BY <1>3, Zenon DEF GetSocketINodes
  <2>4. \/ /\ scraper'.at = "tcp" /\ scraper'.pid = scraper.pid
           /\ DOMAIN conns' = DOMAIN conns \cup {Netns}
           /\ \A ns \in DOMAIN conns : ns # Netns => conns'[ns] = conns[ns]
        \/ scraper'.at = "read" /\ conns' = conns
    BY <2>3 DEF Idle, ScraperIInv, Shape, With
  <2>5. Shape'
    <3>1. scraper' \in [at : {"read", "sockets", "tcp", "tcp6", "recheck", "done"}, pid : Pids \cup {0},
                        no_sockets : BOOLEAN, success : BOOLEAN]
      <4>1. CASE scraper' = [scraper EXCEPT !.at = "tcp"]
        BY <4>1 DEF ScraperIInv, Shape
      <4>2. CASE scraper' = Idle
        BY <4>2 DEF Idle
      <4>. QED  BY <2>3, <4>1, <4>2
    <3>. QED  BY <1>1, <2>2, <2>4, <3>1 DEF ScraperIInv, Shape, Working, Reading, Key, Netns
  <2>6. Collected'
    <3>1. \A i \in Inodes : <<scraper.pid, i>> \in steady => i \in sockets'[Key]
      BY <1>1, <2>2 DEF ScraperIInv, Shape, HeldBy
    <3>. QED  BY <1>1, <2>2, <2>4, <3>1 DEF ScraperIInv, Collected
  <2>7. Known'
    <3>1. Key[2] = Netns /\ \A p \in Pids : KeyOf(p) = Key => NetnsOf[p] = Netns
      BY DEF Key, Netns, KeyOf
    <3>2. sockets'[Key] # {} => Netns \in DOMAIN conns' \cup erased
      <4>1. CASE ~scraper.no_sockets
        <5>1. Netns \in DOMAIN conns \cup erased
          BY <1>1, <3>1, <4>1 DEF ScraperIInv, Known
        <5>. QED  BY <2>4, <5>1
      <4>2. CASE scraper.no_sockets
        <5>1. CASE Netns \in DOMAIN conns
          BY <2>4, <5>1
        <5>2. CASE Netns \notin DOMAIN conns
          BY <2>3, <4>2, <5>2 DEF With
        <5>. QED  BY <5>1, <5>2
      <4>. QED  BY <4>1, <4>2
    <3>3. DOMAIN conns \subseteq DOMAIN conns' /\ scraper'.at # "sockets"
      BY <2>4
    <3>. QED  BY <1>1, <2>2, <3>1, <3>2, <3>3 DEF ScraperIInv, Known
  <2>8. Complete'
    BY <1>1, <2>4 DEF ScraperIInv, Complete, Has, Reading, Netns
  <2>9. Partial' /\ SteadyIsFound'
    <3>1. scraper'.at = "tcp" => scraper'.success
      BY <1>1, <2>3 DEF ScraperIInv, Shape, Partial, Idle
    <3>. QED  BY <2>4, <3>1 DEF Partial, SteadyIsFound
  <2>. QED  BY <2>5, <2>6, <2>7, <2>8, <2>9 DEF ScraperIInv
<1>. QED  BY <1>2, <1>3

(* While a namespace is read, what the step leaves alone stays as it was:  *)
(* the entries of the other namespaces, and what was collected.            *)
LEMMA ReadingKeeps ==
  ASSUME ScraperIInv, Reading,
         UNCHANGED <<hasTcp6, gone, held, steady, unseen, sockets, found>>,
         scraper' \in [at : {"read", "tcp6", "recheck"}, pid : Pids \cup {0},
                       no_sockets : BOOLEAN, success : BOOLEAN],
         scraper'.at # "read" => scraper'.pid = scraper.pid /\ Netns \in DOMAIN conns',
         \A ns \in DOMAIN conns : ns # Netns => ns \in DOMAIN conns' /\ conns'[ns] = conns[ns],
         DOMAIN conns' \subseteq DOMAIN conns, erased \subseteq erased',
         Netns \in DOMAIN conns' \cup erased',
         \A ns \in DOMAIN conns' \ erased' : scraper'.at = "read" /\ ns = Netns =>
           Has(ns, "tcp")' /\ (hasTcp6 => Has(ns, "tcp6")'),
         Partial'
  PROVE  ScraperIInv'
<1>1. Shape'
  BY DEF ScraperIInv, Shape, Working, Reading, Key, Netns
<1>2. Collected'
  BY DEF ScraperIInv, Collected, Reading
<1>3. Known'
  BY DEF ScraperIInv, Known
<1>4. SteadyIsFound'
  BY DEF SteadyIsFound
<1>5. Complete'
  <2>1. SUFFICES ASSUME NEW ns \in DOMAIN conns' \ erased', Reading' => Netns' # ns
                 PROVE  Has(ns, "tcp")' /\ (hasTcp6 => Has(ns, "tcp6")')
    BY DEF Complete
  <2>2. CASE ns = Netns
    BY <2>1, <2>2 DEF Reading, Netns
  <2>3. CASE ns # Netns
    BY <2>1, <2>3 DEF ScraperIInv, Complete, Has
  <2>. QED  BY <2>2, <2>3
<1>. QED  BY <1>1, <1>2, <1>3, <1>4, <1>5 DEF ScraperIInv

(* The file net/tcp.                                                       *)
LEMMA ReadTcpKeeps ==
  ASSUME ScraperIInv, ReadTcp
  PROVE  ScraperIInv'
<1>1. /\ UNCHANGED <<hasTcp6, gone, held, steady, unseen, sockets, erased, found>>
      /\ scraper.at = "tcp" /\ Reading /\ Netns \in DOMAIN conns
  BY DEF ReadTcp, proc, Reading, ScraperIInv, Shape
<1>2. /\ scraper' \in [at : {"read", "tcp6", "recheck"}, pid : Pids \cup {0},
                       no_sockets : BOOLEAN, success : BOOLEAN]
      /\ scraper'.at = "tcp6" /\ scraper'.pid = scraper.pid
  BY Zenon DEF ReadTcp, ScraperIInv, Shape
<1>3. DOMAIN conns' = DOMAIN conns /\ \A ns \in DOMAIN conns : ns # Netns => conns'[ns] = conns[ns]
  BY DEF ReadTcp
<1>4. Partial'
  <2>1. SUFFICES ASSUME scraper.pid \notin gone
                 PROVE  scraper'.success /\ Has(Netns, "tcp")'
    BY <1>1, <1>2 DEF Partial
  <2>2. scraper' = [scraper EXCEPT !.at = "tcp6"] /\ conns' = [conns EXCEPT ![Netns] = @ \cup Listed(Netns, "tcp")]
    BY <2>1 DEF ReadTcp
  <2>3. scraper'.success
    BY <1>1, <2>2 DEF ScraperIInv, Shape, Partial
  <2>4. Netns' = Netns
    BY <1>2 DEF Netns
  <2>5. \A p \in Pids, i \in Inodes :
          <<p, i>> \in steady /\ NetnsOf[p] = Netns /\ FileOf[i] = "tcp" => i \in Listed(Netns, "tcp")
    BY DEF Listed, ScraperIInv, Shape
  <2>. QED  BY <1>1, <2>2, <2>3, <2>4, <2>5 DEF Has
<1>. QED  BY <1>1, <1>2, <1>3, <1>4, ReadingKeeps

(* The file net/tcp6, where there is one.                                  *)
LEMMA ReadTcp6Keeps ==
  ASSUME ScraperIInv, ReadTcp6
  PROVE  ScraperIInv'
<1>1. /\ UNCHANGED <<hasTcp6, gone, held, steady, unseen, sockets, erased, found>>
      /\ scraper.at = "tcp6" /\ Reading /\ Netns \in DOMAIN conns
  BY DEF ReadTcp6, proc, Reading, ScraperIInv, Shape
<1>2. CASE scraper.pid \in gone \/ ~hasTcp6
  <2>1. scraper' = [scraper EXCEPT !.at = "recheck"] /\ conns' = conns
    BY <1>2 DEF ReadTcp6
  <2>2. /\ scraper' \in [at : {"read", "tcp6", "recheck"}, pid : Pids \cup {0},
                         no_sockets : BOOLEAN, success : BOOLEAN]
        /\ scraper'.at = "recheck" /\ scraper'.pid = scraper.pid /\ scraper'.success = scraper.success
    BY <2>1 DEF ScraperIInv, Shape
  <2>3. Partial'
    BY <1>1, <1>2, <2>1, <2>2 DEF ScraperIInv, Partial, Has, Netns
  <2>. QED  BY <1>1, <2>1, <2>2, <2>3, ReadingKeeps
<1>3. CASE ~(scraper.pid \in gone \/ ~hasTcp6)
  <2>1. conns' = [conns EXCEPT ![Netns] = @ \cup Listed(Netns, "tcp6")]
    BY <1>3 DEF ReadTcp6
  <2>2. scraper.success /\ Has(Netns, "tcp")
    BY <1>1, <1>3 DEF ScraperIInv, Partial
  <2>3. scraper' = Idle
    BY <1>3, <2>2 DEF ReadTcp6
  <2>4. scraper' \in [at : {"read", "tcp6", "recheck"}, pid : Pids \cup {0},
                      no_sockets : BOOLEAN, success : BOOLEAN] /\ scraper'.at = "read"
    BY <2>3 DEF Idle
  <2>5. \A p \in Pids, i \in Inodes :
          <<p, i>> \in steady /\ NetnsOf[p] = Netns /\ FileOf[i] = "tcp6" => i \in Listed(Netns, "tcp6")
    BY DEF Listed, ScraperIInv, Shape
  <2>6. \A ns : ns = Netns => Has(ns, "tcp")' /\ Has(ns, "tcp6")'
    BY <1>1, <2>1, <2>2, <2>5 DEF Has
  <2>7. /\ DOMAIN conns' = DOMAIN conns
        /\ \A ns \in DOMAIN conns : ns # Netns => conns'[ns] = conns[ns]
    BY <2>1
  <2>8. Partial'
    BY <2>4 DEF Partial
  <2>. QED  BY <1>1, <2>4, <2>6, <2>7, <2>8, ReadingKeeps
<1>. QED  BY <1>2, <1>3

(* After a failure the entry is kept or erased.                            *)
LEMMA RecheckKeeps ==
  ASSUME ScraperIInv, Recheck
  PROVE  ScraperIInv'
<1>1. /\ UNCHANGED <<hasTcp6, gone, held, steady, unseen, sockets, found>>
      /\ scraper.at = "recheck" /\ Reading /\ Netns \in DOMAIN conns /\ scraper' = Idle
  BY DEF Recheck, proc, Reading, ScraperIInv, Shape
<1>2. scraper' \in [at : {"read", "tcp6", "recheck"}, pid : Pids \cup {0},
                    no_sockets : BOOLEAN, success : BOOLEAN] /\ scraper'.at = "read"
  BY <1>1 DEF Idle
<1>3. Partial'
  BY <1>2 DEF Partial
<1>4. CASE scraper.pid \in gone
  <2>1. /\ DOMAIN conns' = DOMAIN conns \ {Netns} /\ erased' = erased \cup {Netns}
        /\ \A ns \in DOMAIN conns : ns # Netns => conns'[ns] = conns[ns]
    BY <1>4 DEF Recheck
  <2>. QED  BY <1>1, <1>2, <1>3, <2>1, ReadingKeeps
<1>5. CASE scraper.pid \notin gone
  <2>1. UNCHANGED <<conns, erased>>
    BY <1>5 DEF Recheck
  <2>2. ~hasTcp6 /\ \A ns : ns = Netns => Has(ns, "tcp")'
    BY <1>1, <1>5, <2>1 DEF ScraperIInv, Partial, Has
  <2>. QED  BY <1>1, <1>2, <1>3, <2>1, <2>2, ReadingKeeps
<1>. QED  BY <1>4, <1>5

(* The join at the end: every steady socket was collected, and the entry   *)
(* of its namespace, unless that was dropped, lists it.                    *)
LEMMA ResolveKeeps ==
  ASSUME FileOf \in [Inodes -> {"tcp", "tcp6"}], ScraperIInv, ResolveSocketInodes
  PROVE  ScraperIInv'
<1>1. /\ UNCHANGED <<hasTcp6, gone, held, steady, unseen, sockets, conns, erased>>
      /\ scraper.at = "read" /\ unseen = {} /\ scraper' = [Idle EXCEPT !.at = "done"]
      /\ found' = UNION {{<<k[1], i>> : i \in sockets[k] \cap Of(conns, k[2])} : k \in DOMAIN sockets}
  BY DEF ResolveSocketInodes, proc
<1>2. scraper' \in [at : {"read", "sockets", "tcp", "tcp6", "recheck", "done"}, pid : Pids \cup {0},
                    no_sockets : BOOLEAN, success : BOOLEAN] /\ scraper'.at = "done"
  BY <1>1, Zenon DEF Idle
<1>3. Shape' /\ Collected' /\ Known' /\ Complete' /\ Partial'
  BY <1>1, <1>2 DEF ScraperIInv, Shape, Collected, Known, Complete, Has, Partial, Working, Reading
<1>4. SteadyIsFound'
  <2>1. SUFFICES ASSUME NEW h \in steady, ContainerOf[h[1]] # "none", NetnsOf[h[1]] \notin erased,
                        ~(FileOf[h[2]] = "tcp6" /\ ~hasTcp6)
                 PROVE  <<ContainerOf[h[1]], h[2]>> \in found'
    BY <1>1 DEF SteadyIsFound
  <2>2. PICK p \in Pids, i \in Inodes : h = <<p, i>>
    BY DEF ScraperIInv, Shape
  <2>3. KeyOf(p) \in DOMAIN sockets /\ i \in sockets[KeyOf(p)]
    BY <1>1, <2>1, <2>2 DEF ScraperIInv, Collected
  <2>4. NetnsOf[p] \in DOMAIN conns
    BY <2>1, <2>2, <2>3 DEF ScraperIInv, Known
  <2>5. i \in conns[NetnsOf[p]]
    <3>1. Has(NetnsOf[p], "tcp") /\ (hasTcp6 => Has(NetnsOf[p], "tcp6"))
      BY <1>1, <2>1, <2>2, <2>4 DEF ScraperIInv, Complete, Reading
    <3>. QED  BY <2>1, <2>2, <3>1 DEF Has
  <2>6. i \in sockets[KeyOf(p)] \cap Of(conns, KeyOf(p)[2]) /\ KeyOf(p)[1] = ContainerOf[p]
    BY <2>3, <2>4, <2>5 DEF Of, KeyOf
  <2>. QED  BY <1>1, <2>2, <2>3, <2>6
<1>. QED  BY <1>3, <1>4 DEF ScraperIInv

(* ProcfsScraper.cpp: a socket that a process of a container keeps open    *)
(* all through a scrape is found by it, unless the connections of its      *)
(* namespace were dropped because the process they were read with exited.  *)
THEOREM SteadyIsFoundHolds ==
  ASSUME FileOf \in [Inodes -> {"tcp", "tcp6"}]
  PROVE  ScraperSpec => []SteadyIsFound
<1>1. ScraperInit => ScraperIInv
  <2>1. SUFFICES ASSUME ScraperInit
                 PROVE  ScraperIInv
    OBVIOUS
  <2>2. scraper = Idle /\ unseen = Pids /\ DOMAIN sockets = {} /\ DOMAIN conns = {}
    BY <2>1 DEF ScraperInit, Empty
  <2>3. Shape
    BY <2>1, <2>2 DEF ScraperInit, Shape, Idle, Working, Reading
  <2>4. Collected /\ Known /\ Complete /\ Partial /\ SteadyIsFound
    BY <2>2 DEF Collected, Known, Complete, Partial, SteadyIsFound, Idle
  <2>. QED  BY <2>3, <2>4 DEF ScraperIInv
<1>2. ScraperIInv /\ [ScraperNext]_scraperVars => ScraperIInv'
  <2>1. SUFFICES ASSUME ScraperIInv, [ScraperNext]_scraperVars
                 PROVE  ScraperIInv'
    OBVIOUS
  <2>2. CASE UNCHANGED scraperVars
    <3>1. UNCHANGED <<hasTcp6, gone, held, usedInodes, steady, unseen, scraper, sockets, conns, erased, found>>
      BY <2>2 DEF scraperVars, proc
    <3>. QED  BY Zenon, <2>1, <3>1 DEF ScraperIInv, Shape, Collected, Known, Complete, Has, Partial, SteadyIsFound,
                                Working, Reading, Key, Netns
  <2>. QED
    BY <2>1, <2>2, ProcessesKeep, ReadProcessKeeps, GetSocketINodesKeeps, ReadTcpKeeps, ReadTcp6Keeps,
       RecheckKeeps, ResolveKeeps, Zenon DEF ScraperNext, ReadContainerConnections
<1>3. ScraperIInv => SteadyIsFound
  BY DEF ScraperIInv
<1>. QED  BY <1>1, <1>2, <1>3, PTL DEF ScraperSpec

-----------------------------------------------------------------------------
(* ProcessPipeline.  SensorKnows speaks of the moments between two events. *)
(* The invariant adds which process may be unknown while an event is       *)
(* handled: the one of the event, as long as the process handler is still  *)
(* to come, and those the refresh has not come to.  Nothing is used of the *)
(* limiter but that it lets a signal pass or does not.                     *)

Types ==
  /\ stream \in {"none", "open", "broken"} /\ first_write \in BOOLEAN
  /\ at \in {"poll", "dispatch", "refresh", "stopped"}
  /\ table \subseteq All /\ index \in Nat \ {0}

(* The handler of processes is the last one until the clean-up.            *)
HandlerNames == {"SelfCheckProcess", "SelfCheckNetwork", "Process"}
LastIsProcess(h) == Len(h) > 0 /\ \A i \in 1..Len(h) : h[i] = "Process" <=> i = Len(h)

Order == handlers \in Seq(HandlerNames) /\ (at # "stopped" => LastIsProcess(handlers))

Refreshing == at = "refresh" => stream # "none" /\ ~first_write /\ evt.type = "execve"

Told == sent \cup limited \cup Unresolved \cup swallowed

(* The process whose event has still to come to the process handler.       *)
Due == IF at = "dispatch" /\ index <= Len(handlers) /\ evt.type = "execve"
       THEN {evt.process} ELSE {}

Knows ==
  stream = "open" /\ ~first_write /\ at # "stopped" =>
    table \subseteq Told \cup Due \cup IF at = "refresh" THEN todo ELSE {}

PipelineIInv == Types /\ Order /\ Refreshing /\ Knows

(* What one message does: it reaches Sensor or is counted as limited or    *)
(* unresolved, or the stream is gone, or a refresh is asked for.           *)
LEMMA HandleTells ==
  ASSUME Types, NEW p, NEW answer \in Results, Handle(p, answer)
  PROVE  /\ sent \subseteq sent' /\ limited \subseteq limited'
         /\ stream' \in {stream, "none"} /\ first_write' \in BOOLEAN
         /\ first_write' => first_write
         /\ stream' # "none" /\ answer \in {"PROCESSED", "IGNORED"} =>
              first_write' = first_write /\ p \in sent' \cup limited' \cup Unresolved
         /\ IF answer = "ERROR" THEN stream' = "none" ELSE stream' = stream
         /\ answer = "NEEDS_REFRESH" => stream' = stream /\ stream # "none" /\ first_write /\ ~first_write'
<1> DEFINE ok == Allow(cache, compute_process_key[p], now).ok
<1>1. CASE p \in Unresolved
  <2>1. answer = "IGNORED" /\ UNCHANGED <<cache, streamVars, sent, limited>>
    BY <1>1, Zenon DEF Handle
  <2>. QED  BY <1>1, <2>1 DEF streamVars, Types
<1>2. CASE p \notin Unresolved /\ ~ok
  <2>1. answer = "IGNORED" /\ limited' = limited \cup {p} /\ UNCHANGED <<streamVars, sent>>
    BY <1>2, Zenon DEF Handle
  <2>. QED  BY <2>1 DEF streamVars, Types
<1>3. CASE p \notin Unresolved /\ ok
  <2>1. PushSignals(p, answer) /\ limited' = limited
    BY <1>3, Zenon DEF Handle
  <2>2. CASE stream = "none"
    <3>1. answer = "ERROR" /\ UNCHANGED <<streamVars, sent>>
      BY <2>1, <2>2 DEF PushSignals
    <3>. QED  BY <2>1, <2>2, <3>1 DEF streamVars, Types
  <2>3. CASE stream # "none" /\ first_write
    <3>1. /\ answer = "NEEDS_REFRESH" /\ first_write' = FALSE
          /\ UNCHANGED <<stream, streams, sent>>
      BY <2>1, <2>3 DEF PushSignals
    <3>. QED  BY <2>1, <2>3, <3>1, Zenon DEF Types
  <2>4. CASE stream = "open" /\ ~first_write
    <3>1. answer = "PROCESSED" /\ sent' = sent \cup {p} /\ UNCHANGED streamVars
      BY <2>1, <2>4 DEF PushSignals
    <3>. QED  BY <2>1, <2>4, <3>1 DEF streamVars, Types
  <2>5. CASE stream = "broken" /\ ~first_write
    <3>1. answer = "ERROR" /\ stream' = "none" /\ UNCHANGED <<first_write, streams, sent>>
      BY <2>1, <2>5 DEF PushSignals
    <3>. QED  BY <2>1, <2>5, <3>1 DEF Types
  <2>. QED  BY <2>2, <2>3, <2>4, <2>5 DEF Types
<1>. QED  BY <1>1, <1>2, <1>3

(* Removing a handler before the last one leaves the last one last.        *)
LEMMA RemoveKeepsLast ==
  ASSUME NEW h \in Seq(HandlerNames), LastIsProcess(h), NEW i \in 1..Len(h), h[i] # "Process"
  PROVE  LET g == SubSeq(h, 1, i - 1) \o SubSeq(h, i + 1, Len(h))
         IN  g \in Seq(HandlerNames) /\ LastIsProcess(g)
<1>1. PICK n \in Nat : n = Len(h)
  OBVIOUS
<1>2. i \in Nat /\ 1 <= i /\ i < n
  BY <1>1 DEF LastIsProcess
<1>3. PICK a : a = SubSeq(h, 1, i - 1)
  BY Zenon
<1>4. PICK b : b = SubSeq(h, i + 1, n)
  BY Zenon
<1>5. a \in Seq(HandlerNames) /\ Len(a) = i - 1 /\ \A j \in 1..i - 1 : a[j] = h[j]
  BY <1>1, <1>2, <1>3
<1>6. b \in Seq(HandlerNames) /\ Len(b) = n - i /\ \A j \in 1..n - i : b[j] = h[i + j]
  BY <1>1, <1>2, <1>4
<1>7. PICK g : g = a \o b
  BY Zenon
<1>8. g \in Seq(HandlerNames) /\ Len(g) = n - 1
  <2>1. a \in Seq(HandlerNames) /\ b \in Seq(HandlerNames)
    BY <1>5, <1>6
  <2>2. g \in Seq(HandlerNames) /\ Len(g) = Len(a) + Len(b)
    BY <1>7, <2>1
  <2>3. Len(a) = i - 1 /\ Len(b) = n - i
    BY <1>5, <1>6
  <2>. QED  BY <1>2, <2>2, <2>3
<1>9. \A j \in 1..n - 1 : g[j] = IF j < i THEN h[j] ELSE h[j + 1]
  <2>1. SUFFICES ASSUME NEW j \in 1..n - 1
                 PROVE  g[j] = IF j < i THEN h[j] ELSE h[j + 1]
    OBVIOUS
  <2>2. g[j] = IF j <= Len(a) THEN a[j] ELSE b[j - Len(a)]
    BY <1>2, <1>5, <1>6, <1>7
  <2>3. CASE j < i
    BY <1>2, <1>5, <2>2, <2>3
  <2>4. CASE ~(j < i)
    <3>1. j - (i - 1) \in 1..n - i /\ i + (j - (i - 1)) = j + 1
      BY <1>2, <2>4
    <3>. QED  BY <1>2, <1>5, <1>6, <2>2, <2>4, <3>1
  <2>. QED  BY <2>3, <2>4
<1>10. LastIsProcess(g)
  <2>1. \A k \in 1..n : h[k] = "Process" <=> k = n
    BY <1>1 DEF LastIsProcess
  <2>2. \A k \in 1..n - 1 : g[k] = "Process" <=> k = n - 1
    BY <1>2, <1>9, <2>1
  <2>. QED  BY <1>2, <1>8, <2>2 DEF LastIsProcess
<1>. QED  BY <1>1, <1>3, <1>4, <1>7, <1>8, <1>10

(* The events and the two handlers that do not send.                       *)
LEMMA DispatchKeeps ==
  ASSUME PipelineIInv, GetNext \/ GetNextNull \/ NextHandler \/ SelfCheck
  PROVE  PipelineIInv'
<1>0. /\ stream' = stream /\ first_write' = first_write
      /\ sent' \cap table' = sent \cap table' /\ limited' \cap table' = limited \cap table'
      /\ swallowed \cap table' \subseteq swallowed'
  BY Zenon DEF GetNext, GetNextNull, NextHandler, SelfCheck, streamVars, ghosts, PipelineIInv, Types, All
<1>1. CASE GetNext
  <2>1. /\ at = "poll" /\ at' = "dispatch" /\ index' = 1 /\ handlers' = handlers
        /\ UNCHANGED <<sent, limited, swallowed>>
    BY <1>1 DEF GetNext, ghosts
  <2>2. table' \subseteq All /\ \A p \in table' \ table : evt'.type = "execve" /\ evt'.process = p
    BY <1>1 DEF GetNext, PipelineIInv, Types
  <2>3. Types' /\ Order' /\ Refreshing'
    BY <1>0, <2>1, <2>2 DEF PipelineIInv, Types, Order, Refreshing
  <2>4. Knows'
    BY <1>0, <2>1, <2>2 DEF PipelineIInv, Order, LastIsProcess, Knows, Told, Due
  <2>. QED  BY <2>3, <2>4 DEF PipelineIInv
<1>2. CASE GetNextNull
  <2>1. at' = at /\ at = "poll" /\ UNCHANGED <<index, handlers, evt>> /\ table' \subseteq table
    BY <1>2 DEF GetNextNull, runVars
  <2>2. Types' /\ Order' /\ Refreshing'
    BY <1>0, <2>1 DEF PipelineIInv, Types, Order, Refreshing
  <2>3. Knows'
    BY <1>0, <2>1 DEF PipelineIInv, Knows, Told, Due
  <2>. QED  BY <2>2, <2>3 DEF PipelineIInv
<1>3. CASE NextHandler
  <2>1. at = "dispatch" /\ UNCHANGED <<handlers, table, sent, limited, swallowed>>
    BY <1>3 DEF NextHandler, ghosts
  <2>2. CASE index > Len(handlers)
    <3>1. at' = "poll" /\ index' = index
      BY <1>3, <2>2 DEF NextHandler
    <3>. QED  BY <1>0, <2>1, <2>2, <3>1 DEF PipelineIInv, Types, Order, Refreshing, Knows, Told, Due
  <2>3. CASE ~(index > Len(handlers))
    <3>1. ~ShouldHandle(handlers[index], evt) /\ index' = index + 1 /\ UNCHANGED <<at, evt>>
      BY <1>3, <2>3 DEF NextHandler
    <3>2. index \in 1..Len(handlers)
      BY <2>3 DEF PipelineIInv, Types, Order
    <3>3. evt.type = "execve" => handlers[index] # "Process"
      BY <3>1, Zenon DEF ShouldHandle
    <3>4. evt.type = "execve" => index + 1 <= Len(handlers)
      BY <2>1, <3>2, <3>3 DEF PipelineIInv, Order, LastIsProcess
    <3>5. Types' /\ Order' /\ Refreshing'
      BY <1>0, <2>1, <3>1, <3>2, <3>4 DEF PipelineIInv, Types, Order, Refreshing
    <3>6. Knows'
      BY <1>0, <2>1, <3>1, <3>2, <3>4 DEF PipelineIInv, Types, Order, Knows, Told, Due
    <3>. QED  BY <3>5, <3>6 DEF PipelineIInv
  <2>. QED  BY <2>2, <2>3
<1>4. CASE SelfCheck
  <2>1. /\ at = "dispatch" /\ index \in 1..Len(handlers) /\ handlers[index] # "Process"
        /\ UNCHANGED <<table, sent, limited>>
    BY <1>4 DEF SelfCheck, PipelineIInv, Types, Order
  <2>2. CASE SelfCheckFinished(evt)
    <3>1. /\ handlers' = SubSeq(handlers, 1, index - 1) \o SubSeq(handlers, index + 1, Len(handlers))
          /\ at' = "poll" /\ index' = index
          /\ swallowed' = IF evt.type = "execve" THEN swallowed \cup {evt.process} ELSE swallowed
      BY <1>4, <2>2, Zenon DEF SelfCheck
    <3>2. Order'
      BY <2>1, <3>1, RemoveKeepsLast DEF PipelineIInv, Order
    <3>3. Types' /\ Refreshing' /\ Knows'
      BY <1>0, <2>1, <3>1 DEF PipelineIInv, Types, Refreshing, Knows, Told, Due
    <3>. QED  BY <3>2, <3>3 DEF PipelineIInv
  <2>3. CASE ~SelfCheckFinished(evt)
    <3>1. index' = index + 1 /\ UNCHANGED <<at, evt, handlers, swallowed>>
      BY <1>4, <2>3 DEF SelfCheck
    <3>2. index + 1 <= Len(handlers)
      BY <2>1 DEF PipelineIInv, Order, LastIsProcess
    <3>. QED  BY <1>0, <2>1, <3>1, <3>2 DEF PipelineIInv, Types, Order, Refreshing, Knows, Told, Due
  <2>. QED  BY <2>2, <2>3
<1>. QED  BY <1>1, <1>2, <1>3, <1>4

(* The process handler, and the refresh.                                   *)
LEMMA SendKeeps ==
  ASSUME PipelineIInv, HandleSignal \/ SendExistingProcesses \/ HandleSignalAgain
  PROVE  PipelineIInv'
<1>0. UNCHANGED <<handlers, table, evt, swallowed>>
  BY DEF HandleSignal, SendExistingProcesses, HandleExistingProcess, HandleSignalAgain
<1>1. CASE HandleSignal
  <2>1. PICK answer \in Results :
          /\ Handle(evt.process, answer)
          /\ IF answer = "NEEDS_REFRESH"
             THEN at' = "refresh" /\ todo' = table /\ UNCHANGED index
             ELSE index' = index + 1 /\ UNCHANGED <<at, todo>>
    BY <1>1 DEF HandleSignal
  <2>2. at = "dispatch" /\ index <= Len(handlers) /\ evt.type = "execve"
    BY <1>1 DEF HandleSignal, ShouldHandle
  <2>3. CASE answer = "NEEDS_REFRESH"
    <3>1. stream' = stream /\ stream # "none" /\ first_write' = FALSE
      BY <2>1, <2>3, HandleTells DEF PipelineIInv
    <3>2. at' = "refresh" /\ todo' = table /\ index' = index
      BY <2>1, <2>3
    <3>. QED  BY <1>0, <2>2, <3>1, <3>2, Zenon DEF PipelineIInv, Types, Order, Refreshing, Knows
  <2>4. CASE answer # "NEEDS_REFRESH"
    <3>1. /\ sent \subseteq sent' /\ limited \subseteq limited'
          /\ stream' \in {stream, "none"} /\ first_write' \in BOOLEAN
          /\ stream' # "none" => first_write' = first_write /\ evt.process \in sent' \cup limited' \cup Unresolved
      BY <2>1, <2>4, HandleTells DEF PipelineIInv, Results
    <3>2. at' = "dispatch" /\ index' = index + 1
      BY <2>1, <2>2, <2>4
    <3>3. Types' /\ Order' /\ Refreshing'
      BY <1>0, <2>2, <3>1, <3>2 DEF PipelineIInv, Types, Order, Refreshing
    <3>4. Knows'
      BY <1>0, <2>2, <3>1, <3>2 DEF PipelineIInv, Knows, Told, Due
    <3>. QED  BY <3>3, <3>4 DEF PipelineIInv
  <2>. QED  BY <2>3, <2>4
<1>2. CASE SendExistingProcesses
  <2>1. PICK p \in todo, answer \in Results :
          /\ Handle(p, answer)
          /\ IF answer \in {"ERROR", "NEEDS_REFRESH"}
             THEN at' = "dispatch" /\ index' = index + 1 /\ todo' = {}
             ELSE todo' = todo \ {p} /\ UNCHANGED <<at, index>>
    BY <1>2 DEF SendExistingProcesses, HandleExistingProcess
  <2>2. at = "refresh" /\ stream # "none" /\ ~first_write
    BY <1>2 DEF SendExistingProcesses, HandleExistingProcess, PipelineIInv, Refreshing
  <2>3. /\ sent \subseteq sent' /\ limited \subseteq limited' /\ ~first_write' /\ first_write' \in BOOLEAN
        /\ stream' \in {stream, "none"} /\ answer # "NEEDS_REFRESH"
        /\ IF answer = "ERROR" THEN stream' = "none" ELSE stream' = stream
        /\ stream' # "none" => p \in sent' \cup limited' \cup Unresolved
    BY <2>1, <2>2, HandleTells DEF PipelineIInv, Results
  <2>4. CASE answer = "ERROR"
    <3>1. at' = "dispatch" /\ index' = index + 1 /\ stream' = "none"
      BY <2>1, <2>3, <2>4
    <3>. QED  BY <1>0, <2>2, <2>3, <3>1 DEF PipelineIInv, Types, Order, Refreshing, Knows
  <2>5. CASE answer # "ERROR"
    <3>1. todo' = todo \ {p} /\ at' = at /\ index' = index
      BY <2>1, <2>3, <2>5
    <3>2. stream' = stream
      BY <2>3, <2>5
    <3>3. Types' /\ Order' /\ Refreshing'
      BY <1>0, <2>2, <2>3, <3>1, <3>2 DEF PipelineIInv, Types, Order, Refreshing
    <3>4. Knows'
      BY <1>0, <2>2, <2>3, <3>1 DEF PipelineIInv, Knows, Told, Due
    <3>. QED  BY <3>3, <3>4 DEF PipelineIInv
  <2>. QED  BY <2>4, <2>5
<1>3. CASE HandleSignalAgain
  <2>1. at = "refresh" /\ todo = {} /\ at' = "dispatch" /\ index' = index + 1 /\ ~first_write
    BY <1>3 DEF HandleSignalAgain, PipelineIInv, Refreshing
  <2>2. /\ sent \subseteq sent' /\ limited \subseteq limited' /\ first_write' \in BOOLEAN /\ ~first_write'
        /\ stream' \in {stream, "none"}
    BY <1>3, <2>1, HandleTells DEF HandleSignalAgain, PipelineIInv
  <2>3. Types' /\ Order' /\ Refreshing'
    BY <1>0, <2>1, <2>2 DEF PipelineIInv, Types, Order, Refreshing
  <2>4. Knows'
    BY <1>0, <2>1, <2>2 DEF PipelineIInv, Knows, Told, Due
  <2>. QED  BY <2>3, <2>4 DEF PipelineIInv
<1>. QED  BY <1>1, <1>2, <1>3

(* Time, the stream and the end.                                           *)
LEMMA OtherKeeps ==
  ASSUME PipelineIInv, Elapse \/ EstablishStream \/ BreakStream \/ ShutdownHandler \/ CleanUp \/ UNCHANGED vars
  PROVE  PipelineIInv'
<1>1. CASE Elapse \/ ShutdownHandler \/ UNCHANGED vars
  <2>1. UNCHANGED <<handlers, table, stream, first_write, at, evt, index, todo, sent, limited, swallowed>>
    BY <1>1, Zenon DEF Elapse, ShutdownHandler, vars, streamVars, runVars, ghosts
  <2>. QED  BY <2>1 DEF PipelineIInv, Types, Order, Refreshing, Knows, Told, Due
<1>2. CASE EstablishStream
  <2>1. UNCHANGED <<handlers, table, at, evt, index, todo>>
    BY <1>2 DEF EstablishStream, runVars
  <2>2. stream = "none" /\ stream' = "open" /\ first_write' = TRUE
    BY <1>2 DEF EstablishStream
  <2>. QED  BY <2>1, <2>2 DEF PipelineIInv, Types, Order, Refreshing, Knows
<1>3. CASE BreakStream
  <2>1. UNCHANGED <<handlers, table, first_write, at, evt, index, todo>>
    BY <1>3 DEF BreakStream, runVars
  <2>2. stream = "open" /\ stream' = "broken"
    BY <1>3 DEF BreakStream
  <2>. QED  BY <2>1, <2>2 DEF PipelineIInv, Types, Order, Refreshing, Knows
<1>4. CASE CleanUp
  <2>1. at' = "stopped" /\ handlers' = <<>> /\ stream' = "none" /\ table' = {} /\ UNCHANGED <<first_write, index>>
    BY <1>4 DEF CleanUp
  <2>. QED  BY <2>1 DEF PipelineIInv, Types, Order, Refreshing, Knows
<1>. QED  BY <1>1, <1>2, <1>3, <1>4

(* Between two events Sensor knows every running process on a stream on    *)
(* which the existing processes were asked for, but for those the limiter  *)
(* or the formatter refused or a finished self-check handler swallowed     *)
(* (Service.cpp, ProcessSignalHandler.cpp).                                *)
THEOREM SensorKnowsHolds == Spec => []SensorKnows
<1>1. Init => PipelineIInv
  <2>1. SUFFICES ASSUME Init
                 PROVE  PipelineIInv
    OBVIOUS
  <2>2. handlers = <<"SelfCheckProcess", "SelfCheckNetwork", "Process">> /\ first_write = FALSE
    BY <2>1 DEF Init, Handlers
  <2>3. Order
    BY <2>2 DEF Order, HandlerNames, LastIsProcess
  <2>4. first_write \in BOOLEAN
    BY <2>2, Zenon
  <2>5. /\ at = "poll" /\ stream = "none" /\ index = 1 /\ table \subseteq All
    BY <2>1 DEF Init, All
  <2>6. Types /\ Refreshing /\ Knows
    BY <2>4, <2>5 DEF Types, Refreshing, Knows
  <2>. QED  BY <2>3, <2>6 DEF PipelineIInv
<1>2. PipelineIInv /\ [Next]_vars => PipelineIInv'
  BY DispatchKeeps, SendKeeps, OtherKeeps, Zenon DEF Next, Run
<1>3. PipelineIInv => SensorKnows
  BY DEF PipelineIInv, Knows, SensorKnows, Told, Due
<1>. QED  BY <1>1, <1>2, <1>3, PTL DEF Spec
=============================================================================
