--------------------------- MODULE ProcfsScraper ----------------------------
(***************************************************************************)
(* One scrape of /proc for connections and listening sockets               *)
(* (collector/collector/lib/ProcfsScraper.cpp, ReadContainerConnections).  *)
(*                                                                         *)
(* /proc is not read at one moment.  A process shows which sockets it      *)
(* holds, as inodes, and the connections of its network namespace, by      *)
(* inode; the scrape joins the two.  The connections of a namespace are    *)
(* read once, with the first process that holds sockets there, and the     *)
(* process may exit between any two reads.                                 *)
(***************************************************************************)
EXTENDS Integers, FiniteSets

CONSTANTS
  Pids,        \* processes, in no order: readdir's
  ContainerOf, \* pid -> container, or "none"
  NetnsOf,     \* pid -> network namespace
  Inodes,      \* sockets, used once
  FileOf       \* inode -> the file it is listed in, "tcp" or "tcp6"

VARIABLES
  hasTcp6,     \* whether there is a net/tcp6
  gone,        \* processes that exited or are zombies
  held,        \* <<pid, inode>>: open sockets
  usedInodes,  \* inodes that are or were in use
  steady,      \* open since the scrape began
  unseen,      \* processes readdir has not returned yet
  scraper,     \* the step it is at, the process it looks at, no_sockets, success
  sockets,     \* sockets_by_container_and_ns: <<container, netns>> -> inodes
  conns,       \* conns_by_ns: netns -> inodes with a connection or listening
  erased,      \* namespaces whose connections were dropped again
  found        \* <<container, inode>>: what the scrape returns

proc == <<hasTcp6, gone, held, usedInodes, steady>>
scraperVars == <<proc, unseen, scraper, sockets, conns, erased, found>>

Idle == [at |-> "read", pid |-> 0, no_sockets |-> FALSE, success |-> TRUE]
Empty == [x \in {} |-> {}]
HeldBy(p) == {i \in Inodes : <<p, i>> \in held}

(* What a file of a namespace lists: the sockets somebody there has open.  *)
Listed(ns, file) == {i \in Inodes : FileOf[i] = file /\ \E p \in Pids : NetnsOf[p] = ns /\ <<p, i>> \in held}

ScraperInit ==
  /\ hasTcp6 \in BOOLEAN
  /\ gone = {} /\ held \in SUBSET (Pids \X Inodes)
  /\ \A h1, h2 \in held : h1[2] = h2[2] => NetnsOf[h1[1]] = NetnsOf[h2[1]]
  /\ usedInodes = {h[2] : h \in held} /\ steady = held
  /\ unseen = Pids /\ scraper = Idle
  /\ sockets = Empty /\ conns = Empty /\ erased = {} /\ found = {}

-----------------------------------------------------------------------------
(* The processes meanwhile.                                                *)
Exit(p) ==
  /\ p \notin gone /\ scraper.at # "done"
  /\ gone' = gone \cup {p}
  /\ held' = {h \in held : h[1] # p}
  /\ steady' = {h \in steady : h[1] # p}
  /\ UNCHANGED <<hasTcp6, usedInodes, unseen, scraper, sockets, conns, erased, found>>

Open(p, i) ==
  /\ p \notin gone /\ i \notin usedInodes /\ scraper.at # "done"
  /\ held' = held \cup {<<p, i>>} /\ usedInodes' = usedInodes \cup {i}
  /\ UNCHANGED <<hasTcp6, gone, steady, unseen, scraper, sockets, conns, erased, found>>

Close(p, i) ==
  /\ <<p, i>> \in held /\ scraper.at # "done"
  /\ held' = held \ {<<p, i>>} /\ steady' = steady \ {<<p, i>>}
  /\ UNCHANGED <<hasTcp6, gone, usedInodes, unseen, scraper, sockets, conns, erased, found>>

-----------------------------------------------------------------------------
(* ReadContainerConnections.  Key is the pair of the process.              *)
Key == <<ContainerOf[scraper.pid], NetnsOf[scraper.pid]>>
Netns == NetnsOf[scraper.pid]
Of(f, k) == IF k \in DOMAIN f THEN f[k] ELSE {}
With(f, k, s) == [x \in DOMAIN f \cup {k} |-> IF x = k THEN s ELSE f[x]]

(* The next process: one that is gone, a zombie or in no container is      *)
(* passed over; otherwise its container and namespace are read.            *)
ReadProcess(p) ==
  /\ scraper.at = "read" /\ p \in unseen /\ unseen' = unseen \ {p}
  /\ IF p \in gone \/ ContainerOf[p] = "none"
     THEN UNCHANGED <<scraper, sockets>>
     ELSE LET key == <<ContainerOf[p], NetnsOf[p]>>
          IN  /\ scraper' = [at |-> "sockets", pid |-> p, success |-> TRUE,
                             no_sockets |-> Of(sockets, key) = {}]
              /\ sockets' = With(sockets, key, Of(sockets, key))
  /\ UNCHANGED <<proc, conns, erased, found>>

(* GetSocketINodes, and whether the namespace's connections are known.     *)
GetSocketINodes ==
  /\ scraper.at = "sockets"
  /\ IF scraper.pid \in gone THEN scraper' = Idle /\ UNCHANGED <<sockets, conns>>
     ELSE /\ sockets' = [sockets EXCEPT ![Key] = @ \cup HeldBy(scraper.pid)]
          /\ IF scraper.no_sockets /\ sockets'[Key] # {} /\ Netns \notin DOMAIN conns
             THEN scraper' = [scraper EXCEPT !.at = "tcp"] /\ conns' = With(conns, Netns, {})
             ELSE scraper' = Idle /\ UNCHANGED conns
  /\ UNCHANGED <<proc, unseen, erased, found>>

(* GetConnections: the two files; no file, and no process, is a failure.   *)
ReadTcp ==
  /\ scraper.at = "tcp"
  /\ IF scraper.pid \in gone
     THEN scraper' = [scraper EXCEPT !.at = "tcp6", !.success = FALSE] /\ UNCHANGED conns
     ELSE /\ scraper' = [scraper EXCEPT !.at = "tcp6"]
          /\ conns' = [conns EXCEPT ![Netns] = @ \cup Listed(Netns, "tcp")]
  /\ UNCHANGED <<proc, unseen, sockets, erased, found>>

ReadTcp6 ==
  /\ scraper.at = "tcp6"
  /\ IF scraper.pid \in gone \/ ~hasTcp6
     THEN scraper' = [scraper EXCEPT !.at = "recheck"] /\ UNCHANGED conns
     ELSE /\ scraper' = IF scraper.success THEN Idle ELSE [scraper EXCEPT !.at = "recheck"]
          /\ conns' = [conns EXCEPT ![Netns] = @ \cup Listed(Netns, "tcp6")]
  /\ UNCHANGED <<proc, unseen, sockets, erased, found>>

(* After a failure: a process that is still there failed for good, and     *)
(* what was read is kept.  RecheckErases drops it either way.              *)
RecheckErases ==
  /\ scraper.at = "recheck" /\ scraper' = Idle
  /\ conns' = [ns \in DOMAIN conns \ {Netns} |-> conns[ns]]
  /\ erased' = IF scraper.pid \in gone THEN erased \cup {Netns} ELSE erased
  /\ UNCHANGED <<proc, unseen, sockets, found>>

Recheck ==
  /\ scraper.at = "recheck" /\ scraper' = Idle
  /\ IF scraper.pid \in gone
     THEN /\ conns' = [ns \in DOMAIN conns \ {Netns} |-> conns[ns]]
          /\ erased' = erased \cup {Netns}
     ELSE UNCHANGED <<conns, erased>>
  /\ UNCHANGED <<proc, unseen, sockets, found>>

(* ResolveSocketInodes, when readdir has returned every process.           *)
ResolveSocketInodes ==
  /\ scraper.at = "read" /\ unseen = {}
  /\ scraper' = [Idle EXCEPT !.at = "done"]
  /\ found' = UNION {{<<k[1], i>> : i \in sockets[k] \cap Of(conns, k[2])} : k \in DOMAIN sockets}
  /\ UNCHANGED <<proc, unseen, sockets, conns, erased>>

ReadContainerConnections ==
  \/ \E p \in Pids : ReadProcess(p)
  \/ GetSocketINodes \/ ReadTcp \/ ReadTcp6 \/ Recheck \/ ResolveSocketInodes

ScraperNext ==
  \/ \E p \in Pids : Exit(p) \/ \E i \in Inodes : Open(p, i) \/ Close(p, i)
  \/ ReadContainerConnections

ScraperSpec == ScraperInit /\ [][ScraperNext]_scraperVars

-----------------------------------------------------------------------------
(* ProcfsScraper.cpp:545: "Make sure we actually have the information      *)
(* about connections in this network namespace."  A socket that a process  *)
(* of a container holds open all through the scrape is found, whatever     *)
(* else opens, closes and exits, whichever process is read first, and with *)
(* a file missing, as long as the scrape did not drop the connections of   *)
(* the namespace because the process it read them with exited: they are    *)
(* read again only with the first sockets of another container.            *)
SteadyIsFound ==
  scraper.at = "done" =>
    \A h \in steady : \/ ContainerOf[h[1]] = "none" \/ NetnsOf[h[1]] \in erased
                      \/ FileOf[h[2]] = "tcp6" /\ ~hasTcp6
                      \/ <<ContainerOf[h[1]], h[2]>> \in found
=============================================================================
