---------------------------- MODULE ConfigLoader ----------------------------
(***************************************************************************)
(* The thread that keeps the runtime configuration equal to a file         *)
(* (collector/collector/lib/ConfigLoader.cpp), and the inotify watches it  *)
(* does so with (Inotify.cpp).                                             *)
(*                                                                         *)
(* The file is a regular file or a symbolic link, as Kubernetes mounts a   *)
(* ConfigMap.  It is watched by its directory (creation and deletion of    *)
(* the name), by itself (its inode, not the one it points to), and, when   *)
(* it is a link, by its target.  The kernel names a watch by a descriptor  *)
(* that belongs to an inode and ends with it; a path that exists again is  *)
(* another inode.  The target of a link is named by its inode: an update   *)
(* of a ConfigMap is a new file in a new directory.                        *)
(***************************************************************************)
EXTENDS Integers, Sequences, FiniteSets

CONSTANTS
  Valid,      \* contents that parse
  Default,    \* the configuration in force when there is no file
  MaxInodes,  \* files and links made in a behaviour
  MaxEdits    \* changes of the file system in a behaviour

VARIABLES
  edits,      \* the kinds of changes that are made to the file system
  edited,     \* how many were
  inodes,     \* the files and links made so far: their kind and content
  entry,      \* the inode the configuration file's name stands for, or 0
  target,     \* the inode a link leads to, or 0
  old,        \* a target that was replaced and is not yet deleted, or 0
  inotify,    \* inotify_: its watchers_, and the kernel's side of it
  loader,     \* where the thread is
  config,     \* the runtime configuration in force
  missed      \* no event tells of the file as it is now (history)

fs == <<edits, edited, inodes, entry, target, old, missed>>
loaderVars == <<fs, inotify, loader, config>>

Invalid == "invalid"

(* The paths that are watched: these two, and targets.                     *)
Directory == -1
File == 0

Text(i) == inodes[i].text
IsLink == entry # 0 /\ inodes[entry].kind = "link"
Exists == entry # 0 /\ (IsLink => target # 0)
Real == IF IsLink THEN target ELSE entry

FileEdits == {"Create", "Write", "Replace", "Unlink", "MoveAway"}
ConfigMapEdits == {"Link", "Unlink", "Write", "Swap", "DeleteOld"}

(* The file may be there before the collector is.                          *)
LoaderInit ==
  /\ edits \in {FileEdits, ConfigMapEdits} /\ edited = 0
  /\ \E v \in Valid, there \in BOOLEAN :
       IF edits = FileEdits
       THEN /\ inodes = IF there THEN <<[kind |-> "file", text |-> v]>> ELSE <<>>
            /\ entry = Len(inodes) /\ target = 0
       ELSE /\ inodes = <<[kind |-> "file", text |-> v]>>
                        \o IF there THEN <<[kind |-> "link", text |-> v]>> ELSE <<>>
            /\ entry = (IF there THEN 2 ELSE 0) /\ target = 1
  /\ old = 0
  /\ inotify = [watchers |-> {}, watched |-> [i \in {} |-> 0], wds |-> 0, queue |-> <<>>]
  /\ loader = "start" /\ config = Default /\ missed = FALSE

-----------------------------------------------------------------------------
(* What inotify does.  The descriptor of the directory is 0, those of      *)
(* files are numbered from 1 and not used again.                           *)
Queued(n, wd, mask) == [n EXCEPT !.queue = Append(@, [wd |-> wd, mask |-> mask])]

WithDir(n, mask) ==
  IF \E w \in n.watchers : w.path = Directory THEN Queued(n, 0, mask) ELSE n

(* An event of an inode, and the end of an inode and of its watch.         *)
WithFile(n, i, mask) ==
  IF i \in DOMAIN n.watched THEN Queued(n, n.watched[i], mask) ELSE n

Unwatched(n, wd) ==
  IF \E i \in DOMAIN n.watched : n.watched[i] = wd
  THEN [Queued(n, wd, "IGNORED") EXCEPT
          !.watched = [i \in {j \in DOMAIN n.watched : n.watched[j] # wd} |-> n.watched[i]]]
  ELSE n

Deleted(n, i) ==
  IF i \in DOMAIN n.watched
  THEN Unwatched(WithFile(n, i, "DELETE_SELF"), n.watched[i]) ELSE n

(* AddWatcher: the watch of an inode is one; the watcher of a path is one. *)
(* AddWatcherTwice leaves the old watch of a path alone.                   *)
AddWatcherTwice(n, path, i, tag) ==
  IF i = 0 THEN n ELSE
  LET new == i \notin DOMAIN n.watched
      wd == IF new THEN n.wds + 1 ELSE n.watched[i]
  IN  [n EXCEPT !.wds = IF new THEN wd ELSE @,
                !.watched = [j \in DOMAIN @ \cup {i} |-> IF j = i THEN wd ELSE @[j]],
                !.watchers = @ \cup {[path |-> path, wd |-> wd, tag |-> tag]}]

AddWatcher(n, path, i, tag) ==
  IF i = 0 THEN n ELSE
  LET new == i \notin DOMAIN n.watched
      wd == IF new THEN n.wds + 1 ELSE n.watched[i]
      m == [n EXCEPT !.wds = IF new THEN wd ELSE @,
                     !.watched = [j \in DOMAIN @ \cup {i} |-> IF j = i THEN wd ELSE @[j]]]
      stale == {w \in n.watchers : w.path = path /\ w.wd # wd}
      k == IF stale = {} THEN m ELSE Unwatched(m, (CHOOSE w \in stale : TRUE).wd)
  IN  [k EXCEPT !.watchers = {w \in @ : w.path # path}
                               \cup {[path |-> path, wd |-> wd, tag |-> tag]}]

AddFileWatcher(n) == AddWatcher(n, File, entry, "file")
AddRealpathWatcher(n) == IF IsLink THEN AddWatcher(n, target, target, "realpath") ELSE n

RemoveWatcher(n, ws) ==
  IF ws = {} THEN n
  ELSE [Unwatched(n, (CHOOSE w \in ws : TRUE).wd) EXCEPT !.watchers = @ \ ws]

-----------------------------------------------------------------------------
(* Changes of the file system, with the events of those the kernel was     *)
(* asked for.  The directory's watch has no renames (Inotify.cpp:42): it   *)
(* tells of a name that is made or deleted, so that an earlier miss is put *)
(* right, but not of a file that is moved to the name, nor of one that is  *)
(* moved away before the loader watches the file itself.  What is read     *)
(* through a link is watched after it is read when the link is new         *)
(* (ConfigLoader.cpp:617-620): no event tells of a change between the two. *)
Edit(kind) == kind \in edits /\ edited < MaxEdits /\ edited' = edited + 1
New(kind, v) == /\ Len(inodes) < MaxInodes
                /\ inodes' = Append(inodes, [kind |-> kind, text |-> v])

Watched(i) == i \in DOMAIN inotify.watched
MissedMove(told) == missed \/ (loader # "start" /\ ~told)
MissedChange == ~(IsLink /\ Watched(target)) /\ (missed \/ (IsLink /\ loader = "watch"))

Create ==
  /\ Edit("Create") /\ entry = 0 /\ New("file", Invalid)
  /\ entry' = Len(inodes') /\ missed' = FALSE
  /\ inotify' = WithDir(inotify, "CREATE")
  /\ UNCHANGED <<edits, target, old, loader, config>>

Write(v) ==
  /\ Edit("Write") /\ Exists /\ missed' = MissedChange
  /\ inodes' = [inodes EXCEPT ![Real].text = v]
  /\ inotify' = WithFile(inotify, Real, "MODIFY")
  /\ UNCHANGED <<edits, entry, target, old, loader, config>>

(* A file is renamed to it, over another one as editors do or not.         *)
Replace(v) ==
  /\ Edit("Replace") /\ New("file", v) /\ missed' = MissedMove(entry # 0)
  /\ entry' = Len(inodes')
  /\ inotify' = Deleted(inotify, entry)
  /\ UNCHANGED <<edits, target, old, loader, config>>

Unlink ==
  /\ Edit("Unlink") /\ entry # 0 /\ entry' = 0 /\ missed' = FALSE
  /\ inotify' = Deleted(WithDir(inotify, "DELETE"), entry)
  /\ UNCHANGED <<edits, inodes, target, old, loader, config>>

MoveAway ==
  /\ Edit("MoveAway") /\ entry # 0 /\ entry' = 0 /\ missed' = MissedMove(Watched(entry))
  /\ inotify' = WithFile(inotify, entry, "MOVE_SELF")
  /\ UNCHANGED <<edits, inodes, target, old, loader, config>>

(* A ConfigMap: the link to an existing target; an update, which changes   *)
(* where the link leads to before it deletes what it led to; and a change  *)
(* of the target in place.                                                 *)
Link ==
  /\ Edit("Link") /\ entry = 0 /\ New("link", Invalid)
  /\ entry' = Len(inodes') /\ missed' = FALSE
  /\ inotify' = WithDir(inotify, "CREATE")
  /\ UNCHANGED <<edits, target, old, loader, config>>

Swap(v) ==
  /\ Edit("Swap") /\ old = 0 /\ New("file", v) /\ missed' = MissedChange
  /\ target' = Len(inodes') /\ old' = target
  /\ UNCHANGED <<edits, entry, inotify, loader, config>>

DeleteOld ==
  /\ "DeleteOld" \in edits /\ old # 0 /\ old' = 0
  /\ inotify' = Deleted(inotify, old)
  /\ UNCHANGED <<edits, edited, inodes, entry, target, loader, config, missed>>

RemoveDirectory ==
  /\ loader = "loop" /\ entry = 0 /\ edits = FileEdits
  /\ edited < MaxEdits /\ edited' = MaxEdits
  /\ inotify' = WithDir(inotify, "DELETE_SELF")
  /\ UNCHANGED <<edits, inodes, entry, target, old, loader, config, missed>>

-----------------------------------------------------------------------------
(* LoadConfiguration: the configuration in force after it.  A file that is *)
(* missing or does not parse leaves it as it is.                           *)
LoadConfiguration ==
  IF Exists /\ Text(Real) \in Valid THEN Text(Real) ELSE config

Load ==
  /\ loader = "load" /\ loader' = "loop"
  /\ config' = LoadConfiguration
  /\ UNCHANGED <<fs, inotify>>

(* WatchFile up to its loop: the directory is watched before the file is   *)
(* looked for.                                                             *)
StartWatching ==
  /\ loader = "start" /\ loader' = "scan"
  /\ inotify' = [inotify EXCEPT !.watchers = {[path |-> Directory, wd |-> 0, tag |-> "directory"]}]
  /\ UNCHANGED <<fs, config>>

Scan ==
  /\ loader = "scan"
  /\ IF Exists THEN /\ inotify' = AddRealpathWatcher(AddFileWatcher(inotify))
                    /\ loader' = "load"
     ELSE loader' = "loop" /\ UNCHANGED inotify
  /\ UNCHANGED <<fs, config>>

(* The first event, taken off the queue.                                   *)
Event == Head(inotify.queue)
Taken == [inotify EXCEPT !.queue = Tail(@)]
FindWatcher(wd) == {w \in inotify.watchers : w.wd = wd}

(* HandleEvent.  An event of a watch that is no longer known is ignored.   *)
HandleEvent(tag) ==
  /\ loader = "loop" /\ inotify.queue # <<>>
  /\ IF tag = "none" THEN FindWatcher(Event.wd) = {}
     ELSE \E w \in FindWatcher(Event.wd) : w.tag = tag
  /\ UNCHANGED fs

IgnoreEvent == HandleEvent("none") /\ inotify' = Taken /\ UNCHANGED <<loader, config>>

HandleConfigDirectoryEvent ==
  /\ HandleEvent("directory")
  /\ CASE Event.mask = "DELETE_SELF" ->
            loader' = "stopped" /\ inotify' = Taken /\ UNCHANGED config
       [] Event.mask = "CREATE" ->
            loader' = "created" /\ inotify' = AddFileWatcher(Taken) /\ UNCHANGED config
       [] Event.mask = "DELETE" ->
            /\ inotify' = RemoveWatcher(Taken, {w \in Taken.watchers : w.path = File})
            /\ config' = Default
            /\ UNCHANGED loader

(* The rest of IN_CREATE: here the target is watched after it is read.     *)
LoadCreated ==
  /\ loader = "created" /\ loader' = "watch"
  /\ config' = LoadConfiguration
  /\ UNCHANGED <<fs, inotify>>

WatchCreated ==
  /\ loader = "watch" /\ loader' = "loop"
  /\ inotify' = AddRealpathWatcher(inotify)
  /\ UNCHANGED <<fs, config>>

(* The end of the file's watch is never seen here: by then the watcher has *)
(* another descriptor, or is gone.  FileEventForgets does not look whether *)
(* there is another file now.                                              *)
FileEventForgets ==
  /\ HandleEvent("file")
  /\ CASE Event.mask = "MODIFY" ->
            inotify' = AddRealpathWatcher(Taken) /\ loader' = "load" /\ UNCHANGED config
       [] Event.mask \in {"MOVE_SELF", "DELETE_SELF"} ->
            /\ inotify' = RemoveWatcher(Taken, FindWatcher(Event.wd))
            /\ config' = Default /\ UNCHANGED loader
       [] OTHER -> inotify' = Taken /\ UNCHANGED <<loader, config>>

HandleConfigFileEvent ==
  /\ HandleEvent("file")
  /\ CASE Event.mask = "MODIFY" ->
            inotify' = AddRealpathWatcher(Taken) /\ loader' = "load" /\ UNCHANGED config
       [] Event.mask \in {"MOVE_SELF", "DELETE_SELF"} /\ Exists ->
            /\ inotify' = AddRealpathWatcher(AddFileWatcher(Taken))
            /\ loader' = "load" /\ UNCHANGED config
       [] Event.mask \in {"MOVE_SELF", "DELETE_SELF"} /\ ~Exists ->
            /\ inotify' = RemoveWatcher(Taken, FindWatcher(Event.wd))
            /\ config' = Default /\ UNCHANGED loader

HandleConfigRealpathEvent ==
  /\ HandleEvent("realpath")
  /\ CASE Event.mask = "MODIFY" ->
            inotify' = Taken /\ loader' = "load" /\ UNCHANGED config
       [] Event.mask \in {"MOVE_SELF", "DELETE_SELF"} /\ IsLink ->
            inotify' = AddRealpathWatcher(Taken) /\ loader' = "load" /\ UNCHANGED config
       [] Event.mask \in {"MOVE_SELF", "DELETE_SELF"} /\ ~IsLink ->
            /\ inotify' = RemoveWatcher(Taken, FindWatcher(Event.wd))
            /\ config' = Default /\ UNCHANGED loader
       [] OTHER -> inotify' = Taken /\ UNCHANGED <<loader, config>>

Edits == \/ Create \/ Unlink \/ MoveAway \/ Link \/ DeleteOld \/ RemoveDirectory
         \/ \E v \in Valid : Write(v) \/ Replace(v) \/ Swap(v)

WatchFile == \/ StartWatching \/ Scan \/ Load \/ IgnoreEvent
             \/ HandleConfigDirectoryEvent \/ LoadCreated \/ WatchCreated
             \/ HandleConfigFileEvent \/ HandleConfigRealpathEvent

LoaderNext == Edits \/ WatchFile

LoaderSpec == LoaderInit /\ [][LoaderNext]_loaderVars

-----------------------------------------------------------------------------
(* A path is watched by one watcher, and by a descriptor that was given    *)
(* out; the kernel has no watch that no watcher knows.                     *)
WatchersAreKnown ==
  /\ \A w1, w2 \in inotify.watchers : w1.path = w2.path => w1 = w2
  /\ \A i \in DOMAIN inotify.watched : FindWatcher(inotify.watched[i]) # {}

(* collector/docs/references.md:150-152: "Whenever the configuration file  *)
(* is updated or created, collector will update the configuration. If the  *)
(* configuration file is deleted the configuration will revert to the      *)
(* default."  When all events are handled the configuration in force is    *)
(* the one of the file.                                                    *)
SettlesOnFile ==
  loader = "loop" /\ inotify.queue = <<>> /\ old = 0 =>
    IF ~Exists THEN config = Default
    ELSE Text(Real) \in Valid => config = Text(Real)

(* WatchFile: the configuration in force is the file's once all events are *)
(* handled, whatever was done to a regular file and whatever updates a     *)
(* ConfigMap had, unless the last of it was a move or a change of which no *)
(* event tells (missed); a later creation, deletion or told change puts    *)
(* the configuration right.  And the kernel has no watch that the loader   *)
(* does not know, whatever was missed.                                     *)
FollowsFile == (missed \/ SettlesOnFile) /\ WatchersAreKnown
=============================================================================
