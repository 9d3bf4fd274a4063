------------------------- MODULE ConfigLoaderProofs -------------------------
(***************************************************************************)
(* FollowsFile for any contents, any number of inodes and any number of    *)
(* changes of the file system.                                             *)
(*                                                                         *)
(* FollowsFile speaks of a loader that has handled all events.  The        *)
(* invariant says why it need not fear the moments before: while there is  *)
(* a file, it is watched or an event that makes the loader watch it is     *)
(* queued or sure to come (Sees), and the configuration is the file's, or  *)
(* an event that makes the loader read it is queued (FollowsThere); while  *)
(* there is none, the configuration is the default or the event that       *)
(* resets it is queued (FollowsGone); and the creation of the file that is *)
(* there is told after every deletion (Ordered).  All this is owed as long *)
(* as nothing is missed; that the watches fit the watchers is so whatever  *)
(* is missed (Sound).                                                      *)
(***************************************************************************)
EXTENDS InotifyProofs

-----------------------------------------------------------------------------
(* The inductive invariant.                                                *)

(* Names, targets and inodes are of the kind the changes make them.        *)
InodeSet == [kind : {"file", "link"}, text : Valid \cup {Invalid}]

Files ==
  /\ edits \in {FileEdits, ConfigMapEdits} /\ inodes \in Seq(InodeSet)
  /\ entry \in 0..Len(inodes) /\ target \in 0..Len(inodes) /\ old \in 0..Len(inodes)
  /\ edits = FileEdits => target = 0 /\ old = 0 /\ (entry # 0 => inodes[entry].kind = "file")
  /\ edits = ConfigMapEdits =>
       /\ target # 0 /\ old # target /\ inodes[target].kind = "file"
       /\ old # 0 => inodes[old].kind = "file"
       /\ entry # 0 => inodes[entry].kind = "link"

Paths == [i \in 1..Len(inodes) |->
            IF edits = ConfigMapEdits /\ inodes[i].kind = "file" THEN i ELSE File]

(* Before the loop nothing but the directory is watched, and the directory *)
(* always is after the start.                                              *)
Dir == [path |-> Directory, wd |-> 0, tag |-> "directory"]

Started(n, l, c) ==
  /\ l = "start" => n.watchers = {} /\ n.queue = <<>>
  /\ l # "start" => Dir \in n.watchers
  /\ l \in {"start", "scan"} => DOMAIN n.watched = {} /\ c = Default

(* When there is a file, its creation is told after any deletion.  Only a  *)
(* regular file is moved to its name.                                      *)
NoMoves == missed => edits = ConfigMapEdits
Ordered(n) == entry # 0 /\ NoMoves => After(n.queue, DELETE, CREATE)

(* An event that will make the loader look at the file again, or one that  *)
(* is sure to come; the file is watched or such an event is there; and the *)
(* configuration is the file's or an event that makes it so is there.      *)
Awaited(n) ==
  \/ Has(n.queue, CREATE) \/ Known(n, "MOVE_SELF") \/ Known(n, "DELETE_SELF")
  \/ old # 0 /\ old \in DOMAIN n.watched
Sees(n) == Real \in DOMAIN n.watched \/ Awaited(n)
Fresh(c) == Text(Real) \in Valid => c = Text(Real)

FollowsThere(n, l, c) ==
  /\ l \in {"load", "loop"} \/ (l \in {"created", "watch"} /\ ~IsLink) => Sees(n)
  /\ l \in {"loop", "watch"} => Fresh(c) \/ Awaited(n) \/ Known(n, "MODIFY")
FollowsGone(n, l, c) ==
  l \in {"load", "loop", "created", "watch"} =>
    c = Default \/ Has(n.queue, DELETE) \/ Known(n, "MOVE_SELF")

Holds(n, l, c) ==
  /\ Sound(n, Paths, target) /\ Started(n, l, c) /\ Ordered(n)
  /\ entry # 0 /\ ~missed => FollowsThere(n, l, c)
  /\ entry = 0 /\ ~missed => FollowsGone(n, l, c)

IInv == Files /\ Holds(inotify, loader, config)

-----------------------------------------------------------------------------
(* Facts of the file system the steps use.                                 *)
LEMMA FilesFacts ==
  ASSUME Files
  PROVE  /\ PathMap(Paths) /\ DOMAIN Paths = 1..Len(inodes)
         /\ Len(inodes) \in Nat /\ target \in Nat /\ entry \in Nat
         /\ entry # 0 => entry \in DOMAIN Paths /\ Paths[entry] = File /\ Tag(Paths[entry]) = "file"
         /\ Exists <=> entry # 0
         /\ IsLink <=> entry # 0 /\ edits = ConfigMapEdits
         /\ edits = ConfigMapEdits =>
              target \in DOMAIN Paths /\ Paths[target] = target /\ Tag(target) = "realpath" /\ target # File
         /\ edits # ConfigMapEdits => edits = FileEdits /\ target = File
<1>1. Len(inodes) \in Nat /\ DOMAIN Paths = 1..Len(inodes) BY DEF Files, Paths
<1>2. PathMap(Paths) BY <1>1 DEF PathMap, Paths
<1>3. FileEdits # ConfigMapEdits
  <2>1. "Create" \in FileEdits /\ "Create" \notin ConfigMapEdits BY DEF FileEdits, ConfigMapEdits
  <2> QED BY <2>1
<1> USE DEF File, Directory
<1>4. target \in Nat /\ entry \in Nat BY <1>1 DEF Files
<1>5. entry # 0 => entry \in DOMAIN Paths /\ Paths[entry] = File
  BY <1>1, <1>3 DEF Files, Paths
<1>6. Tag(File) = "file" BY DEF Tag
<1>7. IsLink <=> entry # 0 /\ edits = ConfigMapEdits BY <1>3 DEF IsLink, Files
<1>8. Exists <=> entry # 0 BY <1>3, <1>7 DEF Exists, Files
<1>9. edits = ConfigMapEdits => target \in DOMAIN Paths /\ Paths[target] = target /\ target # File
  BY <1>1 DEF Files, Paths
<1>10. target \in Nat /\ target # File => Tag(target) = "realpath" BY DEF Tag
<1>11. edits # ConfigMapEdits => edits = FileEdits /\ target = File BY DEF Files
<1> QED BY <1>1, <1>2, <1>4, <1>5, <1>6, <1>7, <1>8, <1>9, <1>10, <1>11, Zenon

(* AddFileWatcher and AddRealpathWatcher.                                  *)
LEMMA AddFileWatcherWatches ==
  ASSUME Files, entry # 0, NEW n, Fits(n, Paths, target), Ends(n) \/ entry \notin DOMAIN n.watched
  PROVE  LET m == AddFileWatcher(n)
         IN  Sound(m, Paths, target) /\ entry \in DOMAIN m.watched /\ KeepsOthers(n, m, File)
<1>1. /\ PathMap(Paths) /\ entry \in DOMAIN Paths /\ Paths[entry] = File
      /\ AddFileWatcher(n) = AddWatcher(n, Paths[entry], entry, Tag(Paths[entry]))
  BY FilesFacts, Zenon DEF AddFileWatcher
<1>2. LET m == AddWatcher(n, Paths[entry], entry, Tag(Paths[entry]))
      IN  Sound(m, Paths, target) /\ entry \in DOMAIN m.watched /\ KeepsOthers(n, m, Paths[entry])
  BY <1>1, AddWatcherWatches, Zenon
<1> QED BY <1>1, <1>2, Zenon

(* AddRealpathWatcher: the target of a link is watched afterwards, and an  *)
(* ordinary file changes nothing.                                          *)
LEMMA AddRealpathWatcherWatches ==
  ASSUME Files, NEW n, Sound(n, Paths, target)
  PROVE  LET m == AddRealpathWatcher(n)
         IN  /\ Sound(m, Paths, target) /\ Keeps(n, m)
             /\ IF IsLink THEN target \in DOMAIN m.watched ELSE m = n
<1>1. CASE ~IsLink
  <2>1. AddRealpathWatcher(n) = n BY <1>1, Zenon DEF AddRealpathWatcher
  <2>2. Keeps(n, n) BY Zenon DEF Keeps
  <2> QED BY <1>1, <2>1, <2>2, Zenon
<1>2. CASE IsLink
  <2>1. edits = ConfigMapEdits BY <1>2, FilesFacts, Zenon
  <2>2. PathMap(Paths) /\ target \in DOMAIN Paths /\ Paths[target] = target /\ target # File
        /\ Tag(target) = "realpath"
    BY <2>1, FilesFacts, Zenon
  <2>3. AddRealpathWatcher(n) = AddWatcher(n, Paths[target], target, Tag(Paths[target]))
    BY <1>2, <2>2, Zenon DEF AddRealpathWatcher
  <2>4. Fits(n, Paths, target) /\ Ends(n) BY Zenon DEF Sound
  <2>5. LET m == AddWatcher(n, Paths[target], target, Tag(Paths[target]))
        IN  Sound(m, Paths, target) /\ target \in DOMAIN m.watched /\ Keeps(n, m)
    BY <2>2, <2>4, AddWatcherWatches, Zenon
  <2> QED BY <1>2, <2>3, <2>5, Zenon
<1> QED BY <1>1, <1>2, Zenon

(* What the configuration is owed is still owed when nothing is lost.      *)
LEMMA KeepsAwaited ==
  ASSUME NEW n, NEW m, Keeps(n, m)
  PROVE  /\ \A mask : Known(n, mask) => Known(m, mask)
         /\ Awaited(n) => Awaited(m)
         /\ Sees(n) => Sees(m)
         /\ Dir \in n.watchers => Dir \in m.watchers
         /\ Ordered(n) => Ordered(m)
<1>1. \A mask : Known(n, mask) => Known(m, mask) BY Zenon DEF Known, Keeps
<1>2. Awaited(n) => Awaited(m)
  <2>1. Has(n.queue, CREATE) => Has(m.queue, CREATE) BY Zenon DEF Keeps
  <2>2. old \in DOMAIN n.watched => old \in DOMAIN m.watched BY Zenon DEF Keeps
  <2> QED BY <1>1, <2>1, <2>2, Zenon DEF Awaited
<1>3. Sees(n) => Sees(m) BY <1>2, Zenon DEF Sees, Keeps
<1> QED BY <1>1, <1>2, <1>3, Zenon DEF Keeps, Ordered

-----------------------------------------------------------------------------
(* The steps of the loader.                                                *)
LEMMA StartHolds ==
  ASSUME IInv, StartWatching
  PROVE  Holds(inotify', loader', config')
<1> DEFINE m == inotify'
<1>1. inotify \in InotifySet /\ inotify.queue = <<>> /\ DOMAIN inotify.watched = {} /\ config = Default
  BY DEF IInv, Holds, Started, Sound, Fits, StartWatching
<1>2. Dir \in WatcherSet BY DEF Dir, WatcherSet, Directory
<1>3. m = [inotify EXCEPT !.watchers = {Dir}] BY Zenon DEF StartWatching, Dir
<1>4. /\ m \in InotifySet /\ m.watchers = {Dir} /\ m.watched = inotify.watched
      /\ m.wds = inotify.wds /\ m.queue = inotify.queue /\ inotify.wds \in Nat
  BY <1>1, <1>2, <1>3, Zenon DEF InotifySet
<1> HIDE DEF m
<1>5. \A e : ~Has(m.queue, e) BY <1>1, <1>4 DEF Has
<1>6. Watches(m, Paths) BY <1>1, <1>4 DEF Watches
<1>7. Watchers(m, Paths, target)
  <2>1. Dir.path = Directory /\ Dir.wd = 0 /\ Dir.tag = Tag(Directory) BY DEF Dir, Tag
  <2>2. target # Directory BY FilesFacts DEF IInv, Directory
  <2> QED BY <1>4, <2>1, <2>2 DEF Watchers
<1>8. Events(m) BY <1>5 DEF Events
<1>9. Ends(m)
  <2>1. \A w \in m.watchers : w.path # File BY <1>4 DEF Dir, File, Directory
  <2> QED BY <2>1 DEF Ends
<1>10. Ordered(m) BY <1>5, Zenon DEF Ordered, After, Has
<1>11. loader' = "scan" /\ config' = config BY DEF StartWatching
<1>12. Started(m, loader', config') BY <1>1, <1>4, <1>11 DEF Started
<1>13. FollowsThere(m, loader', config') /\ FollowsGone(m, loader', config')
  BY <1>11 DEF FollowsThere, FollowsGone
<1> QED BY <1>4, <1>6, <1>7, <1>8, <1>9, <1>10, <1>12, <1>13 DEF Holds, Sound, Fits, m

(* The loader's start finds the file, or finds none.                       *)
LEMMA ScanHolds ==
  ASSUME IInv, Scan
  PROVE  Holds(inotify', loader', config')
<1>1. Files /\ Sound(inotify, Paths, target) /\ Ordered(inotify) /\ Dir \in inotify.watchers
      /\ config' = config /\ config = Default
  BY DEF IInv, Holds, Started, Scan
<1>2. CASE Exists
  <2> DEFINE k == AddFileWatcher(inotify)
             m == AddRealpathWatcher(k)
  <2>1. entry # 0 BY <1>1, <1>2, FilesFacts, Zenon
  <2>2. Sound(k, Paths, target) /\ entry \in DOMAIN k.watched /\ KeepsOthers(inotify, k, File)
    BY <1>1, <2>1, AddFileWatcherWatches, Zenon DEF Sound
  <2>3. Sound(m, Paths, target) /\ Keeps(k, m) /\ IF IsLink THEN target \in DOMAIN m.watched ELSE m = k
    BY <1>1, <2>2, AddRealpathWatcherWatches, Zenon
  <2>4. inotify' = m /\ loader' = "load" BY <1>2 DEF Scan
  <2> HIDE DEF k, m
  <2>5. Dir \in k.watchers /\ Ordered(k)
    <3>1. Dir.path # File BY DEF Dir, File, Directory
    <3> QED BY <1>1, <3>1, <2>2, Zenon DEF KeepsOthers, Ordered
  <2>6. Dir \in m.watchers /\ Ordered(m) BY <2>3, <2>5, KeepsAwaited, Zenon
  <2>7. Sees(m) BY <2>2, <2>3 DEF Sees, Real
  <2> QED BY <2>1, <2>3, <2>4, <2>6, <2>7 DEF Holds, Started, FollowsThere
<1>3. CASE ~Exists
  <2>1. entry = 0 BY <1>1, <1>3, FilesFacts, Zenon
  <2>2. inotify' = inotify /\ loader' = "loop" BY <1>3 DEF Scan
  <2> QED BY <1>1, <2>1, <2>2 DEF Holds, Started, FollowsGone
<1> QED BY <1>2, <1>3

(* Loading reads what the file holds now; a change after it has an event   *)
(* of its own.                                                             *)
LEMMA LoadHolds ==
  ASSUME IInv, Load \/ LoadCreated
  PROVE  Holds(inotify', loader', config')
<1>1. Files /\ Holds(inotify, loader, config) BY DEF IInv
<1>2. inotify' = inotify /\ config' = LoadConfiguration BY DEF Load, LoadCreated
<1>3. \/ loader = "load" /\ loader' = "loop"
      \/ loader = "created" /\ loader' = "watch"
  BY DEF Load, LoadCreated
<1>4. Started(inotify', loader', config')
  BY <1>1, <1>2, <1>3 DEF Holds, Started
<1>5. ASSUME entry # 0, ~missed PROVE FollowsThere(inotify', loader', config')
  <2>1. Fresh(config') BY <1>1, <1>2, <1>5, FilesFacts DEF Fresh, LoadConfiguration
  <2>2. FollowsThere(inotify, loader, config) BY <1>1, <1>5 DEF Holds
  <2> QED BY <1>2, <1>3, <2>1, <2>2 DEF FollowsThere
<1>6. ASSUME entry = 0, ~missed PROVE FollowsGone(inotify', loader', config')
  <2>1. config' = config BY <1>1, <1>2, <1>6, FilesFacts DEF LoadConfiguration
  <2> QED BY <1>1, <1>2, <1>3, <1>6, <2>1 DEF Holds, FollowsGone
<1> QED BY <1>1, <1>2, <1>4, <1>5, <1>6 DEF Holds

(* The loader watches the target of the link it has just loaded.           *)
LEMMA WatchCreatedHolds ==
  ASSUME IInv, WatchCreated
  PROVE  Holds(inotify', loader', config')
<1> DEFINE m == AddRealpathWatcher(inotify)
<1>1. Files /\ Holds(inotify, loader, config) /\ Sound(inotify, Paths, target) BY DEF IInv, Holds
<1>2. inotify' = m /\ config' = config /\ loader = "watch" /\ loader' = "loop" BY DEF WatchCreated
<1>3. Sound(m, Paths, target) /\ Keeps(inotify, m) /\ IF IsLink THEN target \in DOMAIN m.watched ELSE m = inotify
  BY <1>1, AddRealpathWatcherWatches, Zenon
<1> HIDE DEF m
<1>4. Started(m, "loop", config) /\ Ordered(m)
  BY <1>1, <1>2, <1>3, KeepsAwaited DEF Holds, Started
<1>5. ASSUME entry # 0, ~missed PROVE FollowsThere(m, "loop", config)
  <2>1. FollowsThere(inotify, "watch", config) BY <1>1, <1>2, <1>5 DEF Holds
  <2>2. Fresh(config) \/ Awaited(m) \/ Known(m, "MODIFY")
    BY <1>3, <2>1, KeepsAwaited DEF FollowsThere
  <2>3. Sees(m)
    <3>1. CASE IsLink BY <1>3, <3>1 DEF Sees, Real
    <3>2. CASE ~IsLink BY <1>3, <2>1, <3>2 DEF FollowsThere
    <3> QED BY <3>1, <3>2
  <2> QED BY <2>2, <2>3 DEF FollowsThere
<1>6. ASSUME entry = 0, ~missed PROVE FollowsGone(m, "loop", config)
  <2>1. m = inotify BY <1>1, <1>3, <1>6, FilesFacts
  <2> QED BY <1>1, <1>2, <1>6, <2>1 DEF Holds, FollowsGone
<1> QED BY <1>2, <1>3, <1>4, <1>5, <1>6 DEF Holds

(* An event is taken: what it does not tell is still there to be told.     *)
LEMMA TakenHolds ==
  ASSUME IInv, loader = "loop", inotify.queue # <<>>
  PROVE  /\ Files /\ Holds(inotify, "loop", config) /\ Dir \in inotify.watchers
         /\ Fits(Taken, Paths, target) /\ Ordered(Taken)
         /\ Taken.watchers = inotify.watchers /\ Taken.watched = inotify.watched
         /\ Event \in EventSet /\ Has(inotify.queue, Event)
         /\ \A w \in inotify.watchers : w.path = File => Event # Ev(w.wd, "IGNORED")
         /\ Ordered(inotify) /\ entry # 0 /\ NoMoves /\ Event = DELETE => Has(Taken.queue, CREATE)
         /\ (\A w \in inotify.watchers : w.path = File => Event # Ev(w.wd, "DELETE_SELF"))
              => Sound(Taken, Paths, target)
         /\ \A d : Has(inotify.queue, d) /\ d # Event => Has(Taken.queue, d)
         /\ \A mask : Known(inotify, mask) /\ (Event.mask # mask \/ FindWatcher(Event.wd) = {})
              => Known(Taken, mask)
<1>1. Files /\ Holds(inotify, "loop", config) /\ Sound(inotify, Paths, target) /\ Dir \in inotify.watchers
  BY DEF IInv, Holds, Started
<1>2. Taken = TakenOf(inotify) /\ Event = Head(inotify.queue) BY DEF Taken, TakenOf, Event
<1>3. /\ Fits(Taken, Paths, target) /\ Taken.watchers = inotify.watchers /\ Taken.watched = inotify.watched
      /\ Event \in EventSet /\ Has(inotify.queue, Event)
      /\ \A w \in inotify.watchers : w.path = File => Event # Ev(w.wd, "IGNORED")
      /\ \A d : Has(inotify.queue, d) /\ d # Event => Has(Taken.queue, d)
      /\ After(inotify.queue, DELETE, CREATE) => After(Taken.queue, DELETE, CREATE)
      /\ After(inotify.queue, DELETE, CREATE) /\ Event = DELETE => Has(Taken.queue, CREATE)
      /\ (\A w \in inotify.watchers : w.path = File => Event # Ev(w.wd, "DELETE_SELF")) => Ends(Taken)
  BY <1>1, <1>2, TakenFits, Zenon
<1>4. ASSUME NEW mask, Known(inotify, mask), Event.mask # mask \/ FindWatcher(Event.wd) = {}
      PROVE  Known(Taken, mask)
  <2>1. PICK w \in inotify.watchers : w.wd # 0 /\ Has(inotify.queue, Ev(w.wd, mask))
    BY <1>4, Zenon DEF Known
  <2>2. Ev(w.wd, mask).wd = w.wd /\ Ev(w.wd, mask).mask = mask BY DEF Ev
  <2>3. Ev(w.wd, mask) # Event BY <1>4, <2>2 DEF FindWatcher
  <2> QED BY <1>3, <2>1, <2>3, Zenon DEF Known
<1>5. Ordered(inotify) /\ Ordered(Taken) BY <1>1, <1>3, Zenon DEF Holds, Ordered
<1> QED BY <1>1, <1>3, <1>4, <1>5, Zenon DEF Sound, Ordered

(* An event that is no news of a name or of the end of an inode.           *)
LEMMA TakenAwaited ==
  ASSUME IInv, loader = "loop", inotify.queue # <<>>, Event.wd # 0,
         Event.mask \in {"MODIFY", "IGNORED"} \/ FindWatcher(Event.wd) = {}
  PROVE  /\ Awaited(inotify) => Awaited(Taken)
         /\ Sees(inotify) => Sees(Taken)
         /\ FollowsGone(inotify, "loop", config) =>
              FollowsGone(Taken, "loop", config) /\ FollowsGone(Taken, "load", config)
<1>1. Event # CREATE /\ Event # DELETE BY DEF CREATE, DELETE, Ev
<1>2. Taken.watched = inotify.watched BY TakenHolds, Zenon
<1>3. \A d : Has(inotify.queue, d) /\ d # Event => Has(Taken.queue, d) BY TakenHolds, Zenon
<1>4. \A mask : Known(inotify, mask) /\ (Event.mask # mask \/ FindWatcher(Event.wd) = {})
         => Known(Taken, mask)
  BY TakenHolds, Zenon
<1>5. /\ Known(inotify, "MOVE_SELF") => Known(Taken, "MOVE_SELF")
      /\ Known(inotify, "DELETE_SELF") => Known(Taken, "DELETE_SELF")
  BY <1>4
<1>6. Awaited(inotify) => Awaited(Taken) BY <1>1, <1>2, <1>3, <1>5, Zenon DEF Awaited
<1>7. Sees(inotify) => Sees(Taken) BY <1>2, <1>6, Zenon DEF Sees
<1>8. FollowsGone(inotify, "loop", config) =>
              FollowsGone(Taken, "loop", config) /\ FollowsGone(Taken, "load", config)
  BY <1>1, <1>3, <1>5 DEF FollowsGone
<1> QED BY <1>6, <1>7, <1>8

(* HandleEvent: the event's watcher.                                       *)
LEMMA EventWatcher ==
  ASSUME IInv, NEW tag \in {"directory", "file", "realpath"}, HandleEvent(tag)
  PROVE  \E w \in inotify.watchers :
           /\ w.wd = Event.wd /\ w.tag = tag /\ FindWatcher(Event.wd) = {w}
           /\ tag = "directory" => w.path = Directory /\ w.wd = 0
           /\ tag = "file" => w.path = File /\ w.wd # 0
           /\ tag = "realpath" => w.path \notin {Directory, File} /\ w.wd # 0 /\ edits = ConfigMapEdits
<1>1. PICK w \in FindWatcher(Event.wd) : w.tag = tag BY DEF HandleEvent
<1>2. w \in inotify.watchers /\ w.wd = Event.wd BY DEF FindWatcher
<1>3. Sound(inotify, Paths, target) BY DEF IInv, Holds
<1>4. FindWatcher(Event.wd) = {w} BY <1>2, <1>3 DEF FindWatcher, Sound, Fits, Watchers
<1>5. w.tag = Tag(w.path) /\ (w.wd = 0 <=> w.path = Directory)
      /\ (w.path \notin {Directory, File} => w.path \in DOMAIN Paths /\ Paths[w.path] = w.path)
  BY <1>2, <1>3 DEF Sound, Fits, Watchers
<1>6. /\ tag = "directory" => w.path = Directory
      /\ tag = "file" => w.path = File
      /\ tag = "realpath" => w.path \notin {Directory, File}
  BY <1>1, <1>5 DEF Tag
<1>7. w.path \notin {Directory, File} => edits = ConfigMapEdits
  BY <1>5 DEF Paths, File
<1>8. Directory # File BY DEF Directory, File
<1> QED BY <1>1, <1>2, <1>4, <1>5, <1>6, <1>7, <1>8

(* An event whose watcher is gone is dropped: none that matters is.        *)
LEMMA IgnoreHolds ==
  ASSUME IInv, IgnoreEvent
  PROVE  Holds(inotify', loader', config')
<1>1. /\ loader = "loop" /\ inotify.queue # <<>> /\ FindWatcher(Event.wd) = {}
      /\ inotify' = Taken /\ loader' = loader /\ config' = config
  BY DEF IgnoreEvent, HandleEvent
<1>2. Dir \in inotify.watchers /\ Holds(inotify, "loop", config) BY <1>1, TakenHolds, Zenon
<1>3. \A w \in inotify.watchers : w.wd # Event.wd BY <1>1 DEF FindWatcher
<1>4. Event.wd # 0 BY <1>2, <1>3 DEF Dir
<1>5. \A w \in inotify.watchers : Event # Ev(w.wd, "DELETE_SELF") BY <1>3 DEF Ev
<1>6. Sound(Taken, Paths, target) /\ Ordered(Taken) /\ Taken.watchers = inotify.watchers
  BY <1>1, <1>5, TakenHolds, Zenon
<1>7. Started(Taken, "loop", config) BY <1>2, <1>6 DEF Started
<1>8. ASSUME entry # 0, ~missed PROVE FollowsThere(Taken, "loop", config)
  <2>1. FollowsThere(inotify, "loop", config) BY <1>2, <1>8 DEF Holds
  <2>2. /\ Awaited(inotify) => Awaited(Taken)
        /\ Sees(inotify) => Sees(Taken)
    BY <1>1, <1>4, TakenAwaited, Zenon
  <2>3. Known(inotify, "MODIFY") => Known(Taken, "MODIFY") BY <1>1, TakenHolds, Zenon
  <2> QED BY <2>1, <2>2, <2>3 DEF FollowsThere
<1>9. ASSUME entry = 0, ~missed PROVE FollowsGone(Taken, "loop", config)
  BY <1>1, <1>2, <1>4, <1>9, TakenAwaited, Zenon DEF Holds
<1> QED BY <1>1, <1>6, <1>7, <1>8, <1>9 DEF Holds

(* An event of the directory: CREATE watches and loads, DELETE resets.     *)
LEMMA DirectoryEventHolds ==
  ASSUME IInv, HandleConfigDirectoryEvent
  PROVE  Holds(inotify', loader', config')
<1>1. loader = "loop" /\ inotify.queue # <<>> /\ HandleEvent("directory")
  BY DEF HandleConfigDirectoryEvent, HandleEvent
<1>2. Event.wd = 0 BY <1>1, EventWatcher
<1>3. /\ Files /\ Holds(inotify, "loop", config) /\ Dir \in inotify.watchers
      /\ Fits(Taken, Paths, target) /\ Ordered(Taken) /\ Taken.watchers = inotify.watchers
      /\ Event \in EventSet /\ Has(inotify.queue, Event)
      /\ \A d : Has(inotify.queue, d) /\ d # Event => Has(Taken.queue, d)
  BY <1>1, TakenHolds, Zenon
<1>4. Sound(inotify, Paths, target) BY <1>3 DEF Holds
<1>5. \A w \in inotify.watchers : w.path = File => Event # Ev(w.wd, "DELETE_SELF")
  <2>1. \A w \in inotify.watchers : w.path = File => w.wd # 0
    BY <1>4 DEF Sound, Fits, Watchers, File, Directory
  <2> QED BY <1>2, <2>1 DEF Ev
<1>6. Sound(Taken, Paths, target) /\ Ends(Taken) BY <1>1, <1>5, TakenHolds, Zenon DEF Sound
<1>7. Event.mask \in {"CREATE", "DELETE", "DELETE_SELF"} BY <1>2, <1>3, <1>4 DEF Sound, Fits, Events
<1>8. Dir.path # File BY DEF Dir, File, Directory
<1>9. CASE Event.mask = "DELETE_SELF"
  <2>1. loader' = "stopped" /\ inotify' = Taken /\ config' = config
    BY <1>9 DEF HandleConfigDirectoryEvent
  <2> QED BY <1>3, <1>6, <2>1 DEF Holds, Started, FollowsThere, FollowsGone
<1>10. CASE Event.mask = "CREATE"
  <2> DEFINE m == AddFileWatcher(Taken)
  <2>1. loader' = "created" /\ inotify' = m /\ config' = config
    BY <1>10 DEF HandleConfigDirectoryEvent
  <2>2. CASE entry # 0
    <3>1. Sound(m, Paths, target) /\ entry \in DOMAIN m.watched /\ KeepsOthers(Taken, m, File)
      BY <1>3, <1>6, <2>2, AddFileWatcherWatches, Zenon
    <3> HIDE DEF m
    <3>2. Dir \in m.watchers /\ Ordered(m) BY <1>3, <1>8, <3>1, Zenon DEF KeepsOthers, Ordered
    <3>3. ~IsLink => Sees(m) BY <3>1 DEF Sees, Real
    <3> QED BY <2>1, <2>2, <3>1, <3>2, <3>3 DEF Holds, Started, FollowsThere
  <2>3. CASE entry = 0
    <3>1. m = Taken BY <2>3, Zenon DEF AddFileWatcher, AddWatcher
    <3> HIDE DEF m
    <3>2. Known(inotify, "MOVE_SELF") => Known(Taken, "MOVE_SELF")
      <4>1. Event.mask # "MOVE_SELF" BY <1>10
      <4> QED BY <1>1, <4>1, TakenHolds, Zenon
    <3>3. Has(inotify.queue, DELETE) => Has(Taken.queue, DELETE) BY <1>3, <1>10 DEF DELETE, Ev
    <3>4. ~missed => FollowsGone(inotify, "loop", config) BY <1>3, <2>3 DEF Holds
    <3>5. ~missed => FollowsGone(Taken, "created", config) BY <3>2, <3>3, <3>4 DEF FollowsGone
    <3> QED BY <1>3, <1>6, <2>1, <2>3, <3>1, <3>5 DEF Holds, Started
  <2> QED BY <2>2, <2>3
<1>11. CASE Event.mask = "DELETE"
  <2> DEFINE ws == {w \in Taken.watchers : w.path = File}
             m == RemoveWatcher(Taken, ws)
  <2>1. loader' = "loop" /\ inotify' = m /\ config' = Default
    BY <1>1, <1>11 DEF HandleConfigDirectoryEvent
  <2>2. Sound(m, Paths, target) /\ KeepsOthers(Taken, m, File)
    <3>1. CASE ws = {}
      <4>1. m = Taken BY <3>1, Zenon DEF RemoveWatcher
      <4> QED BY <1>6, <4>1, Zenon DEF KeepsOthers
    <3>2. CASE ws # {}
      <4>1. PICK w \in ws : TRUE BY <3>2
      <4>2. ws = {w} BY <1>3, <4>1 DEF Fits, Watchers
      <4>3. w \in Taken.watchers /\ w.path = File /\ w.path # Directory BY <4>1 DEF File, Directory
      <4>4. PathMap(Paths) BY <1>3, FilesFacts, Zenon
      <4> QED BY <1>3, <4>2, <4>3, <4>4, RemoveWatcherRemoves, Zenon
    <3> QED BY <3>1, <3>2
  <2> HIDE DEF m, ws
  <2>3. Dir \in m.watchers /\ Ordered(m) BY <1>3, <1>8, <2>2, Zenon DEF KeepsOthers, Ordered
  <2>4. Event = DELETE BY <1>2, <1>3, <1>11 DEF DELETE, Ev, EventSet
  <2>5. ASSUME entry # 0, ~missed PROVE Awaited(m)
    <3>1. Ordered(inotify) BY <1>3 DEF Holds
    <3>2. Has(Taken.queue, CREATE) BY <1>1, <2>4, <2>5, <3>1, TakenHolds, Zenon DEF NoMoves
    <3>3. Has(m.queue, CREATE) BY <2>2, <3>2, Zenon DEF KeepsOthers
    <3> QED BY <3>3, Zenon DEF Awaited
  <2>6. entry # 0 /\ ~missed => FollowsThere(m, "loop", Default) BY <2>5 DEF FollowsThere, Sees
  <2>7. FollowsGone(m, "loop", Default) BY DEF FollowsGone
  <2>8. Started(m, "loop", Default) BY <2>3 DEF Started
  <2> QED BY <2>1, <2>2, <2>3, <2>6, <2>7, <2>8, Zenon DEF Holds
<1> QED BY <1>7, <1>9, <1>10, <1>11

(* An event of the file: a write is loaded, and a file that goes or moves  *)
(* is no longer watched.                                                   *)
LEMMA FileEventHolds ==
  ASSUME IInv, HandleConfigFileEvent
  PROVE  Holds(inotify', loader', config')
<1>1. loader = "loop" /\ inotify.queue # <<>> /\ HandleEvent("file")
  BY DEF HandleConfigFileEvent, HandleEvent
<1>2. PICK w \in inotify.watchers : w.wd = Event.wd /\ w.path = File /\ w.wd # 0 /\ FindWatcher(Event.wd) = {w}
  BY <1>1, EventWatcher
<1>3. /\ Files /\ Holds(inotify, "loop", config) /\ Dir \in inotify.watchers
      /\ Fits(Taken, Paths, target) /\ Ordered(Taken) /\ Taken.watchers = inotify.watchers
      /\ Taken.watched = inotify.watched
      /\ Event \in EventSet /\ Has(inotify.queue, Event) /\ Event # Ev(w.wd, "IGNORED")
  BY <1>1, <1>2, TakenHolds, Zenon
<1>4. Sound(inotify, Paths, target) /\ PathMap(Paths) BY <1>3, FilesFacts DEF Holds
<1>5. Event.mask \in {"MODIFY", "MOVE_SELF", "DELETE_SELF", "IGNORED"}
  BY <1>2, <1>3, <1>4 DEF Sound, Fits, Events
<1>6. Event.mask # "IGNORED" BY <1>2, <1>3 DEF Ev, EventSet
<1>7. Event.mask # "DELETE_SELF" => Sound(Taken, Paths, target)
  <2>1. ASSUME Event.mask # "DELETE_SELF", NEW v \in inotify.watchers
        PROVE  Event # Ev(v.wd, "DELETE_SELF")
    BY <2>1 DEF Ev
  <2> QED BY <1>1, <2>1, TakenHolds, Zenon
<1>8. Dir.path # File BY DEF Dir, File, Directory
<1>9. CASE Event.mask = "MODIFY"
  <2> DEFINE m == AddRealpathWatcher(Taken)
  <2>1. loader' = "load" /\ inotify' = m /\ config' = config
    BY <1>9 DEF HandleConfigFileEvent
  <2>2. Sound(m, Paths, target) /\ Keeps(Taken, m) /\ IF IsLink THEN target \in DOMAIN m.watched ELSE m = Taken
    <3>1. Sound(Taken, Paths, target) BY <1>7, <1>9
    <3> QED BY <1>3, <3>1, AddRealpathWatcherWatches, Zenon
  <2> HIDE DEF m
  <2>3. Dir \in m.watchers /\ Ordered(m) BY <1>3, <2>2, KeepsAwaited, Zenon
  <2>4. /\ Sees(inotify) => Sees(Taken)
        /\ FollowsGone(inotify, "loop", config) => FollowsGone(Taken, "load", config)
    <3>1. Event.wd # 0 /\ Event.mask \in {"MODIFY", "IGNORED"} BY <1>2, <1>9
    <3> QED BY <1>1, <3>1, TakenAwaited, Zenon
  <2>5. ASSUME entry # 0, ~missed PROVE Sees(m)
    <3>1. Sees(inotify) BY <1>3, <2>5 DEF Holds, FollowsThere
    <3> QED BY <2>2, <2>4, <3>1, KeepsAwaited, Zenon
  <2>6. ASSUME entry = 0, ~missed PROVE FollowsGone(m, "load", config)
    <3>1. m = Taken BY <1>3, <2>2, <2>6, FilesFacts
    <3> QED BY <1>3, <2>4, <2>6, <3>1 DEF Holds
  <2> QED BY <2>1, <2>2, <2>3, <2>5, <2>6 DEF Holds, Started, FollowsThere
<1>10. CASE Event.mask \in {"MOVE_SELF", "DELETE_SELF"} /\ Exists
  <2> DEFINE k == AddFileWatcher(Taken)
             m == AddRealpathWatcher(k)
  <2>1. loader' = "load" /\ inotify' = m /\ config' = config
    BY <1>10 DEF HandleConfigFileEvent
  <2>2. entry # 0 BY <1>3, <1>10, FilesFacts, Zenon
  <2>3. Ends(Taken) \/ entry \notin DOMAIN Taken.watched
    <3>1. CASE Event.mask # "DELETE_SELF" BY <1>7, <3>1 DEF Sound
    <3>2. CASE Event.mask = "DELETE_SELF"
      <4>1. \A i \in DOMAIN inotify.watched : inotify.watched[i] # w.wd
        BY <1>2, <1>3, <1>4, <3>2 DEF Sound, Fits, Events
      <4>2. Paths[entry] = File BY <1>3, <2>2, FilesFacts, Zenon
      <4>3. ASSUME entry \in DOMAIN inotify.watched PROVE FALSE
        <5>1. PICK v \in inotify.watchers : v.path = Paths[entry] /\ v.wd = inotify.watched[entry]
          BY <1>4, <4>3 DEF Sound, Fits, Watches
        <5>2. v = w BY <1>2, <1>4, <4>2, <5>1 DEF Sound, Fits, Watchers
        <5> QED BY <4>1, <4>3, <5>1, <5>2
      <4> QED BY <1>3, <4>3
    <3> QED BY <3>1, <3>2
  <2>4. Sound(k, Paths, target) /\ entry \in DOMAIN k.watched /\ KeepsOthers(Taken, k, File)
    BY <1>3, <2>2, <2>3, AddFileWatcherWatches, Zenon
  <2>5. Sound(m, Paths, target) /\ Keeps(k, m) /\ IF IsLink THEN target \in DOMAIN m.watched ELSE m = k
    BY <1>3, <2>4, AddRealpathWatcherWatches, Zenon
  <2> HIDE DEF k, m
  <2>6. Dir \in k.watchers /\ Ordered(k) BY <1>3, <1>8, <2>4, Zenon DEF KeepsOthers, Ordered
  <2>7. Dir \in m.watchers /\ Ordered(m) BY <2>5, <2>6, KeepsAwaited, Zenon
  <2>8. Sees(m) BY <2>4, <2>5 DEF Sees, Real
  <2> QED BY <2>1, <2>2, <2>5, <2>7, <2>8 DEF Holds, Started, FollowsThere
<1>11. CASE Event.mask \in {"MOVE_SELF", "DELETE_SELF"} /\ ~Exists
  <2> DEFINE m == RemoveWatcher(Taken, {w})
  <2>1. loader' = "loop" /\ inotify' = m /\ config' = Default
    <3>1. loader' = "loop" /\ inotify' = RemoveWatcher(Taken, FindWatcher(Event.wd)) /\ config' = Default
      BY <1>1, <1>11, Zenon DEF HandleConfigFileEvent
    <3> QED BY <1>2, <3>1, Zenon
  <2>2. entry = 0 BY <1>3, <1>11, FilesFacts, Zenon
  <2>3. w.path # Directory /\ w \in Taken.watchers BY <1>2, <1>3 DEF File, Directory
  <2>4. Sound(m, Paths, target) /\ KeepsOthers(Taken, m, File)
    BY <1>2, <1>3, <1>4, <2>3, RemoveWatcherRemoves, Zenon
  <2> HIDE DEF m
  <2>5. Dir \in m.watchers BY <1>3, <1>8, <2>4, Zenon DEF KeepsOthers
  <2> QED BY <2>1, <2>2, <2>4, <2>5 DEF Holds, Started, Ordered, FollowsGone
<1> QED BY <1>5, <1>6, <1>9, <1>10, <1>11

(* An event of the link's target: it is loaded again, or, when the file is *)
(* no link any more, its watcher goes.                                     *)
LEMMA RealpathEventHolds ==
  ASSUME IInv, HandleConfigRealpathEvent
  PROVE  Holds(inotify', loader', config')
<1>1. loader = "loop" /\ inotify.queue # <<>> /\ HandleEvent("realpath")
  BY DEF HandleConfigRealpathEvent, HandleEvent
<1>2. PICK w \in inotify.watchers :
        /\ w.wd = Event.wd /\ w.path \notin {Directory, File} /\ w.wd # 0
        /\ FindWatcher(Event.wd) = {w} /\ edits = ConfigMapEdits
  BY <1>1, EventWatcher
<1>3. /\ Files /\ Holds(inotify, "loop", config) /\ Dir \in inotify.watchers
      /\ Fits(Taken, Paths, target) /\ Ordered(Taken) /\ Taken.watchers = inotify.watchers
      /\ Event \in EventSet /\ Has(inotify.queue, Event)
  BY <1>1, TakenHolds, Zenon
<1>4. Sound(inotify, Paths, target) /\ PathMap(Paths) BY <1>3, FilesFacts DEF Holds
<1>5. Event.mask \in {"MODIFY", "MOVE_SELF", "DELETE_SELF", "IGNORED"}
  BY <1>2, <1>3, <1>4 DEF Sound, Fits, Events
<1>6. Sound(Taken, Paths, target) /\ Ends(Taken)
  <2>1. \A v \in inotify.watchers : v.path = File => v.wd # w.wd
    BY <1>2, <1>4 DEF Sound, Fits, Watchers
  <2>2. \A v \in inotify.watchers : v.path = File => Event # Ev(v.wd, "DELETE_SELF")
    BY <1>2, <2>1 DEF Ev
  <2> QED BY <1>1, <2>2, TakenHolds, Zenon DEF Sound
<1>7. ASSUME Event.mask \in {"MODIFY", "IGNORED"}
      PROVE  /\ Awaited(inotify) => Awaited(Taken)
             /\ Sees(inotify) => Sees(Taken)
             /\ FollowsGone(inotify, "loop", config) =>
                  FollowsGone(Taken, "loop", config) /\ FollowsGone(Taken, "load", config)
  <2>1. Event.wd # 0 BY <1>2
  <2> QED BY <1>1, <1>7, <2>1, TakenAwaited, Zenon
<1>8. CASE Event.mask = "MODIFY"
  <2>1. loader' = "load" /\ inotify' = Taken /\ config' = config
    BY <1>8 DEF HandleConfigRealpathEvent
  <2>2. entry # 0 /\ ~missed => FollowsThere(Taken, "load", config)
    BY <1>3, <1>7, <1>8 DEF Holds, FollowsThere
  <2>3. entry = 0 /\ ~missed => FollowsGone(Taken, "load", config) BY <1>3, <1>7, <1>8 DEF Holds
  <2> QED BY <1>3, <1>6, <2>1, <2>2, <2>3 DEF Holds, Started
<1>9. CASE Event.mask \in {"MOVE_SELF", "DELETE_SELF"} /\ IsLink
  <2> DEFINE m == AddRealpathWatcher(Taken)
  <2>1. loader' = "load" /\ inotify' = m /\ config' = config
    BY <1>9 DEF HandleConfigRealpathEvent
  <2>2. Sound(m, Paths, target) /\ Keeps(Taken, m) /\ target \in DOMAIN m.watched
    BY <1>3, <1>6, <1>9, AddRealpathWatcherWatches, Zenon
  <2> HIDE DEF m
  <2>3. Dir \in m.watchers /\ Ordered(m) BY <1>3, <2>2, KeepsAwaited, Zenon
  <2>4. Sees(m) BY <1>9, <2>2 DEF Sees, Real
  <2>5. entry # 0 BY <1>9 DEF IsLink
  <2> QED BY <2>1, <2>2, <2>3, <2>4, <2>5 DEF Holds, Started, FollowsThere
<1>10. CASE Event.mask \in {"MOVE_SELF", "DELETE_SELF"} /\ ~IsLink
  <2> DEFINE m == RemoveWatcher(Taken, {w})
  <2>1. loader' = "loop" /\ inotify' = m /\ config' = Default
    <3>1. loader' = "loop" /\ inotify' = RemoveWatcher(Taken, FindWatcher(Event.wd)) /\ config' = Default
      BY <1>1, <1>10 DEF HandleConfigRealpathEvent
    <3> QED BY <1>2, <3>1, Zenon
  <2>2. entry = 0 BY <1>2, <1>3, <1>10, FilesFacts, Zenon
  <2>3. w.path # Directory /\ w \in Taken.watchers BY <1>2, <1>3
  <2>4. Sound(m, Paths, target) /\ KeepsOthers(Taken, m, w.path)
    BY <1>3, <1>4, <1>6, <2>3, RemoveWatcherRemoves, Zenon
  <2> HIDE DEF m
  <2>5. Dir \in m.watchers
    <3>1. Dir.path # w.path BY <1>2 DEF Dir
    <3> QED BY <1>3, <2>4, <3>1, Zenon DEF KeepsOthers
  <2> QED BY <2>1, <2>2, <2>4, <2>5 DEF Holds, Started, Ordered, FollowsGone
<1>11. CASE Event.mask = "IGNORED"
  <2>1. loader' = "loop" /\ inotify' = Taken /\ config' = config
    BY <1>1, <1>11 DEF HandleConfigRealpathEvent
  <2>2. Known(inotify, "MODIFY") => Known(Taken, "MODIFY")
    <3>1. Event.mask # "MODIFY" BY <1>11
    <3> QED BY <1>1, <3>1, TakenHolds, Zenon
  <2>3. entry # 0 /\ ~missed => FollowsThere(Taken, "loop", config)
    BY <1>3, <1>7, <1>11, <2>2 DEF Holds, FollowsThere
  <2>4. entry = 0 /\ ~missed => FollowsGone(Taken, "loop", config) BY <1>3, <1>7, <1>11 DEF Holds
  <2> QED BY <1>3, <1>6, <2>1, <2>3, <2>4 DEF Holds, Started
<1> QED BY <1>5, <1>8, <1>9, <1>10, <1>11

(* The loader leaves the file system alone.                                *)
LEMMA WatchFileKeeps ==
  ASSUME IInv, WatchFile
  PROVE  IInv'
<1>1. Holds(inotify', loader', config')
  BY StartHolds, ScanHolds, LoadHolds, WatchCreatedHolds, IgnoreHolds, DirectoryEventHolds,
     FileEventHolds, RealpathEventHolds, Zenon DEF WatchFile
<1>2. /\ edits' = edits /\ edited' = edited /\ inodes' = inodes
      /\ entry' = entry /\ target' = target /\ old' = old /\ missed' = missed
  <2>1. UNCHANGED fs
    BY Zenon DEF WatchFile, StartWatching, Scan, Load, LoadCreated, WatchCreated, IgnoreEvent,
                 HandleConfigDirectoryEvent, HandleConfigFileEvent, HandleConfigRealpathEvent, HandleEvent
  <2> QED BY <2>1 DEF fs
<1>3. Files' BY <1>2 DEF IInv, Files
<1>4. Paths' = Paths BY <1>2 DEF Paths
<1>5. IsLink' = IsLink /\ Real' = Real /\ Text(Real)' = Text(Real)
  BY <1>2 DEF IsLink, Real, Text
<1>6. Sound(inotify, Paths, target)' BY <1>1, <1>2, <1>4 DEF Holds
<1>7. Started(inotify, loader, config)' /\ Ordered(inotify)'
  BY <1>1, <1>2 DEF Holds, Started, Ordered, NoMoves
<1>8. (entry # 0 /\ ~missed => FollowsThere(inotify, loader, config))'
  BY <1>1, <1>2, <1>5 DEF Holds, FollowsThere, Sees, Awaited, Fresh
<1>9. (entry = 0 /\ ~missed => FollowsGone(inotify, loader, config))'
  BY <1>1, <1>2 DEF Holds, FollowsGone
<1> QED BY <1>3, <1>6, <1>7, <1>8, <1>9 DEF IInv, Holds

-----------------------------------------------------------------------------
(* The changes of the file system.                                         *)
LEMMA NewInode ==
  ASSUME IInv, NEW kind \in {"file", "link"}, NEW v \in Valid \cup {Invalid}, New(kind, v),
         edits' = edits
  PROVE  /\ Files /\ Holds(inotify, loader, config) /\ Sound(inotify, Paths, target)
         /\ inodes' \in Seq(InodeSet) /\ Len(inodes') = Len(inodes) + 1 /\ Len(inodes) \in Nat
         /\ \A i \in 1..Len(inodes) : inodes'[i] = inodes[i]
         /\ inodes'[Len(inodes) + 1].kind = kind
         /\ Sound(inotify, Paths', target)
         /\ Len(inodes) + 1 \notin DOMAIN Paths /\ DOMAIN Paths = 1..Len(inodes)
         /\ DOMAIN Paths \subseteq DOMAIN Paths' /\ \A i \in DOMAIN Paths : Paths'[i] = Paths[i]
<1>1. Files /\ Holds(inotify, loader, config) /\ Sound(inotify, Paths, target) BY DEF IInv, Holds
<1>2. inodes \in Seq(InodeSet) /\ Len(inodes) \in Nat BY <1>1 DEF Files
<1>3. inodes' = Append(inodes, [kind |-> kind, text |-> v]) /\ [kind |-> kind, text |-> v] \in InodeSet
  BY DEF New, InodeSet
<1>4. /\ inodes' \in Seq(InodeSet) /\ Len(inodes') = Len(inodes) + 1
      /\ \A i \in 1..Len(inodes) : inodes'[i] = inodes[i]
      /\ inodes'[Len(inodes) + 1] = [kind |-> kind, text |-> v]
  BY <1>2, <1>3
<1>5. DOMAIN Paths = 1..Len(inodes) /\ DOMAIN Paths' = 1..(Len(inodes) + 1)
  BY <1>4 DEF Paths
<1>6. \A i \in 1..Len(inodes) : Paths'[i] = Paths[i] BY <1>2, <1>4 DEF Paths
<1>7. /\ Len(inodes) + 1 \notin DOMAIN Paths
      /\ DOMAIN Paths \subseteq DOMAIN Paths' /\ \A i \in DOMAIN Paths : Paths'[i] = Paths[i]
  BY <1>2, <1>5, <1>6
<1>8. Sound(inotify, Paths', target) BY <1>1, <1>7, MorePaths, Zenon
<1> QED BY <1>1, <1>2, <1>4, <1>5, <1>7, <1>8

(* A name that was not there: the directory tells of it when it is watched *)
(* already.                                                                *)
LEMMA CreateKeeps ==
  ASSUME IInv, Create \/ Link
  PROVE  IInv'
<1> DEFINE m == WithDir(inotify, "CREATE")
<1>1. PICK kind \in {"file", "link"} :
        /\ New(kind, Invalid)
        /\ kind = "file" => "Create" \in edits
        /\ kind = "link" => "Link" \in edits
  <2>1. CASE Create BY <2>1 DEF Create, Edit
  <2>2. CASE Link BY <2>2 DEF Link, Edit
  <2> QED BY <2>1, <2>2
<1>2. /\ edits' = edits /\ target' = target /\ old' = old /\ loader' = loader /\ config' = config
      /\ entry' = Len(inodes') /\ inotify' = m
  BY DEF Create, Link
<1>3. /\ Files /\ Holds(inotify, loader, config) /\ Sound(inotify, Paths, target)
      /\ inodes' \in Seq(InodeSet) /\ Len(inodes') = Len(inodes) + 1 /\ Len(inodes) \in Nat
      /\ \A i \in 1..Len(inodes) : inodes'[i] = inodes[i]
      /\ inodes'[Len(inodes) + 1].kind = kind
      /\ Sound(inotify, Paths', target)
  <2>1. Invalid \in Valid \cup {Invalid} OBVIOUS
  <2> QED BY <1>1, <1>2, <2>1, NewInode, Zenon
<1>4. kind = "file" <=> edits = FileEdits BY <1>1, <1>3 DEF Files, FileEdits, ConfigMapEdits
<1>5. Files'
  <2>1. entry' \in 0..Len(inodes') /\ target' \in 0..Len(inodes') /\ old' \in 0..Len(inodes') /\ entry' # 0
    BY <1>2, <1>3 DEF Files
  <2>2. edits = FileEdits => target' = 0 /\ old' = 0 /\ inodes'[entry'].kind = "file"
    BY <1>2, <1>3, <1>4 DEF Files
  <2>3. edits = ConfigMapEdits => inodes'[entry'].kind = "link"
    <3>1. FileEdits # ConfigMapEdits
      <4>1. "Create" \in FileEdits /\ "Create" \notin ConfigMapEdits BY DEF FileEdits, ConfigMapEdits
      <4> QED BY <4>1
    <3> QED BY <1>2, <1>3, <1>4, <3>1
  <2>4. edits = ConfigMapEdits =>
       /\ target' # 0 /\ old' # target' /\ inodes'[target'].kind = "file"
       /\ old' # 0 => inodes'[old'].kind = "file"
    BY <1>2, <1>3 DEF Files
  <2>5. edits' \in {FileEdits, ConfigMapEdits} BY <1>2, <1>3 DEF Files
  <2> QED BY <1>2, <1>3, <2>1, <2>2, <2>3, <2>4, <2>5 DEF Files
<1>6. /\ Sound(m, Paths', target) /\ m.watchers = inotify.watchers /\ m.watched = inotify.watched
      /\ IF \E w \in inotify.watchers : w.path = Directory
         THEN Has(m.queue, CREATE) /\ After(m.queue, DELETE, CREATE)
         ELSE m = inotify
  BY <1>3, WithDirTells, Zenon DEF CREATE
<1> HIDE DEF m
<1>7. IF loader = "start" THEN m = inotify /\ inotify.queue = <<>> /\ inotify.watchers = {}
      ELSE Has(m.queue, CREATE) /\ After(m.queue, DELETE, CREATE)
  <2>1. Dir.path = Directory BY DEF Dir
  <2> QED BY <1>3, <1>6, <2>1 DEF Holds, Started
<1>8. entry' # 0 BY <1>2, <1>3
<1>9. Started(m, loader, config) BY <1>3, <1>6, <1>7 DEF Holds, Started
<1>10. After(m.queue, DELETE, CREATE)
  <2>1. CASE loader = "start" BY <1>7, <2>1 DEF After
  <2> QED BY <1>7, <2>1
<1>11. FollowsThere(inotify, loader, config)'
  BY <1>2, <1>7 DEF FollowsThere, Sees, Awaited
<1>12. Started(inotify, loader, config)' /\ Ordered(inotify)'
  BY <1>2, <1>9, <1>10 DEF Started, Ordered
<1>13. Sound(inotify, Paths, target)' BY <1>2, <1>6
<1> QED BY <1>5, <1>8, <1>11, <1>12, <1>13 DEF IInv, Holds

(* A file is written: the watch of it tells.                               *)
LEMMA WriteKeeps ==
  ASSUME IInv, NEW v \in Valid, Write(v)
  PROVE  IInv'
<1> DEFINE m == WithFile(inotify, Real, "MODIFY")
<1>1. Files /\ Holds(inotify, loader, config) /\ Sound(inotify, Paths, target) BY DEF IInv, Holds
<1>2. /\ edits' = edits /\ entry' = entry /\ target' = target /\ old' = old /\ loader' = loader
      /\ config' = config /\ inotify' = m /\ inodes' = [inodes EXCEPT ![Real].text = v]
      /\ Exists
  BY DEF Write
<1>3. entry # 0 BY <1>1, <1>2, FilesFacts, Zenon
<1>4. inodes \in Seq(InodeSet) /\ Len(inodes) \in Nat BY <1>1 DEF Files
<1>5. Real \in 1..Len(inodes) BY <1>1, <1>2, <1>3 DEF Real, Files, Exists
<1>6. /\ inodes' \in Seq(InodeSet) /\ Len(inodes') = Len(inodes)
      /\ \A i \in 1..Len(inodes) : inodes'[i].kind = inodes[i].kind
  <2>1. inodes[Real] \in InodeSet BY <1>4, <1>5
  <2>2. [inodes[Real] EXCEPT !.text = v] \in InodeSet /\ [inodes[Real] EXCEPT !.text = v].kind = inodes[Real].kind
    BY <2>1 DEF InodeSet
  <2>3. inodes' = [inodes EXCEPT ![Real] = [inodes[Real] EXCEPT !.text = v]] BY <1>2
  <2> HIDE DEF InodeSet
  <2> QED BY <1>4, <1>5, <2>2, <2>3
<1>7. Files' BY <1>1, <1>2, <1>4, <1>6 DEF Files
<1>8. Paths' = Paths BY <1>2, <1>6 DEF Paths
<1>9. IsLink' = IsLink /\ Real' = Real BY <1>1, <1>2, <1>3, <1>6 DEF IsLink, Real, Files
<1>10. /\ Sound(m, Paths, target) /\ m.watchers = inotify.watchers /\ m.watched = inotify.watched
       /\ Keeps(inotify, m) /\ (Real \in DOMAIN inotify.watched => Known(m, "MODIFY"))
  BY <1>1, WithFileTells DEF Known
<1> HIDE DEF m
<1>11. (Sees(inotify) => Sees(m)) /\ (Awaited(inotify) => Awaited(m)) /\ Ordered(m)
  BY <1>1, <1>10, KeepsAwaited DEF Holds
<1>12. ASSUME ~missed'
       PROVE  /\ loader \in {"loop", "watch"} => Awaited(m) \/ Known(m, "MODIFY")
              /\ loader \in {"load", "loop"} \/ (loader \in {"created", "watch"} /\ ~IsLink) => Sees(m)
  <2>1. CASE IsLink /\ target \in DOMAIN inotify.watched
    BY <1>10, <2>1 DEF Sees, Real
  <2>2. CASE ~(IsLink /\ target \in DOMAIN inotify.watched)
    <3>1. ~missed /\ (IsLink => loader # "watch")
      BY <1>12, <2>2, Zenon DEF Write, MissedChange, Watched
    <3>2. FollowsThere(inotify, loader, config) BY <1>1, <1>3, <3>1 DEF Holds
    <3> QED BY <1>10, <1>11, <3>1, <3>2 DEF FollowsThere, Sees
  <2> QED BY <2>1, <2>2
<1>13. edits # ConfigMapEdits /\ missed => missed'
  BY <1>1, FilesFacts, Zenon DEF Write, MissedChange
<1>14. NoMoves' => NoMoves
  BY <1>2, <1>13, Zenon DEF NoMoves
<1>15. ~missed' => FollowsThere(inotify, loader, config)'
  BY <1>2, <1>9, <1>12 DEF FollowsThere, Sees, Awaited
<1>16. loader # "start"
  \/ ~(Real \in DOMAIN inotify.watched)
  BY <1>1 DEF Holds, Started
<1>17. Started(m, loader, config)
  <2>1. CASE loader # "start" BY <1>1, <1>10, <2>1 DEF Holds, Started
  <2>2. CASE loader = "start"
    <3>1. m = inotify BY <1>16, <2>2, Zenon DEF m, WithFile
    <3> QED BY <1>1, <3>1 DEF Holds
  <2> QED BY <2>1, <2>2
<1>18. Started(inotify, loader, config)' /\ Ordered(inotify)'
  BY <1>2, <1>11, <1>14, <1>17 DEF Started, Ordered
<1>19. Sound(inotify, Paths, target)' BY <1>2, <1>8, <1>10
<1>20. entry' # 0 BY <1>2, <1>3
<1> QED BY <1>7, <1>15, <1>18, <1>19, <1>20 DEF IInv, Holds

(* A file is replaced: the end of the one that is watched is told.         *)
LEMMA ReplaceKeeps ==
  ASSUME IInv, NEW v \in Valid, Replace(v)
  PROVE  IInv'
<1> DEFINE m == Deleted(inotify, entry)
<1>1. /\ edits' = edits /\ target' = target /\ old' = old /\ loader' = loader /\ config' = config
      /\ entry' = Len(inodes') /\ inotify' = m /\ New("file", v) /\ "Replace" \in edits
  BY DEF Replace, Edit
<1>2. /\ Files /\ Holds(inotify, loader, config) /\ Sound(inotify, Paths, target)
      /\ inodes' \in Seq(InodeSet) /\ Len(inodes') = Len(inodes) + 1 /\ Len(inodes) \in Nat
      /\ \A i \in 1..Len(inodes) : inodes'[i] = inodes[i]
      /\ inodes'[Len(inodes) + 1].kind = "file"
      /\ Sound(inotify, Paths', target)
  <2>1. v \in Valid \cup {Invalid} /\ "file" \in {"file", "link"} OBVIOUS
  <2> QED BY <1>1, <2>1, NewInode, Zenon
<1>3. edits = FileEdits /\ edits # ConfigMapEdits /\ target = 0 /\ old = 0
  <2>1. "Replace" \notin ConfigMapEdits BY DEF ConfigMapEdits
  <2> QED BY <1>1, <1>2, <2>1 DEF Files
<1>4. entry' # 0 /\ entry' \in 0..Len(inodes') BY <1>1, <1>2
<1>16. ~missed' => ~missed /\ (loader = "start" \/ entry # 0) BY Zenon DEF Replace, MissedMove
<1>5. Files' BY <1>1, <1>2, <1>3, <1>4 DEF Files
<1>6. ~IsLink /\ Real = entry
  BY <1>2, <1>3, FilesFacts DEF Real
<1>8. entry \notin DOMAIN inotify.watched => m = inotify BY Zenon DEF Deleted
<1>7. /\ Sound(m, Paths', target) /\ m.watchers = inotify.watchers
      /\ \A e : Has(inotify.queue, e) => Has(m.queue, e)
      /\ After(inotify.queue, DELETE, CREATE) => After(m.queue, DELETE, CREATE)
      /\ entry \in DOMAIN inotify.watched => Known(m, "DELETE_SELF")
  <2>1. CASE entry \notin DOMAIN inotify.watched BY <1>2, <1>8, <2>1, Zenon
  <2>2. CASE entry \in DOMAIN inotify.watched
    <3>1. entry # target BY <1>2, <1>3, <2>2 DEF Sound, Fits, Watches, Paths
    <3>2. Sound(inotify, Paths', target) BY <1>2
    <3>3. Sound(m, Paths', target) /\ EndTold(inotify, m, entry) BY <3>1, <3>2, DeletedTells
    <3> QED BY <3>3, Zenon DEF EndTold
  <2> QED BY <2>1, <2>2
<1>9. /\ loader = "start" => DOMAIN inotify.watched = {}
      /\ loader = "scan" => DOMAIN inotify.watched = {}
  BY <1>2 DEF Holds, Started
<1> HIDE DEF m
<1>10. Started(m, loader, config)
  <2>1. CASE loader \in {"start", "scan"} BY <1>2, <1>8, <1>9, <2>1 DEF Holds
  <2>2. CASE loader \notin {"start", "scan"} BY <1>2, <1>7, <2>2 DEF Holds, Started
  <2> QED BY <2>1, <2>2
<1>11. ASSUME ~missed' PROVE After(m.queue, DELETE, CREATE)
  <2>1. CASE entry # 0 BY <1>2, <1>7, <1>11, <1>16, <2>1, Zenon DEF Holds, Ordered, NoMoves
  <2>2. CASE entry = 0
    <3>1. inotify.queue = <<>> BY <1>2, <1>11, <1>16, <2>2 DEF Holds, Started
    <3>2. After(inotify.queue, DELETE, CREATE) BY <3>1 DEF After
    <3> QED BY <1>7, <3>2
  <2> QED BY <2>1, <2>2
<1>12. ASSUME ~missed', loader \in {"load", "loop", "created", "watch"}
       PROVE  Has(m.queue, CREATE) \/ Known(m, "MOVE_SELF") \/ Known(m, "DELETE_SELF")
  <2>1. Sees(inotify) BY <1>2, <1>6, <1>12, <1>16 DEF Holds, FollowsThere
  <2>2. CASE entry \in DOMAIN inotify.watched BY <1>7, <2>2
  <2>3. CASE Awaited(inotify)
    BY <1>3, <1>7, <2>3, Zenon DEF Awaited, Known
  <2> QED BY <1>6, <2>1, <2>2, <2>3 DEF Sees
<1>13. ASSUME ~missed' PROVE FollowsThere(inotify, loader, config)'
  <2>1. \/ loader \notin {"load", "loop", "created", "watch"}
        \/ Has(m.queue, CREATE) \/ Known(m, "MOVE_SELF") \/ Known(m, "DELETE_SELF")
    BY <1>12, <1>13
  <2> QED BY <1>1, <2>1 DEF FollowsThere, Sees, Awaited
<1>14. Started(inotify, loader, config)' /\ Ordered(inotify)'
  BY <1>1, <1>3, <1>10, <1>11 DEF Started, Ordered, NoMoves
<1>15. Sound(inotify, Paths, target)' BY <1>1, <1>7
<1> QED BY <1>4, <1>5, <1>13, <1>14, <1>15 DEF IInv, Holds

(* A file is unlinked: the directory tells of it.                          *)
LEMMA UnlinkKeeps ==
  ASSUME IInv, Unlink
  PROVE  IInv'
<1> DEFINE k == WithDir(inotify, "DELETE")
           m == Deleted(k, entry)
<1>1. /\ edits' = edits /\ inodes' = inodes /\ target' = target /\ old' = old /\ loader' = loader
      /\ config' = config /\ entry' = 0 /\ inotify' = m /\ entry # 0
  BY DEF Unlink
<1>2. Files /\ Holds(inotify, loader, config) /\ Sound(inotify, Paths, target) BY DEF IInv, Holds
<1>3. Files' BY <1>1, <1>2 DEF Files
<1>4. Paths' = Paths BY <1>1 DEF Paths
<1>5. entry # target
  <2>1. edits = FileEdits \/ edits = ConfigMapEdits BY <1>2 DEF Files
  <2> QED BY <1>1, <1>2, <2>1 DEF Files
<1>6. /\ Sound(k, Paths, target) /\ k.watchers = inotify.watchers /\ k.watched = inotify.watched
      /\ IF \E w \in inotify.watchers : w.path = Directory THEN Has(k.queue, DELETE) ELSE k = inotify
  BY <1>2, WithDirTells, Zenon DEF DELETE
<1>7. /\ Sound(m, Paths, target) /\ m.watchers = k.watchers
      /\ \A e : Has(k.queue, e) => Has(m.queue, e)
  <2>1. Sound(k, Paths, target) BY <1>6
  <2> HIDE DEF k
  <2>2. Sound(m, Paths, target) /\ EndTold(k, m, entry) BY <1>5, <2>1, DeletedTells
  <2> QED BY <2>2, Zenon DEF EndTold
<1>8. entry \notin DOMAIN k.watched => m = k BY Zenon DEF Deleted
<1> HIDE DEF k, m
<1>9. Started(m, loader, config) /\ (loader # "start" => Has(m.queue, DELETE))
  <2>1. Dir.path = Directory BY DEF Dir
  <2>2. CASE loader = "start"
    <3>1. k = inotify /\ m = k BY <1>2, <1>6, <1>8, <2>2 DEF Holds, Started
    <3> QED BY <1>2, <2>2, <3>1 DEF Holds
  <2>3. CASE loader # "start"
    <3>1. Has(m.queue, DELETE) /\ Dir \in m.watchers BY <1>2, <1>6, <1>7, <2>1, <2>3 DEF Holds, Started
    <3>2. loader = "scan" => DOMAIN m.watched = {} /\ config = Default
      BY <1>2, <1>6, <1>8 DEF Holds, Started
    <3> QED BY <2>3, <3>1, <3>2 DEF Started
  <2> QED BY <2>2, <2>3
<1>10. FollowsGone(inotify, loader, config)' BY <1>1, <1>9 DEF FollowsGone
<1>11. Started(inotify, loader, config)' /\ Ordered(inotify)'
  BY <1>1, <1>9 DEF Started, Ordered
<1>12. Sound(inotify, Paths, target)' BY <1>1, <1>4, <1>7
<1> QED BY <1>1, <1>3, <1>10, <1>11, <1>12 DEF IInv, Holds

(* A file is moved away: its own watch tells, if there is one.             *)
LEMMA MoveAwayKeeps ==
  ASSUME IInv, MoveAway
  PROVE  IInv'
<1> DEFINE m == WithFile(inotify, entry, "MOVE_SELF")
<1>1. /\ edits' = edits /\ inodes' = inodes /\ target' = target /\ old' = old /\ loader' = loader
      /\ config' = config /\ entry' = 0 /\ inotify' = m
  BY DEF MoveAway
<1>2. Files /\ Holds(inotify, loader, config) /\ Sound(inotify, Paths, target) BY DEF IInv, Holds
<1>3. Files' BY <1>1, <1>2 DEF Files
<1>4. Paths' = Paths BY <1>1 DEF Paths
<1>5. /\ Sound(m, Paths, target) /\ m.watchers = inotify.watchers /\ m.watched = inotify.watched
      /\ entry \in DOMAIN inotify.watched => Known(m, "MOVE_SELF")
  BY <1>2, WithFileTells, Zenon DEF Known
<1>6. entry \notin DOMAIN inotify.watched => m = inotify BY Zenon DEF WithFile
<1> HIDE DEF m
<1>7. Started(m, loader, config) BY <1>2, <1>5, <1>6 DEF Holds, Started
<1>8. ASSUME ~missed' PROVE FollowsGone(inotify, loader, config)'
  <2>1. loader = "start" \/ entry \in DOMAIN inotify.watched
    BY <1>8, Zenon DEF MoveAway, MissedMove, Watched
  <2> QED BY <1>1, <1>5, <2>1 DEF FollowsGone
<1>9. Started(inotify, loader, config)' /\ Ordered(inotify)'
  BY <1>1, <1>7 DEF Started, Ordered
<1>10. Sound(inotify, Paths, target)' BY <1>1, <1>4, <1>5
<1> QED BY <1>1, <1>3, <1>8, <1>9, <1>10 DEF IInv, Holds

(* The link is made to lead to another target: the one it led to will end. *)
LEMMA SwapKeeps ==
  ASSUME IInv, NEW v \in Valid, Swap(v)
  PROVE  IInv'
<1>1. /\ edits' = edits /\ target' = Len(inodes') /\ old' = target /\ old = 0 /\ loader' = loader
      /\ config' = config /\ entry' = entry /\ inotify' = inotify
      /\ New("file", v) /\ "Swap" \in edits
  BY DEF Swap, Edit
<1>2. /\ Files /\ Holds(inotify, loader, config) /\ Sound(inotify, Paths, target)
      /\ inodes' \in Seq(InodeSet) /\ Len(inodes') = Len(inodes) + 1 /\ Len(inodes) \in Nat
      /\ \A i \in 1..Len(inodes) : inodes'[i] = inodes[i]
      /\ inodes'[Len(inodes) + 1].kind = "file"
      /\ Len(inodes) + 1 \notin DOMAIN Paths
      /\ DOMAIN Paths \subseteq DOMAIN Paths' /\ \A i \in DOMAIN Paths : Paths'[i] = Paths[i]
  <2>1. v \in Valid \cup {Invalid} /\ "file" \in {"file", "link"} OBVIOUS
  <2> QED BY <1>1, <2>1, NewInode, Zenon
<1>10. Files /\ Len(inodes) \in Nat BY <1>2
<1>3. edits = ConfigMapEdits /\ edits # FileEdits
  <2>1. "Swap" \notin FileEdits BY DEF FileEdits
  <2>2. "Swap" \in edits BY <1>1
  <2> QED BY <1>10, <2>1, <2>2 DEF Files
<1>4. target \in 1..Len(inodes) /\ entry \in 0..Len(inodes) BY <1>3, <1>10 DEF Files
<1>5. Files'
  <2>1. target' = Len(inodes) + 1 BY <1>1, <1>2
  <2>2. /\ entry' \in 0..Len(inodes') /\ target' \in 0..Len(inodes') /\ old' \in 0..Len(inodes')
        /\ target' # 0 /\ old' # target'
    BY <1>1, <1>2, <1>4, <2>1
  <2>3. inodes'[target'].kind = "file" /\ inodes'[old'].kind = "file"
    BY <1>1, <1>2, <1>3, <1>4, <2>1 DEF Files
  <2>4. entry' # 0 => inodes'[entry'].kind = "link" BY <1>1, <1>2, <1>3, <1>4 DEF Files
  <2> QED BY <1>1, <1>2, <1>3, <2>2, <2>3, <2>4 DEF Files
<1>6. Sound(inotify, Paths, target)'
  <2>1. target' \in Nat /\ target' \notin DOMAIN Paths BY <1>1, <1>2
  <2>2. Sound(inotify, Paths', target') BY <1>2, <2>1, MorePaths, Zenon
  <2> QED BY <1>1, <2>2
<1>7. Started(inotify, loader, config)' /\ Ordered(inotify)'
  BY <1>1, <1>2, <1>3 DEF Holds, Started, Ordered, NoMoves
<1>8. ASSUME entry # 0, ~missed' PROVE FollowsThere(inotify, loader, config)'
  <2>1. IsLink /\ Real = target BY <1>2, <1>3, <1>8, FilesFacts DEF Real
  <2>2. IsLink' BY <1>1, <1>2, <1>4, <1>8, <2>1 DEF IsLink
  <2>3. old' # 0 BY <1>1, <1>4
  <2>4. CASE target \in DOMAIN inotify.watched
    <3>1. Awaited(inotify)' BY <1>1, <2>3, <2>4 DEF Awaited
    <3> QED BY <3>1 DEF FollowsThere, Sees
  <2>5. CASE target \notin DOMAIN inotify.watched
    <3>1. ~missed /\ loader # "watch"
      BY <1>8, <2>1, <2>5, Zenon DEF Swap, MissedChange, Watched
    <3>2. FollowsThere(inotify, loader, config) BY <1>2, <1>8, <3>1 DEF Holds
    <3>3. loader \in {"load", "loop"} => Sees(inotify) BY <3>2 DEF FollowsThere
    <3>4. loader \in {"load", "loop"} => Awaited(inotify)'
      BY <1>1, <2>1, <2>3, <3>3 DEF Sees, Awaited
    <3> QED BY <1>1, <2>2, <3>1, <3>4 DEF FollowsThere, Sees
  <2> QED BY <2>4, <2>5
<1>9. ASSUME entry = 0, ~missed' PROVE FollowsGone(inotify, loader, config)'
  <2>1. ~missed BY <1>9, Zenon DEF Swap, MissedChange, IsLink
  <2> QED BY <1>1, <1>2, <1>9, <2>1 DEF Holds, FollowsGone
<1> QED BY <1>1, <1>5, <1>6, <1>7, <1>8, <1>9 DEF IInv, Holds

(* The file a link pointed at before is deleted.                           *)
LEMMA DeleteOldKeeps ==
  ASSUME IInv, DeleteOld
  PROVE  IInv'
<1> DEFINE m == Deleted(inotify, old)
<1>1. /\ edits' = edits /\ inodes' = inodes /\ target' = target /\ entry' = entry /\ loader' = loader
      /\ config' = config /\ old' = 0 /\ inotify' = m /\ old # 0 /\ missed' = missed
  BY DEF DeleteOld
<1>2. Files /\ Holds(inotify, loader, config) /\ Sound(inotify, Paths, target) BY DEF IInv, Holds
<1>3. Files' BY <1>1, <1>2 DEF Files
<1>4. Paths' = Paths /\ IsLink' = IsLink /\ Real' = Real BY <1>1 DEF Paths, IsLink, Real
<1>5. edits = ConfigMapEdits /\ old # target /\ old \in 1..Len(inodes) /\ inodes[old].kind = "file"
  BY <1>1, <1>2 DEF Files
<1>6. Sound(m, Paths, target) /\ EndTold(inotify, m, old) BY <1>2, <1>5, DeletedTells
<1>7. /\ m.watchers = inotify.watchers
      /\ \A j \in DOMAIN inotify.watched : j # old => j \in DOMAIN m.watched
      /\ \A e : Has(inotify.queue, e) => Has(m.queue, e)
      /\ After(inotify.queue, DELETE, CREATE) => After(m.queue, DELETE, CREATE)
      /\ old \in DOMAIN inotify.watched => Known(m, "DELETE_SELF")
  BY <1>6, Zenon DEF EndTold
<1>8. old \notin DOMAIN inotify.watched => m = inotify BY Zenon DEF Deleted
<1> HIDE DEF m
<1>9. Started(m, loader, config)
  <2>1. CASE loader \in {"start", "scan"} BY <1>2, <1>8, <2>1 DEF Holds, Started
  <2>2. CASE loader \notin {"start", "scan"} BY <1>2, <1>7, <2>2 DEF Holds, Started
  <2> QED BY <2>1, <2>2
<1>10. Ordered(m) BY <1>2, <1>7 DEF Holds, Ordered
<1>11. \A mask : Known(inotify, mask) => Known(m, mask) BY <1>7, Zenon DEF Known
<1>12. Awaited(inotify) => Has(m.queue, CREATE) \/ Known(m, "MOVE_SELF") \/ Known(m, "DELETE_SELF")
  BY <1>7, <1>11 DEF Awaited
<1>13. ASSUME entry # 0, ~missed PROVE FollowsThere(inotify, loader, config)'
  <2>1. FollowsThere(inotify, loader, config) BY <1>2, <1>13 DEF Holds
  <2>2. Real # old
    BY <1>2, <1>5, <1>13, FilesFacts DEF Real, Files
  <2>3. Awaited(inotify) => Awaited(inotify)' BY <1>1, <1>12 DEF Awaited
  <2>4. Sees(inotify) => Sees(inotify)' BY <1>1, <1>4, <1>7, <2>2, <2>3 DEF Sees
  <2>5. Fresh(config) => Fresh(config)' BY <1>1, <1>4 DEF Fresh, Text
  <2>6. Known(inotify, "MODIFY") => Known(inotify, "MODIFY")' BY <1>1, <1>11
  <2> QED BY <1>1, <1>4, <2>1, <2>3, <2>4, <2>5, <2>6 DEF FollowsThere
<1>14. ASSUME entry = 0, ~missed PROVE FollowsGone(inotify, loader, config)'
  BY <1>1, <1>2, <1>7, <1>11, <1>14 DEF Holds, FollowsGone
<1>15. Started(inotify, loader, config)' /\ Ordered(inotify)'
  BY <1>1, <1>9, <1>10 DEF Started, Ordered, NoMoves
<1>16. Sound(inotify, Paths, target)' BY <1>1, <1>4, <1>6
<1> QED BY <1>1, <1>3, <1>13, <1>14, <1>15, <1>16 DEF IInv, Holds

(* The directory goes, once it is empty.                                   *)
LEMMA RemoveDirectoryKeeps ==
  ASSUME IInv, RemoveDirectory
  PROVE  IInv'
<1> DEFINE m == WithDir(inotify, "DELETE_SELF")
<1>1. /\ edits' = edits /\ inodes' = inodes /\ target' = target /\ entry' = entry /\ loader' = loader
      /\ config' = config /\ old' = old /\ inotify' = m /\ entry = 0 /\ loader = "loop" /\ missed' = missed
  BY DEF RemoveDirectory
<1>2. Files /\ Holds(inotify, loader, config) /\ Sound(inotify, Paths, target) BY DEF IInv, Holds
<1>3. Files' BY <1>1, <1>2 DEF Files
<1>4. Paths' = Paths BY <1>1 DEF Paths
<1>5. Sound(m, Paths, target) /\ m.watchers = inotify.watchers
      /\ \A e : Has(inotify.queue, e) => Has(m.queue, e)
  BY <1>2, WithDirTells, Zenon
<1> HIDE DEF m
<1>6. Started(m, loader, config) BY <1>1, <1>2, <1>5 DEF Holds, Started
<1>7. ~missed => FollowsGone(m, loader, config)
  BY <1>1, <1>2, <1>5 DEF Holds, FollowsGone, Known
<1>8. Started(inotify, loader, config)' /\ Ordered(inotify)'
      /\ (~missed => FollowsGone(inotify, loader, config)')
  BY <1>1, <1>6, <1>7 DEF Started, Ordered, FollowsGone
<1>9. Sound(inotify, Paths, target)' BY <1>1, <1>4, <1>5
<1> QED BY <1>1, <1>3, <1>8, <1>9 DEF IInv, Holds

-----------------------------------------------------------------------------
(* The invariant holds before the loader starts, with and without a file.  *)
LEMMA InitHolds == LoaderInit => IInv
<1> SUFFICES ASSUME LoaderInit PROVE IInv OBVIOUS
<1>1. PICK v \in Valid, there \in BOOLEAN :
        IF edits = FileEdits
        THEN /\ inodes = IF there THEN <<[kind |-> "file", text |-> v]>> ELSE <<>>
             /\ entry = Len(inodes) /\ target = 0
        ELSE /\ inodes = <<[kind |-> "file", text |-> v]>>
                         \o IF there THEN <<[kind |-> "link", text |-> v]>> ELSE <<>>
             /\ entry = (IF there THEN 2 ELSE 0) /\ target = 1
  BY Zenon DEF LoaderInit
<1>2. /\ edits \in {FileEdits, ConfigMapEdits} /\ old = 0 /\ loader = "start" /\ config = Default
      /\ inotify = [watchers |-> {}, watched |-> [i \in {} |-> 0], wds |-> 0, queue |-> <<>>]
  BY DEF LoaderInit
<1>3. FileEdits # ConfigMapEdits
  <2>1. "Create" \in FileEdits /\ "Create" \notin ConfigMapEdits BY DEF FileEdits, ConfigMapEdits
  <2> QED BY <2>1
<1> DEFINE f == [kind |-> "file", text |-> v]
           l == [kind |-> "link", text |-> v]
<1>4. f \in InodeSet /\ f.kind = "file" /\ l \in InodeSet /\ l.kind = "link" BY DEF InodeSet
<1> HIDE DEF f, l
<1>5. Files
  <2>1. CASE edits = FileEdits
    <3>1. inodes = (IF there THEN <<f>> ELSE <<>>) /\ entry = Len(inodes) /\ target = 0
      BY <1>1, <2>1 DEF f
    <3>2. CASE there BY <1>2, <1>3, <1>4, <2>1, <3>1, <3>2 DEF Files
    <3>3. CASE ~there BY <1>2, <1>3, <2>1, <3>1, <3>3 DEF Files
    <3> QED BY <3>2, <3>3
  <2>2. CASE edits = ConfigMapEdits
    <3>1. inodes = <<f>> \o (IF there THEN <<l>> ELSE <<>>) /\ entry = (IF there THEN 2 ELSE 0) /\ target = 1
      BY <1>1, <1>3, <2>2 DEF f, l
    <3>2. CASE there
      <4>1. inodes = <<f>> \o <<l>> /\ entry = 2 BY <3>1, <3>2
      <4>2. inodes \in Seq(InodeSet) /\ Len(inodes) = 2 /\ inodes[1] = f /\ inodes[2] = l BY <1>4, <4>1
      <4> QED BY <1>2, <1>3, <1>4, <2>2, <3>1, <4>1, <4>2 DEF Files
    <3>3. CASE ~there
      <4>1. inodes = <<f>> /\ entry = 0 BY <3>1, <3>3
      <4> QED BY <1>2, <1>3, <1>4, <2>2, <3>1, <4>1 DEF Files
    <3> QED BY <3>2, <3>3
  <2> QED BY <1>2, <2>1, <2>2
<1>6. /\ inotify.watchers = {} /\ DOMAIN inotify.watched = {} /\ inotify.wds = 0 /\ inotify.queue = <<>>
  BY <1>2
<1>7. inotify \in InotifySet
  <2>1. [i \in {} |-> 0] \in Maps
    <3>1. [i \in {} |-> 0] \in [{} -> Nat] /\ {} \in SUBSET Nat OBVIOUS
    <3> QED BY <3>1, MapsAreFunctions, Zenon
  <2>2. <<>> \in Seq(EventSet) /\ {} \in SUBSET WatcherSet /\ 0 \in Nat OBVIOUS
  <2> QED BY <1>2, <2>1, <2>2, Zenon DEF InotifySet
<1>8. Sound(inotify, Paths, target)
  <2>1. Watches(inotify, Paths) BY <1>6 DEF Watches
  <2>2. Watchers(inotify, Paths, target) BY <1>6 DEF Watchers
  <2>3. Events(inotify) BY <1>6 DEF Events, Has
  <2>4. Ends(inotify) BY <1>6 DEF Ends
  <2> QED BY <1>7, <2>1, <2>2, <2>3, <2>4 DEF Sound, Fits
<1>9. Started(inotify, loader, config) BY <1>2, <1>6 DEF Started
<1>10. Ordered(inotify) BY <1>6 DEF Ordered, After
<1>11. FollowsThere(inotify, loader, config) /\ FollowsGone(inotify, loader, config)
  BY <1>2 DEF FollowsThere, FollowsGone
<1> QED BY <1>5, <1>8, <1>9, <1>10, <1>11 DEF IInv, Holds

(* Every change of the file system and every step of the loader keeps it.  *)
LEMMA StepHolds == IInv /\ [LoaderNext]_loaderVars => IInv'
<1> SUFFICES ASSUME IInv, [LoaderNext]_loaderVars PROVE IInv' OBVIOUS
<1>1. CASE Create \/ Link BY <1>1, CreateKeeps
<1>2. CASE Unlink BY <1>2, UnlinkKeeps
<1>3. CASE MoveAway BY <1>3, MoveAwayKeeps
<1>4. CASE DeleteOld BY <1>4, DeleteOldKeeps
<1>5. CASE RemoveDirectory BY <1>5, RemoveDirectoryKeeps
<1>6. ASSUME NEW v \in Valid, Write(v) PROVE IInv' BY <1>6, WriteKeeps
<1>7. ASSUME NEW v \in Valid, Replace(v) PROVE IInv' BY <1>7, ReplaceKeeps
<1>8. ASSUME NEW v \in Valid, Swap(v) PROVE IInv' BY <1>8, SwapKeeps
<1>9. CASE WatchFile BY <1>9, WatchFileKeeps
<1>10. CASE UNCHANGED loaderVars
  <2>1. /\ edits' = edits /\ edited' = edited /\ inodes' = inodes /\ entry' = entry /\ target' = target
        /\ old' = old /\ inotify' = inotify /\ loader' = loader /\ config' = config /\ missed' = missed
    BY <1>10 DEF loaderVars, fs
  <2> QED BY <2>1, Zenon DEF IInv, Files, Holds, Paths, Started, Ordered, NoMoves, FollowsThere, FollowsGone,
                             Sees, Awaited, Fresh, Real, IsLink, Text
<1> QED BY <1>1, <1>2, <1>3, <1>4, <1>5, <1>6, <1>7, <1>8, <1>9, <1>10, Zenon DEF LoaderNext, Edits

(* What the invariant says when the loader has handled all events.         *)
LEMMA HandledFollows == IInv => FollowsFile
<1> SUFFICES ASSUME IInv PROVE FollowsFile OBVIOUS
<1>1. Files /\ Holds(inotify, loader, config) /\ Sound(inotify, Paths, target) BY DEF IInv, Holds
<1>2. WatchersAreKnown
  BY <1>1 DEF Sound, Fits, Watches, Watchers, WatchersAreKnown, FindWatcher
<1>3. ASSUME ~missed, loader = "loop", inotify.queue = <<>>, old = 0
      PROVE  IF ~Exists THEN config = Default ELSE Text(Real) \in Valid => config = Text(Real)
  <2>1. \A e : ~Has(inotify.queue, e) BY <1>3 DEF Has
  <2>2. \A mask : ~Known(inotify, mask) BY <2>1 DEF Known
  <2>3. ~Awaited(inotify) BY <1>3, <2>1, <2>2 DEF Awaited
  <2>4. CASE entry # 0
    <3>1. Fresh(config) BY <1>1, <1>3, <2>2, <2>3, <2>4 DEF Holds, FollowsThere
    <3>2. Exists BY <1>1, <2>4, FilesFacts, Zenon
    <3> QED BY <3>1, <3>2 DEF Fresh
  <2>5. CASE entry = 0
    <3>1. config = Default BY <1>1, <1>3, <2>1, <2>2, <2>5 DEF Holds, FollowsGone
    <3>2. ~Exists BY <1>1, <2>5, FilesFacts, Zenon
    <3> QED BY <3>1, <3>2
  <2> QED BY <2>4, <2>5
<1> QED BY <1>2, <1>3 DEF FollowsFile, SettlesOnFile

(* WatchFile and HandleEvent: once all events are handled the              *)
(* configuration in force is the file's, or the default when there is no   *)
(* file, after any number of changes of a regular file or of a ConfigMap,  *)
(* made at any moment of the loader's work, unless a move or a change of   *)
(* which no event tells came last; and whatever was missed, there is no    *)
(* watch that the loader does not know.                                    *)
THEOREM FollowsFileHolds == LoaderSpec => []FollowsFile
<1>1. LoaderInit => IInv BY InitHolds
<1>2. IInv /\ [LoaderNext]_loaderVars => IInv' BY StepHolds
<1>3. IInv => FollowsFile BY HandledFollows
<1> QED BY <1>1, <1>2, <1>3, PTL DEF LoaderSpec
=============================================================================
