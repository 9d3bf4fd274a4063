--------------------------- MODULE InotifyProofs ----------------------------
(***************************************************************************)
(* What ConfigLoader's inotify instance looks like after each call of its  *)
(* methods and each event the kernel queues, for any number of files,      *)
(* watches and events.  Sound is what they all keep: every watch has a     *)
(* watcher of the path of its inode and every watcher had a watch (Watches,*)
(* Watchers), every event is about a watch there is or was, and none about *)
(* a watch that was told to end (Events), and the end of the file's watch  *)
(* comes after its cause (Ends).                                           *)
(***************************************************************************)
EXTENDS ConfigLoader, TLAPS

-----------------------------------------------------------------------------
(* Events in a queue, and their order.                                     *)
Ev(wd, mask) == [wd |-> wd, mask |-> mask]
CREATE == Ev(0, "CREATE")
DELETE == Ev(0, "DELETE")
Masks == {"CREATE", "DELETE", "MODIFY", "MOVE_SELF", "DELETE_SELF", "IGNORED"}
EventSet == [wd : Nat, mask : Masks]

Has(q, e) == \E k \in 1..Len(q) : q[k] = e
After(q, d, c) == \A k \in 1..Len(q) : q[k] = d => \E j \in (k + 1)..Len(q) : q[j] = c
Before(q, g, d) == \A k \in 1..Len(q) : q[k] = g => \E j \in 1..(k - 1) : q[j] = d

(* What an event at the end of the queue changes: it comes after every     *)
(* earlier one, and no order among those is lost.                          *)
LEMMA QueueAppend ==
  ASSUME NEW q \in Seq(EventSet), NEW e \in EventSet
  PROVE  /\ Append(q, e) \in Seq(EventSet)
         /\ \A d : Has(Append(q, e), d) <=> Has(q, d) \/ d = e
         /\ \A d, c : After(q, d, c) /\ e # d => After(Append(q, e), d, c)
         /\ \A d : e # d => After(Append(q, e), d, e)
         /\ \A g, d : Before(q, g, d) /\ (e # g \/ Has(q, d)) => Before(Append(q, e), g, d)
<1> DEFINE r == Append(q, e)
<1>1. r \in Seq(EventSet) /\ Len(r) = Len(q) + 1 /\ Len(q) \in Nat
  OBVIOUS
<1>2. r[Len(q) + 1] = e /\ \A k \in 1..Len(q) : r[k] = q[k]
  OBVIOUS
<1> HIDE DEF r
<1>3. \A d : Has(r, d) <=> Has(q, d) \/ d = e
  BY <1>1, <1>2 DEF Has
<1>4. \A d, c : After(q, d, c) /\ e # d => After(r, d, c)
  BY <1>1, <1>2 DEF After
<1>5. \A d : e # d => After(r, d, e)
  BY <1>1, <1>2 DEF After
<1>6. \A g, d : Before(q, g, d) /\ (e # g \/ Has(q, d)) => Before(r, g, d)
  BY <1>1, <1>2 DEF Before, Has
<1> QED BY <1>1, <1>3, <1>4, <1>5, <1>6 DEF r

(* What reading the first event changes.                                   *)
LEMMA QueueTail ==
  ASSUME NEW q \in Seq(EventSet), q # <<>>
  PROVE  /\ Tail(q) \in Seq(EventSet) /\ Head(q) \in EventSet
         /\ \A d : Has(q, d) <=> Has(Tail(q), d) \/ d = Head(q)
         /\ \A d, c : After(q, d, c) => After(Tail(q), d, c)
         /\ \A g, d : Before(q, g, d) /\ Head(q) # d => Before(Tail(q), g, d)
<1> DEFINE r == Tail(q)
<1>1. /\ r \in Seq(EventSet) /\ Len(q) = Len(r) + 1 /\ Len(r) \in Nat
      /\ Head(q) = q[1] /\ Head(q) \in EventSet
  OBVIOUS
<1>2. \A k \in 1..Len(r) : r[k] = q[k + 1]
  OBVIOUS
<1> HIDE DEF r
<1>3. ASSUME NEW d PROVE Has(q, d) <=> Has(r, d) \/ d = Head(q)
  <2>1. ASSUME Has(q, d), d # q[1] PROVE Has(r, d)
    <3>1. PICK k \in 1..Len(q) : q[k] = d BY <2>1 DEF Has
    <3>2. k - 1 \in 1..Len(r) /\ r[k - 1] = d BY <1>1, <1>2, <2>1, <3>1
    <3> QED BY <3>2 DEF Has
  <2>2. ASSUME Has(r, d) PROVE Has(q, d) BY <1>1, <1>2, <2>2 DEF Has
  <2>3. Has(q, q[1]) BY <1>1 DEF Has
  <2> QED BY <1>1, <2>1, <2>2, <2>3
<1>4. ASSUME NEW d, NEW c, After(q, d, c) PROVE After(r, d, c)
  <2>1. SUFFICES ASSUME NEW k \in 1..Len(r), r[k] = d
                 PROVE  \E j \in (k + 1)..Len(r) : r[j] = c
    BY DEF After
  <2>2. PICK j \in (k + 2)..Len(q) : q[j] = c BY <1>1, <1>2, <1>4, <2>1 DEF After
  <2>3. j - 1 \in (k + 1)..Len(r) /\ r[j - 1] = c BY <1>1, <1>2, <2>2
  <2> QED BY <2>3
<1>5. ASSUME NEW g, NEW d, Before(q, g, d), Head(q) # d PROVE Before(r, g, d)
  <2>1. SUFFICES ASSUME NEW k \in 1..Len(r), r[k] = g
                 PROVE  \E j \in 1..(k - 1) : r[j] = d
    BY DEF Before
  <2>2. k + 1 \in 1..Len(q) /\ q[k + 1] = g BY <1>1, <1>2, <2>1
  <2>3. PICK j \in 1..((k + 1) - 1) : q[j] = d BY <1>5, <2>2 DEF Before
  <2>4. j \in 1..k /\ j # 1 BY <1>1, <1>5, <2>3
  <2>5. j - 1 \in 1..(k - 1) /\ r[j - 1] = d BY <1>1, <1>2, <2>1, <2>3, <2>4
  <2> QED BY <2>5
<1> QED BY <1>1, <1>3, <1>4, <1>5 DEF r

-----------------------------------------------------------------------------
(* What the operations of inotify do to its state.                         *)
WatcherSet == [path : Int, wd : Nat, tag : {"directory", "file", "realpath"}]

Maps == UNION {[S -> Nat] : S \in SUBSET Nat}
InotifySet == [watchers : SUBSET WatcherSet, watched : Maps, wds : Nat, queue : Seq(EventSet)]

(* A map from inodes to watch descriptors, with or without its domain.     *)
LEMMA MapsAreFunctions ==
  /\ \A f \in Maps : f \in [DOMAIN f -> Nat] /\ DOMAIN f \subseteq Nat
  /\ \A S \in SUBSET Nat : \A f \in [S -> Nat] : f \in Maps
BY Zenon DEF Maps

(* An event is added, and nothing else changes.                            *)
Told(n, m, e) == /\ m \in InotifySet
                 /\ m.queue = Append(n.queue, e)
                 /\ m.watchers = n.watchers /\ m.watched = n.watched /\ m.wds = n.wds

(* Queued tells an event.                                                  *)
LEMMA QueuedTells ==
  ASSUME NEW n \in InotifySet, NEW wd \in Nat, NEW mask \in Masks
  PROVE  Told(n, Queued(n, wd, mask), Ev(wd, mask))
<1>1. Ev(wd, mask) \in EventSet BY DEF Ev, EventSet
<1>2. n.queue \in Seq(EventSet) BY DEF InotifySet
<1>3. Append(n.queue, Ev(wd, mask)) \in Seq(EventSet) BY <1>1, <1>2
<1> QED BY <1>3, Zenon DEF Told, InotifySet, Queued, Ev

(* The kernel's watch of a descriptor ends.                                *)
Ended(n, m, wd) ==
  /\ m \in InotifySet
  /\ m.watchers = n.watchers /\ m.wds = n.wds
  /\ DOMAIN m.watched = {j \in DOMAIN n.watched : n.watched[j] # wd}
  /\ \A j \in DOMAIN m.watched : m.watched[j] = n.watched[j]

(* Unwatched ends a watch: the kernel queues IGNORED for a watch there     *)
(* was.                                                                    *)
LEMMA UnwatchedEnds ==
  ASSUME NEW n \in InotifySet, NEW wd \in Nat
  PROVE  /\ Ended(n, Unwatched(n, wd), wd)
         /\ Unwatched(n, wd).queue =
              IF \E i \in DOMAIN n.watched : n.watched[i] = wd
              THEN Append(n.queue, Ev(wd, "IGNORED")) ELSE n.queue
<1> DEFINE left == {j \in DOMAIN n.watched : n.watched[j] # wd}
           map == [i \in left |-> n.watched[i]]
           k == Queued(n, wd, "IGNORED")
<1>1. CASE \E i \in DOMAIN n.watched : n.watched[i] = wd
  <2>1. Told(n, k, Ev(wd, "IGNORED"))
    <3>1. "IGNORED" \in Masks BY DEF Masks
    <3> QED BY <3>1, QueuedTells, Zenon
  <2>2. Unwatched(n, wd) = [k EXCEPT !.watched = map] BY <1>1 DEF Unwatched
  <2>3. n.watched \in Maps BY DEF InotifySet
  <2>4. left \in SUBSET Nat /\ map \in [left -> Nat] BY <2>3, MapsAreFunctions
  <2>5. map \in Maps BY <2>4, MapsAreFunctions
  <2>6. DOMAIN map = left /\ \A j \in left : map[j] = n.watched[j] OBVIOUS
  <2> HIDE DEF map, left, k
  <2>7. /\ Unwatched(n, wd) \in InotifySet
        /\ Unwatched(n, wd).watchers = k.watchers /\ Unwatched(n, wd).wds = k.wds
        /\ Unwatched(n, wd).watched = map /\ Unwatched(n, wd).queue = k.queue
    BY <2>1, <2>2, <2>5 DEF Told, InotifySet
  <2> QED BY <1>1, <2>1, <2>6, <2>7 DEF Told, Ended, left
<1>2. CASE ~\E i \in DOMAIN n.watched : n.watched[i] = wd
  <2>1. Unwatched(n, wd) = n BY <1>2 DEF Unwatched
  <2> QED BY <1>2, <2>1 DEF Ended
<1> QED BY <1>1, <1>2

-----------------------------------------------------------------------------
(* The paths by which inodes are watched: a target of links by its own,    *)
(* all others by the configuration file's.                                 *)
PathMap(paths) ==
  DOMAIN paths \subseteq Nat \ {0} /\ \A i \in DOMAIN paths : paths[i] \in {File, i}

Tag(path) ==
  IF path = Directory THEN "directory" ELSE IF path = File THEN "file" ELSE "realpath"

(* Watchers and watches fit together: descriptors are not shared, each     *)
(* watch belongs to the watcher of its inode's path, and the watcher of    *)
(* the present target t has its watch.                                     *)
Watches(n, paths) ==
  /\ \A i \in DOMAIN n.watched :
       /\ i \in DOMAIN paths /\ n.watched[i] \in 1..n.wds
       /\ \E w \in n.watchers : w.path = paths[i] /\ w.wd = n.watched[i]
  /\ \A i, j \in DOMAIN n.watched : n.watched[i] = n.watched[j] => i = j
Watchers(n, paths, t) ==
  /\ \A w \in n.watchers :
       /\ w.wd \in 0..n.wds /\ w.tag = Tag(w.path) /\ (w.wd = 0 <=> w.path = Directory)
       /\ w.path \notin {Directory, File} => w.path \in DOMAIN paths /\ paths[w.path] = w.path
       /\ w.path = t /\ t # File => t \in DOMAIN n.watched /\ n.watched[t] = w.wd
  /\ \A w1, w2 \in n.watchers : w1.path = w2.path \/ w1.wd = w2.wd => w1 = w2

(* Events have descriptors that were given out, and what an event says of  *)
(* the end of a watch is so.                                               *)
Events(n) ==
  /\ \A e \in EventSet : Has(n.queue, e) =>
       /\ e.wd \in 0..n.wds
       /\ e.wd = 0 => e.mask \in {"CREATE", "DELETE", "DELETE_SELF"}
       /\ e.wd # 0 => e.mask \in {"MODIFY", "MOVE_SELF", "DELETE_SELF", "IGNORED"}
       /\ e.mask \in {"DELETE_SELF", "IGNORED"} => \A i \in DOMAIN n.watched : n.watched[i] # e.wd

(* The end of the file's inode is told before the end of its watch.        *)
Ends(n) ==
  \A w \in n.watchers : w.path = File =>
    Before(n.queue, Ev(w.wd, "IGNORED"), Ev(w.wd, "DELETE_SELF"))

Fits(n, paths, t) ==
  n \in InotifySet /\ Watches(n, paths) /\ Watchers(n, paths, t) /\ Events(n)
Sound(n, paths, t) == Fits(n, paths, t) /\ Ends(n)

(* AddWatcher of a path that is watched already by that inode changes      *)
(* nothing.                                                                *)
LEMMA AddKnownWatcher ==
  ASSUME NEW n, NEW paths, NEW t, PathMap(paths), Fits(n, paths, t),
         NEW i \in DOMAIN n.watched
  PROVE  AddWatcher(n, paths[i], i, Tag(paths[i])) = n
<1> DEFINE path == paths[i]
           wd == n.watched[i]
           map == [j \in DOMAIN n.watched \cup {i} |-> IF j = i THEN wd ELSE n.watched[j]]
           m == [n EXCEPT !.wds = n.wds, !.watched = map]
           new == [path |-> path, wd |-> wd, tag |-> Tag(path)]
<1>1. n \in InotifySet /\ n.watched \in Maps BY DEF Fits, InotifySet
<1>2. i \in DOMAIN paths /\ i # 0 BY DEF Fits, Watches, PathMap
<1>3. PICK w \in n.watchers : w.path = path /\ w.wd = wd BY DEF Fits, Watches
<1>4. w.tag = Tag(path) /\ w \in WatcherSet BY <1>1, <1>3 DEF Fits, Watchers, InotifySet
<1>5. w = new BY <1>3, <1>4 DEF WatcherSet
<1>6. {v \in n.watchers : v.path = path /\ v.wd # wd} = {} BY <1>3 DEF Fits, Watchers
<1>7. {v \in n.watchers : v.path # path} \cup {new} = n.watchers
  BY <1>3, <1>5 DEF Fits, Watchers
<1>8. map = n.watched BY <1>1, MapsAreFunctions
<1>9. m = n
  <2>1. [n EXCEPT !.wds = n.wds, !.watched = n.watched] = n BY <1>1, Zenon DEF InotifySet
  <2> HIDE DEF map
  <2> QED BY <1>8, <2>1
<1>10. AddWatcher(n, path, i, Tag(path)) = [m EXCEPT !.watchers = {v \in m.watchers : v.path # path} \cup {new}]
  BY <1>2, <1>6, Zenon DEF AddWatcher
<1>11. [n EXCEPT !.watchers = n.watchers] = n BY <1>1 DEF InotifySet
<1> QED BY <1>7, <1>9, <1>10, <1>11, Zenon

(* AddWatcher of an inode that is not watched: the watcher of the path is  *)
(* replaced, and what it watched before is not watched any more.           *)
Replaced(n, path) == {w \in n.watchers : w.path = path}
Lost(n, path) == {j \in DOMAIN n.watched : \E w \in Replaced(n, path) : w.wd = n.watched[j]}
NewWatcher(n, path) == [path |-> path, wd |-> n.wds + 1, tag |-> Tag(path)]

Rewatched(n, r, path, i) ==
  /\ r \in InotifySet /\ r.wds = n.wds + 1
  /\ r.watchers = (n.watchers \ Replaced(n, path)) \cup {NewWatcher(n, path)}
  /\ DOMAIN r.watched = (DOMAIN n.watched \ Lost(n, path)) \cup {i}
  /\ r.watched[i] = n.wds + 1
  /\ \A j \in DOMAIN n.watched \ Lost(n, path) : r.watched[j] = n.watched[j]
  /\ \/ r.queue = n.queue
     \/ \E w \in Replaced(n, path) : r.queue = Append(n.queue, Ev(w.wd, "IGNORED"))

(* AddWatcher on an inode that is not watched yet: one new watch, and one  *)
(* watcher for the path.                                                   *)
LEMMA AddNewWatcher ==
  ASSUME NEW n, NEW paths, NEW t, PathMap(paths), Fits(n, paths, t),
         NEW i \in DOMAIN paths, i \notin DOMAIN n.watched
  PROVE  Rewatched(n, AddWatcher(n, paths[i], i, Tag(paths[i])), paths[i], i)
<1> DEFINE path == paths[i]
           wd == n.wds + 1
           map == [j \in DOMAIN n.watched \cup {i} |-> IF j = i THEN wd ELSE n.watched[j]]
           m == [n EXCEPT !.wds = wd, !.watched = map]
           stale == {v \in n.watchers : v.path = path /\ v.wd # wd}
           k == IF stale = {} THEN m ELSE Unwatched(m, (CHOOSE v \in stale : TRUE).wd)
           r == AddWatcher(n, path, i, Tag(path))
<1>1. n \in InotifySet /\ n.watched \in Maps /\ n.wds \in Nat /\ n.watchers \subseteq WatcherSet
  BY DEF Fits, InotifySet
<1>2. i \in Nat /\ i # 0 /\ path \in Int BY DEF PathMap, File
<1>3. r = [k EXCEPT !.watchers = {v \in k.watchers : v.path # path} \cup {NewWatcher(n, path)}]
  BY <1>2, Zenon DEF AddWatcher, NewWatcher
<1>4. stale = Replaced(n, path)
  BY <1>1 DEF Replaced, Fits, Watchers
<1>5. map \in Maps /\ DOMAIN map = DOMAIN n.watched \cup {i}
  <2>1. wd \in Nat /\ DOMAIN n.watched \cup {i} \in SUBSET Nat BY <1>1, <1>2, MapsAreFunctions
  <2>2. map \in [DOMAIN n.watched \cup {i} -> Nat] BY <1>1, <2>1, MapsAreFunctions
  <2> QED BY <2>1, <2>2, MapsAreFunctions
<1>6. map[i] = wd /\ \A j \in DOMAIN n.watched : map[j] = n.watched[j] OBVIOUS
<1>7. m \in InotifySet /\ m.watchers = n.watchers /\ m.wds = wd /\ m.watched = map /\ m.queue = n.queue
  <2>1. wd \in Nat BY <1>1
  <2> HIDE DEF wd, map
  <2> QED BY <1>1, <1>5, <2>1, Zenon DEF InotifySet
<1>8. NewWatcher(n, path) \in WatcherSet
  <2>1. Tag(path) \in {"directory", "file", "realpath"} BY DEF Tag
  <2> QED BY <1>1, <1>2, <2>1 DEF NewWatcher, WatcherSet
<1>9. ASSUME k \in InotifySet, k.watchers = n.watchers
      PROVE  /\ r \in InotifySet /\ r.wds = k.wds /\ r.watched = k.watched /\ r.queue = k.queue
             /\ r.watchers = (n.watchers \ Replaced(n, path)) \cup {NewWatcher(n, path)}
  <2>1. {v \in k.watchers : v.path # path} = n.watchers \ Replaced(n, path)
    BY <1>9, Zenon DEF Replaced
  <2>2. {v \in k.watchers : v.path # path} \cup {NewWatcher(n, path)} \in SUBSET WatcherSet
    BY <1>1, <1>8, <1>9, Zenon
  <2> HIDE DEF k, r
  <2> QED BY <1>3, <1>9, <2>1, <2>2, Zenon DEF InotifySet
<1> HIDE DEF map, r
<1>10. CASE stale = {}
  <2>1. k = m BY <1>10
  <2>2. Lost(n, path) = {} BY <1>4, <1>10 DEF Lost
  <2>3. k \in InotifySet /\ k.watchers = n.watchers /\ k.wds = wd /\ k.watched = map /\ k.queue = n.queue
    <3> HIDE DEF m, k
    <3> QED BY <1>7, <2>1, Zenon
  <2> HIDE DEF k
  <2> QED BY <1>5, <1>6, <1>9, <2>2, <2>3, Zenon DEF Rewatched, r
<1>11. CASE stale # {}
  <2>1. PICK v \in stale : v = CHOOSE w \in stale : TRUE BY <1>11
  <2>2. stale = {v} BY <2>1, <1>4 DEF Replaced, Fits, Watchers
  <2>3. v.wd \in Nat /\ v.wd # wd BY <1>1, <2>1 DEF WatcherSet
  <2>4. k = Unwatched(m, v.wd) BY <1>11, <2>1
  <2>5. Ended(m, k, v.wd) /\ k.queue \in {m.queue, Append(m.queue, Ev(v.wd, "IGNORED"))}
    <3> HIDE DEF m, k
    <3>1. Ended(m, k, v.wd) BY <1>7, <2>3, <2>4, UnwatchedEnds, Zenon
    <3>2. k.queue = IF \E j \in DOMAIN m.watched : m.watched[j] = v.wd
                    THEN Append(m.queue, Ev(v.wd, "IGNORED")) ELSE m.queue
      BY <1>7, <2>3, <2>4, UnwatchedEnds, Zenon
    <3> QED BY <3>1, <3>2
  <2>6. Lost(n, path) = {j \in DOMAIN n.watched : n.watched[j] = v.wd}
    BY <1>4, <2>2 DEF Lost
  <2>7. DOMAIN k.watched = (DOMAIN n.watched \ Lost(n, path)) \cup {i}
    <3> HIDE DEF m, k, wd
    <3> QED BY <1>5, <1>6, <1>7, <2>3, <2>5, <2>6 DEF Ended
  <2>8. k.watched[i] = wd /\ \A j \in DOMAIN n.watched \ Lost(n, path) : k.watched[j] = n.watched[j]
    <3> HIDE DEF m, k
    <3> QED BY <1>6, <1>7, <2>5, <2>7, Zenon DEF Ended
  <2>9. k \in InotifySet /\ k.watchers = n.watchers /\ k.wds = wd
    BY <1>7, <2>5 DEF Ended
  <2>10. v \in Replaced(n, path) BY <1>4, <2>1
  <2> HIDE DEF k
  <2> QED BY <1>7, <1>9, <2>5, <2>7, <2>8, <2>9, <2>10 DEF Rewatched, r
<1> QED BY <1>10, <1>11

(* An event that was not there: what it must say for Events to remain.     *)
LEMMA NoSuchEvent ==
  ASSUME NEW q \in Seq(EventSet), NEW g, NEW d, ~Has(q, g)
  PROVE  Before(q, g, d)
BY DEF Has, Before

(* The new watch fits: its descriptor has never been used, so no event     *)
(* that is queued is about it.                                             *)
LEMMA RewatchedIsSound ==
  ASSUME NEW n, NEW r, NEW paths, NEW t, PathMap(paths), Fits(n, paths, t),
         NEW i \in DOMAIN paths, i \notin DOMAIN n.watched,
         Rewatched(n, r, paths[i], i), paths[i] = File \/ Ends(n)
  PROVE  Sound(r, paths, t)
<1> DEFINE path == paths[i]
           new == NewWatcher(n, path)
<1>1. n \in InotifySet /\ n.watched \in Maps /\ n.wds \in Nat /\ n.watchers \subseteq WatcherSet
      /\ n.queue \in Seq(EventSet)
  BY DEF Fits, InotifySet
<1>2. i \in Nat /\ i # 0 /\ path \in {File, i} /\ path \in Int /\ path # Directory
  BY DEF PathMap, File, Directory
<1>3. new.path = path /\ new.wd = n.wds + 1 /\ new.tag = Tag(path) BY DEF NewWatcher
<1> HIDE DEF new
<1>4. r.watchers = {w \in n.watchers : w.path # path} \cup {new} /\ r.wds = n.wds + 1
  BY Zenon DEF Rewatched, Replaced, new
<1>5. /\ DOMAIN r.watched = (DOMAIN n.watched \ Lost(n, path)) \cup {i}
      /\ r.watched[i] = n.wds + 1
      /\ \A j \in DOMAIN n.watched \ Lost(n, path) : r.watched[j] = n.watched[j]
  BY DEF Rewatched
<1>6. \A j \in DOMAIN n.watched : n.watched[j] \in 1..n.wds BY DEF Fits, Watches
<1>7. \A w \in n.watchers : w.wd \in 0..n.wds /\ (w.wd = 0 <=> w.path = Directory)
  BY DEF Fits, Watchers
<1>8. \A w1, w2 \in n.watchers : w1.path = w2.path \/ w1.wd = w2.wd => w1 = w2
  BY DEF Fits, Watchers
<1>9. Watches(r, paths)
  <2>1. ASSUME NEW j \in DOMAIN n.watched \ Lost(n, path)
        PROVE  \E w \in r.watchers : w.path = paths[j] /\ w.wd = n.watched[j]
    <3>1. PICK w \in n.watchers : w.path = paths[j] /\ w.wd = n.watched[j]
      BY DEF Fits, Watches
    <3>2. w.path # path BY <2>1, <3>1 DEF Lost, Replaced
    <3> QED BY <1>4, <3>1, <3>2
  <2>2. \E w \in r.watchers : w.path = path /\ w.wd = n.wds + 1 BY <1>3, <1>4
  <2>3. ASSUME NEW j \in DOMAIN r.watched
        PROVE  /\ j \in DOMAIN paths /\ r.watched[j] \in 1..r.wds
               /\ \E w \in r.watchers : w.path = paths[j] /\ w.wd = r.watched[j]
    <3>1. CASE j = i BY <1>1, <1>4, <1>5, <2>2, <3>1
    <3>2. CASE j # i
      <4>1. j \in DOMAIN n.watched \ Lost(n, path) /\ r.watched[j] = n.watched[j] BY <1>5, <3>2
      <4>2. j \in DOMAIN paths BY <4>1 DEF Fits, Watches
      <4>3. r.watched[j] \in 1..r.wds BY <1>1, <1>4, <1>6, <4>1
      <4> QED BY <2>1, <4>1, <4>2, <4>3
    <3> QED BY <3>1, <3>2
  <2>4. ASSUME NEW j \in DOMAIN r.watched, NEW k \in DOMAIN r.watched, r.watched[j] = r.watched[k]
        PROVE  j = k
    <3>1. \A l \in DOMAIN r.watched : l # i => l \in DOMAIN n.watched /\ r.watched[l] = n.watched[l]
      BY <1>5
    <3>2. \A l \in DOMAIN r.watched : l # i => r.watched[l] # n.wds + 1
      BY <1>1, <1>6, <3>1
    <3> QED BY <1>5, <2>4, <3>1, <3>2 DEF Fits, Watches
  <2> QED BY <2>3, <2>4 DEF Watches
<1>10. Watchers(r, paths, t)
  <2>1. ASSUME NEW w \in r.watchers
        PROVE  /\ w.wd \in 0..r.wds /\ w.tag = Tag(w.path) /\ (w.wd = 0 <=> w.path = Directory)
               /\ w.path \notin {Directory, File} => w.path \in DOMAIN paths /\ paths[w.path] = w.path
               /\ w.path = t /\ t # File => t \in DOMAIN r.watched /\ r.watched[t] = w.wd
    <3>1. CASE w = new
      <4>1. w.wd \in 0..r.wds /\ (w.wd = 0 <=> w.path = Directory)
        BY <1>1, <1>2, <1>3, <1>4, <3>1
      <4>2. w.path # File => w.path = i BY <1>2, <1>3, <3>1
      <4> QED BY <1>3, <1>5, <3>1, <4>1, <4>2
    <3>2. CASE w \in n.watchers /\ w.path # path
      <4>1. w.wd \in 0..r.wds BY <1>1, <1>4, <1>7, <3>2
      <4>2. ASSUME w.path = t, t # File PROVE t \in DOMAIN r.watched /\ r.watched[t] = w.wd
        <5>1. t \in DOMAIN n.watched /\ n.watched[t] = w.wd BY <3>2, <4>2 DEF Fits, Watchers
        <5>2. t \notin Lost(n, path) BY <1>8, <3>2, <5>1 DEF Lost, Replaced
        <5> QED BY <1>5, <5>1, <5>2
      <4>3. /\ w.tag = Tag(w.path) /\ (w.wd = 0 <=> w.path = Directory)
            /\ w.path \notin {Directory, File} => w.path \in DOMAIN paths /\ paths[w.path] = w.path
        BY <3>2 DEF Fits, Watchers
      <4> QED BY <4>1, <4>2, <4>3
    <3> QED BY <1>4, <3>1, <3>2
  <2>2. ASSUME NEW w1 \in r.watchers, NEW w2 \in r.watchers, w1.path = w2.path \/ w1.wd = w2.wd
        PROVE  w1 = w2
    <3>1. \A w \in n.watchers : w.wd # n.wds + 1 BY <1>1, <1>7
    <3> QED BY <1>3, <1>4, <1>8, <2>2, <3>1
  <2> QED BY <2>1, <2>2 DEF Watchers
<1>11. \A w \in Replaced(n, path) : Ev(w.wd, "IGNORED") \in EventSet
  BY <1>1 DEF Replaced, Ev, EventSet, WatcherSet, Masks
<1>12. /\ \A e : Has(r.queue, e) =>
              Has(n.queue, e) \/ \E w \in Replaced(n, path) : e = Ev(w.wd, "IGNORED")
       /\ \A g, d : Before(n.queue, g, d) /\ (\A w \in Replaced(n, path) : Ev(w.wd, "IGNORED") # g)
              => Before(r.queue, g, d)
  <2>1. CASE r.queue = n.queue BY <2>1, Zenon
  <2>2. CASE \E w \in Replaced(n, path) : r.queue = Append(n.queue, Ev(w.wd, "IGNORED"))
    <3>1. PICK w \in Replaced(n, path) : r.queue = Append(n.queue, Ev(w.wd, "IGNORED")) BY <2>2, Zenon
    <3> DEFINE e == Ev(w.wd, "IGNORED")
    <3>2. e \in EventSet BY <1>11
    <3> HIDE DEF e
    <3>3. /\ \A d : Has(Append(n.queue, e), d) <=> Has(n.queue, d) \/ d = e
          /\ \A g, d : Before(n.queue, g, d) /\ e # g => Before(Append(n.queue, e), g, d)
      BY <1>1, <3>2, QueueAppend, Zenon
    <3>4. r.queue = Append(n.queue, e) BY <3>1 DEF e
    <3> QED BY <3>3, <3>4, Zenon DEF e
  <2> QED BY <2>1, <2>2, Zenon DEF Rewatched
<1>13. Events(r)
  <2>1. ASSUME NEW e \in EventSet, Has(r.queue, e)
        PROVE  /\ e.wd \in 0..r.wds
               /\ e.wd = 0 => e.mask \in {"CREATE", "DELETE", "DELETE_SELF"}
               /\ e.wd # 0 => e.mask \in {"MODIFY", "MOVE_SELF", "DELETE_SELF", "IGNORED"}
               /\ e.mask \in {"DELETE_SELF", "IGNORED"} => \A j \in DOMAIN r.watched : r.watched[j] # e.wd
    <3>1. CASE Has(n.queue, e)
      <4>1. /\ e.wd \in 0..n.wds
            /\ e.wd = 0 => e.mask \in {"CREATE", "DELETE", "DELETE_SELF"}
            /\ e.wd # 0 => e.mask \in {"MODIFY", "MOVE_SELF", "DELETE_SELF", "IGNORED"}
            /\ e.mask \in {"DELETE_SELF", "IGNORED"} => \A j \in DOMAIN n.watched : n.watched[j] # e.wd
        BY <3>1 DEF Fits, Events
      <4>2. e.wd \in 0..r.wds /\ e.wd # n.wds + 1 BY <1>1, <1>4, <4>1
      <4> QED BY <1>5, <4>1, <4>2
    <3>2. CASE \E w \in Replaced(n, path) : e = Ev(w.wd, "IGNORED")
      <4>1. PICK w \in Replaced(n, path) : e = Ev(w.wd, "IGNORED") BY <3>2
      <4>2. e.wd = w.wd /\ e.mask = "IGNORED" BY <4>1 DEF Ev
      <4>3. w \in n.watchers /\ w.path = path BY DEF Replaced
      <4>4. w.wd \in 0..r.wds /\ w.wd # n.wds + 1 /\ w.wd # 0 BY <1>1, <1>2, <1>4, <1>7, <4>3
      <4>5. \A j \in DOMAIN r.watched : r.watched[j] # w.wd BY <1>5, <4>4 DEF Lost
      <4> QED BY <4>2, <4>4, <4>5
    <3> QED BY <1>12, <2>1, <3>1, <3>2, Zenon
  <2> QED BY <2>1 DEF Events
<1>14. Ends(r)
  <2>2. ASSUME NEW w \in r.watchers, w.path = File
        PROVE  Before(r.queue, Ev(w.wd, "IGNORED"), Ev(w.wd, "DELETE_SELF"))
    <3>1. CASE w = new
      <4>1. \A e \in EventSet : Has(r.queue, e) => e.wd # n.wds + 1
        <5>1. \A e \in EventSet : Has(n.queue, e) => e.wd # n.wds + 1
          BY <1>1 DEF Fits, Events
        <5>2. \A v \in Replaced(n, path) : Ev(v.wd, "IGNORED").wd # n.wds + 1
          BY <1>1, <1>7 DEF Replaced, Ev
        <5> QED BY <1>12, <5>1, <5>2, Zenon
      <4>2. Ev(w.wd, "IGNORED") \in EventSet /\ Ev(w.wd, "IGNORED").wd = n.wds + 1
        BY <1>1, <1>3, <3>1 DEF Ev, EventSet, Masks
      <4>3. r.queue \in Seq(EventSet) BY DEF Rewatched, InotifySet
      <4> QED BY <4>1, <4>2, <4>3, NoSuchEvent
    <3>2. CASE w \in n.watchers /\ w.path # path
      <4>1. Before(n.queue, Ev(w.wd, "IGNORED"), Ev(w.wd, "DELETE_SELF"))
        BY <2>2, <3>2 DEF Ends
      <4>2. \A v \in Replaced(n, path) : Ev(v.wd, "IGNORED") # Ev(w.wd, "IGNORED")
        BY <1>8, <3>2 DEF Replaced, Ev
      <4> QED BY <1>12, <4>1, <4>2, Zenon
    <3> QED BY <1>4, <3>1, <3>2
  <2> QED BY <2>2 DEF Ends
<1> QED BY <1>9, <1>10, <1>13, <1>14 DEF Sound, Fits, Rewatched

(* What is not lost: watchers, watches, events, and the order of events.   *)
Keeps(n, m) ==
  /\ n.watchers \subseteq m.watchers /\ DOMAIN n.watched \subseteq DOMAIN m.watched
  /\ \A e : Has(n.queue, e) => Has(m.queue, e)
  /\ After(n.queue, DELETE, CREATE) => After(m.queue, DELETE, CREATE)

KeepsOthers(n, m, path) ==
  /\ \A w \in n.watchers : w.path # path => w \in m.watchers
  /\ \A e : Has(n.queue, e) => Has(m.queue, e)
  /\ After(n.queue, DELETE, CREATE) => After(m.queue, DELETE, CREATE)

(* An event that is no DELETE of the directory loses nothing and keeps     *)
(* DELETE before CREATE.                                                   *)
LEMMA EndIsNoDelete ==
  ASSUME NEW n \in InotifySet, NEW q, NEW wd \in Nat, NEW mask \in Masks \ {"DELETE"},
         q = Append(n.queue, Ev(wd, mask))
  PROVE  /\ \A e : Has(n.queue, e) => Has(q, e)
         /\ After(n.queue, DELETE, CREATE) => After(q, DELETE, CREATE)
<1>1. n.queue \in Seq(EventSet) BY DEF InotifySet
<1>2. Ev(wd, mask) \in EventSet /\ Ev(wd, mask) # DELETE BY DEF Ev, EventSet, DELETE
<1> QED BY <1>1, <1>2, QueueAppend, Zenon

(* AddWatcher: afterwards the inode is watched.                            *)
LEMMA AddWatcherWatches ==
  ASSUME NEW n, NEW paths, NEW t, PathMap(paths), Fits(n, paths, t), NEW i \in DOMAIN paths,
         Ends(n) \/ (paths[i] = File /\ i \notin DOMAIN n.watched)
  PROVE  LET m == AddWatcher(n, paths[i], i, Tag(paths[i]))
         IN  /\ Sound(m, paths, t) /\ i \in DOMAIN m.watched
             /\ KeepsOthers(n, m, paths[i])
             /\ paths[i] = t /\ t # File => Keeps(n, m)
<1> DEFINE m == AddWatcher(n, paths[i], i, Tag(paths[i]))
<1> HIDE DEF m
<1>1. CASE i \in DOMAIN n.watched
  <2>1. m = n BY <1>1, AddKnownWatcher DEF m
  <2>2. Sound(m, paths, t) BY <1>1, <2>1 DEF Sound
  <2>3. KeepsOthers(n, m, paths[i]) BY <2>1 DEF KeepsOthers
  <2>4. Keeps(n, m) BY <2>1 DEF Keeps
  <2> QED BY <1>1, <2>1, <2>2, <2>3, <2>4 DEF m
<1>2. CASE i \notin DOMAIN n.watched
  <2>1. Rewatched(n, m, paths[i], i) BY <1>2, AddNewWatcher, Zenon DEF m
  <2>2. Sound(m, paths, t) BY <1>2, <2>1, RewatchedIsSound, Zenon
  <2>3. n \in InotifySet /\ n.watchers \subseteq WatcherSet BY DEF Fits, InotifySet
  <2>4. /\ \A e : Has(n.queue, e) => Has(m.queue, e)
        /\ After(n.queue, DELETE, CREATE) => After(m.queue, DELETE, CREATE)
    <3>1. CASE m.queue = n.queue BY <3>1, Zenon
    <3>2. CASE \E w \in Replaced(n, paths[i]) : m.queue = Append(n.queue, Ev(w.wd, "IGNORED"))
      <4>1. PICK w \in Replaced(n, paths[i]) : m.queue = Append(n.queue, Ev(w.wd, "IGNORED"))
        BY <3>2, Zenon
      <4>2. w.wd \in Nat BY <2>3 DEF Replaced, WatcherSet
      <4>3. "IGNORED" \in Masks \ {"DELETE"} BY DEF Masks
      <4> QED BY <2>3, <4>1, <4>2, <4>3, EndIsNoDelete, Zenon
    <3> QED BY <2>1, <3>1, <3>2, Zenon DEF Rewatched
  <2>5. KeepsOthers(n, m, paths[i])
    BY <2>1, <2>4, Zenon DEF KeepsOthers, Rewatched, Replaced
  <2>6. i \in DOMAIN m.watched BY <2>1, Zenon DEF Rewatched
  <2>7. ASSUME paths[i] = t, t # File PROVE Keeps(n, m)
    <3>1. paths[i] \in {File, i} BY DEF PathMap
    <3>2. Replaced(n, paths[i]) = {}
      BY <1>2, <2>7, <3>1 DEF Fits, Watchers, Replaced
    <3>3. Lost(n, paths[i]) = {} BY <3>2 DEF Lost
    <3> QED BY <2>1, <2>4, <3>2, <3>3, Zenon DEF Keeps, Rewatched
  <2> QED BY <2>2, <2>5, <2>6, <2>7 DEF m
<1> QED BY <1>1, <1>2

(* RemoveWatcher of a watcher other than the directory's.                  *)
LEMMA RemoveWatcherRemoves ==
  ASSUME NEW n, NEW paths, NEW t, PathMap(paths), Fits(n, paths, t),
         NEW w \in n.watchers, w.path # Directory, w.path = File \/ Ends(n)
  PROVE  LET m == RemoveWatcher(n, {w})
         IN  Sound(m, paths, t) /\ KeepsOthers(n, m, w.path)
<1> DEFINE k == Unwatched(n, w.wd)
           m == RemoveWatcher(n, {w})
<1>1. n \in InotifySet /\ n.queue \in Seq(EventSet) /\ w \in WatcherSet /\ w.wd \in Nat /\ n.wds \in Nat
  BY DEF Fits, InotifySet, WatcherSet
<1>2. m = [k EXCEPT !.watchers = @ \ {w}] BY DEF RemoveWatcher
<1>3. Ended(n, k, w.wd) BY <1>1, UnwatchedEnds, Zenon
<1>4. k.queue = n.queue \/ k.queue = Append(n.queue, Ev(w.wd, "IGNORED"))
  <2>1. k.queue = IF \E i \in DOMAIN n.watched : n.watched[i] = w.wd
                  THEN Append(n.queue, Ev(w.wd, "IGNORED")) ELSE n.queue
    BY <1>1, UnwatchedEnds, Zenon
  <2> QED BY <2>1
<1>5. /\ m \in InotifySet /\ m.watchers = n.watchers \ {w} /\ m.wds = n.wds
      /\ m.watched = k.watched /\ m.queue = k.queue
  <2>1. k.watchers \ {w} \in SUBSET WatcherSet BY <1>3 DEF Ended, InotifySet
  <2> HIDE DEF k, m
  <2> QED BY <1>2, <1>3, <2>1, Zenon DEF Ended, InotifySet
<1>6. /\ DOMAIN m.watched = {j \in DOMAIN n.watched : n.watched[j] # w.wd}
      /\ \A j \in DOMAIN m.watched : m.watched[j] = n.watched[j]
  <2> HIDE DEF k, m
  <2> QED BY <1>3, <1>5, Zenon DEF Ended
<1>7. m.queue = n.queue \/ m.queue = Append(n.queue, Ev(w.wd, "IGNORED"))
  <2> HIDE DEF k, m
  <2> QED BY <1>4, <1>5, Zenon
<1> HIDE DEF k, m
<1>8. Ev(w.wd, "IGNORED") \in EventSet BY <1>1 DEF Ev, EventSet, Masks
<1>9. \A w1, w2 \in n.watchers : w1.path = w2.path \/ w1.wd = w2.wd => w1 = w2
  BY DEF Fits, Watchers
<1>10. /\ \A e : Has(m.queue, e) => Has(n.queue, e) \/ e = Ev(w.wd, "IGNORED")
       /\ \A g, d : Before(n.queue, g, d) /\ Ev(w.wd, "IGNORED") # g => Before(m.queue, g, d)
  <2>1. CASE m.queue = n.queue BY <2>1, Zenon
  <2>2. CASE m.queue = Append(n.queue, Ev(w.wd, "IGNORED"))
    BY <1>1, <1>8, <2>2, QueueAppend
  <2> QED BY <1>7, <2>1, <2>2
<1>11. Watches(m, paths)
  <2>1. ASSUME NEW j \in DOMAIN m.watched
        PROVE  \E v \in m.watchers : v.path = paths[j] /\ v.wd = m.watched[j]
    <3>1. j \in DOMAIN n.watched /\ m.watched[j] = n.watched[j] /\ n.watched[j] # w.wd BY <1>6
    <3>2. PICK v \in n.watchers : v.path = paths[j] /\ v.wd = n.watched[j]
      BY <3>1 DEF Fits, Watches
    <3> QED BY <1>5, <3>1, <3>2
  <2> QED BY <1>5, <1>6, <2>1 DEF Fits, Watches
<1>12. Watchers(m, paths, t)
  <2>1. ASSUME NEW v \in m.watchers, v.path = t, t # File
        PROVE  t \in DOMAIN m.watched /\ m.watched[t] = v.wd
    <3>1. v \in n.watchers /\ v # w BY <1>5
    <3>2. t \in DOMAIN n.watched /\ n.watched[t] = v.wd BY <2>1, <3>1 DEF Fits, Watchers
    <3> QED BY <1>6, <1>9, <3>1, <3>2
  <2> QED BY <1>5, <2>1 DEF Fits, Watchers
<1>13. Events(m)
  <2>1. w.wd \in 0..n.wds /\ w.wd # 0 BY DEF Fits, Watchers
  <2>2. Ev(w.wd, "IGNORED").wd = w.wd /\ Ev(w.wd, "IGNORED").mask = "IGNORED" BY DEF Ev
  <2>3. \A j \in DOMAIN m.watched : m.watched[j] # w.wd BY <1>6
  <2>4. ASSUME NEW e \in EventSet, Has(m.queue, e)
        PROVE  /\ e.wd \in 0..m.wds
               /\ e.wd = 0 => e.mask \in {"CREATE", "DELETE", "DELETE_SELF"}
               /\ e.wd # 0 => e.mask \in {"MODIFY", "MOVE_SELF", "DELETE_SELF", "IGNORED"}
               /\ e.mask \in {"DELETE_SELF", "IGNORED"} => \A j \in DOMAIN m.watched : m.watched[j] # e.wd
    <3>1. CASE Has(n.queue, e) BY <1>5, <1>6, <3>1 DEF Fits, Events
    <3>2. CASE e = Ev(w.wd, "IGNORED") BY <1>5, <2>1, <2>2, <2>3, <3>2
    <3> QED BY <1>10, <2>4, <3>1, <3>2, Zenon
  <2> QED BY <2>4 DEF Events
<1>14. Ends(m)
  <2>1. SUFFICES ASSUME NEW v \in m.watchers, v.path = File
                 PROVE  Before(m.queue, Ev(v.wd, "IGNORED"), Ev(v.wd, "DELETE_SELF"))
    BY DEF Ends
  <2>2. v \in n.watchers /\ v # w BY <1>5
  <2>3. w.path # File BY <1>9, <2>1, <2>2
  <2>4. Ev(w.wd, "IGNORED") # Ev(v.wd, "IGNORED") BY <1>9, <2>2 DEF Ev
  <2> QED BY <1>10, <2>1, <2>2, <2>3, <2>4, Zenon DEF Ends
<1>15. KeepsOthers(n, m, w.path)
  <2>1. "IGNORED" \in Masks \ {"DELETE"} BY DEF Masks
  <2>2. /\ \A e : Has(n.queue, e) => Has(m.queue, e)
        /\ After(n.queue, DELETE, CREATE) => After(m.queue, DELETE, CREATE)
    BY <1>1, <1>7, <2>1, EndIsNoDelete, Zenon
  <2> QED BY <1>5, <2>2, Zenon DEF KeepsOthers
<1> QED BY <1>5, <1>11, <1>12, <1>13, <1>14, <1>15, Zenon DEF Sound, Fits, m

(* An event that tells nothing of the end of a watch.                      *)
LEMMA ToldIsSound ==
  ASSUME NEW n, NEW m, NEW paths, NEW t, Sound(n, paths, t), NEW e \in EventSet, Told(n, m, e),
         e.wd = 0 => e.mask \in {"CREATE", "DELETE", "DELETE_SELF"},
         e.wd # 0 => e.wd \in 1..n.wds /\ e.mask \in {"MODIFY", "MOVE_SELF"}
  PROVE  Sound(m, paths, t)
<1>1. n.queue \in Seq(EventSet) /\ n.wds \in Nat BY DEF Sound, Fits, InotifySet
<1>2. m.queue = Append(n.queue, e) /\ m.watchers = n.watchers /\ m.watched = n.watched /\ m.wds = n.wds
  BY DEF Told
<1>3. /\ \A d : Has(m.queue, d) <=> Has(n.queue, d) \/ d = e
      /\ \A g, d : Before(n.queue, g, d) /\ e # g => Before(m.queue, g, d)
  BY <1>1, <1>2, QueueAppend
<1>4. Watches(m, paths) BY <1>2 DEF Sound, Fits, Watches
<1>5. Watchers(m, paths, t) BY <1>2, Zenon DEF Sound, Fits, Watchers
<1>6. Events(m)
  <2>1. \A j \in DOMAIN n.watched : n.watched[j] # 0 BY <1>1 DEF Sound, Fits, Watches
  <2>2. e.wd \in 0..n.wds BY <1>1 DEF EventSet
  <2>3. \A d \in EventSet : Has(n.queue, d) =>
          /\ d.wd \in 0..n.wds
          /\ d.wd = 0 => d.mask \in {"CREATE", "DELETE", "DELETE_SELF"}
          /\ d.wd # 0 => d.mask \in {"MODIFY", "MOVE_SELF", "DELETE_SELF", "IGNORED"}
          /\ d.mask \in {"DELETE_SELF", "IGNORED"} => \A j \in DOMAIN n.watched : n.watched[j] # d.wd
    BY Zenon DEF Sound, Fits, Events
  <2>4. /\ e.wd = 0 => e.mask \in {"CREATE", "DELETE", "DELETE_SELF"}
        /\ e.wd # 0 => e.mask \in {"MODIFY", "MOVE_SELF", "DELETE_SELF", "IGNORED"}
        /\ e.mask \in {"DELETE_SELF", "IGNORED"} => \A j \in DOMAIN n.watched : n.watched[j] # e.wd
    BY <2>1
  <2> QED BY <1>2, <1>3, <2>2, <2>3, <2>4, Zenon DEF Events
<1>7. Ends(m)
  <2>1. \A w \in n.watchers : e # Ev(w.wd, "IGNORED") BY DEF Ev
  <2> QED BY <1>2, <1>3, <2>1, Zenon DEF Sound, Ends
<1> QED BY <1>4, <1>5, <1>6, <1>7, Zenon DEF Sound, Fits, Told

(* The directory tells of an event, if it is watched.                      *)
LEMMA WithDirTells ==
  ASSUME NEW n, NEW paths, NEW t, Sound(n, paths, t), NEW mask \in {"CREATE", "DELETE", "DELETE_SELF"}
  PROVE  LET m == WithDir(n, mask)
         IN  /\ Sound(m, paths, t) /\ m.watchers = n.watchers /\ m.watched = n.watched
             /\ \A e : Has(n.queue, e) => Has(m.queue, e)
             /\ IF \E w \in n.watchers : w.path = Directory
                THEN /\ Has(m.queue, Ev(0, mask))
                     /\ mask = "CREATE" => After(m.queue, DELETE, CREATE)
                     /\ mask # "DELETE" /\ After(n.queue, DELETE, CREATE)
                          => After(m.queue, DELETE, CREATE)
                ELSE m = n
<1> DEFINE m == WithDir(n, mask)
           e == Ev(0, mask)
<1>1. CASE \E w \in n.watchers : w.path = Directory
  <2>1. n \in InotifySet /\ n.queue \in Seq(EventSet) BY DEF Sound, Fits, InotifySet
  <2>2. mask \in Masks /\ 0 \in Nat BY DEF Masks
  <2>3. m = Queued(n, 0, mask) BY <1>1, Zenon DEF WithDir
  <2>4. Told(n, m, e) BY <2>1, <2>2, <2>3, QueuedTells, Zenon
  <2>5. e \in EventSet /\ e.wd = 0 /\ e.mask = mask /\ (mask # "DELETE" => e # DELETE)
        /\ (mask = "CREATE" => e = CREATE /\ e # DELETE)
    BY <2>2 DEF Ev, EventSet, DELETE, CREATE
  <2> HIDE DEF m, e
  <2>6. Sound(m, paths, t) BY <2>4, <2>5, ToldIsSound
  <2>7. m.queue = Append(n.queue, e) /\ m.watchers = n.watchers /\ m.watched = n.watched
    BY <2>4 DEF Told
  <2>8. /\ \A d : Has(m.queue, d) <=> Has(n.queue, d) \/ d = e
        /\ mask = "CREATE" => After(m.queue, DELETE, CREATE)
        /\ mask # "DELETE" /\ After(n.queue, DELETE, CREATE) => After(m.queue, DELETE, CREATE)
    BY <2>1, <2>5, <2>7, QueueAppend
  <2> QED BY <1>1, <2>6, <2>7, <2>8, Zenon DEF m, e
<1>2. CASE ~\E w \in n.watchers : w.path = Directory
  <2>1. m = n BY <1>2, Zenon DEF WithDir
  <2> QED BY <1>2, <2>1, Zenon
<1> QED BY <1>1, <1>2, Zenon

(* An event of a file is queued, for a watcher that is there.              *)
Known(n, mask) == \E w \in n.watchers : w.wd # 0 /\ Has(n.queue, Ev(w.wd, mask))

(* A file tells of an event, if it is watched, to a watcher that is known. *)
LEMMA WithFileTells ==
  ASSUME NEW n, NEW paths, NEW t, Sound(n, paths, t), NEW mask \in {"MODIFY", "MOVE_SELF"}, NEW i
  PROVE  LET m == WithFile(n, i, mask)
         IN  /\ Sound(m, paths, t) /\ m.watchers = n.watchers /\ m.watched = n.watched
             /\ Keeps(n, m)
             /\ i \in DOMAIN n.watched => Known(m, mask)
<1> DEFINE m == WithFile(n, i, mask)
           e == Ev(n.watched[i], mask)
<1>1. CASE i \in DOMAIN n.watched
  <2>1. n \in InotifySet /\ n.queue \in Seq(EventSet) /\ n.wds \in Nat BY DEF Sound, Fits, InotifySet
  <2>2. mask \in Masks BY DEF Masks
  <2>3. n.watched[i] \in 1..n.wds /\ \E w \in n.watchers : w.wd = n.watched[i]
    BY <1>1, Zenon DEF Sound, Fits, Watches
  <2>4. n.watched[i] \in Nat /\ n.watched[i] # 0 BY <2>1, <2>3
  <2>5. m = Queued(n, n.watched[i], mask) BY <1>1, Zenon DEF WithFile
  <2>6. Told(n, m, e) BY <2>1, <2>2, <2>4, <2>5, QueuedTells, Zenon
  <2>7. e \in EventSet /\ e.wd = n.watched[i] /\ e.mask = mask /\ e # DELETE
    BY <2>2, <2>4 DEF Ev, EventSet, DELETE
  <2> HIDE DEF m, e
  <2>8. Sound(m, paths, t) BY <2>3, <2>4, <2>6, <2>7, ToldIsSound
  <2>9. m.queue = Append(n.queue, e) /\ m.watchers = n.watchers /\ m.watched = n.watched
    BY <2>6 DEF Told
  <2>10. /\ \A d : Has(m.queue, d) <=> Has(n.queue, d) \/ d = e
         /\ After(n.queue, DELETE, CREATE) => After(m.queue, DELETE, CREATE)
    BY <2>1, <2>7, <2>9, QueueAppend
  <2>11. Keeps(n, m) BY <2>9, <2>10, Zenon DEF Keeps
  <2>12. Known(m, mask) BY <2>3, <2>4, <2>9, <2>10, Zenon DEF Known, e
  <2> QED BY <2>8, <2>9, <2>11, <2>12, Zenon DEF m
<1>2. CASE i \notin DOMAIN n.watched
  <2>1. m = n BY <1>2, Zenon DEF WithFile
  <2>2. Keeps(n, m) BY <2>1 DEF Keeps
  <2> QED BY <1>2, <2>1, <2>2, Zenon
<1> QED BY <1>1, <1>2, Zenon

(* An inode ends, other than the present target: its watcher is told.      *)
EndTold(n, m, i) ==
  /\ m.watchers = n.watchers
  /\ \A j \in DOMAIN n.watched : j # i => j \in DOMAIN m.watched
  /\ \A e : Has(n.queue, e) => Has(m.queue, e)
  /\ After(n.queue, DELETE, CREATE) => After(m.queue, DELETE, CREATE)
  /\ i \in DOMAIN n.watched => Known(m, "DELETE_SELF")

(* The kernel tells it when a file is deleted.                             *)
LEMMA DeletedTells ==
  ASSUME NEW n, NEW paths, NEW t, Sound(n, paths, t), NEW i, i # t
  PROVE  Sound(Deleted(n, i), paths, t) /\ EndTold(n, Deleted(n, i), i)
<1> DEFINE m == Deleted(n, i)
           wd == n.watched[i]
           k == WithFile(n, i, "DELETE_SELF")
           d1 == Ev(wd, "DELETE_SELF")
           d2 == Ev(wd, "IGNORED")
<1>1. CASE i \in DOMAIN n.watched
  <2>1. n \in InotifySet /\ n.queue \in Seq(EventSet) /\ n.wds \in Nat BY DEF Sound, Fits, InotifySet
  <2>2. "DELETE_SELF" \in Masks BY DEF Masks
  <2>3. wd \in 1..n.wds /\ \E w \in n.watchers : w.wd = wd
    BY <1>1, Zenon DEF Sound, Fits, Watches
  <2>4. wd \in Nat /\ wd # 0 BY <2>1, <2>3
  <2>5. k = Queued(n, wd, "DELETE_SELF") BY <1>1, Zenon DEF WithFile
  <2>6. Told(n, k, d1) BY <2>1, <2>2, <2>4, <2>5, QueuedTells, Zenon
  <2>7. d1 \in EventSet /\ d1.wd = wd /\ d1.mask = "DELETE_SELF" /\ d1 # DELETE
    BY <2>2, <2>4 DEF Ev, EventSet, DELETE
  <2>8. d2 \in EventSet /\ d2.wd = wd /\ d2.mask = "IGNORED" /\ d2 # DELETE
    BY <2>4 DEF Ev, EventSet, DELETE, Masks
  <2>9. m = Unwatched(k, wd) BY <1>1, Zenon DEF Deleted
  <2> HIDE DEF k
  <2>10. k \in InotifySet /\ k.watched = n.watched /\ k.watchers = n.watchers /\ k.wds = n.wds
         /\ k.queue = Append(n.queue, d1)
    BY <2>6 DEF Told
  <2>11. Ended(k, m, wd) /\ m.queue = Append(k.queue, d2)
    <3>1. Ended(k, m, wd) BY <2>4, <2>9, <2>10, UnwatchedEnds, Zenon
    <3>2. Unwatched(k, wd).queue = IF \E j \in DOMAIN k.watched : k.watched[j] = wd
                                   THEN Append(k.queue, d2) ELSE k.queue
      <4> HIDE DEF wd
      <4> QED BY <2>4, <2>10, UnwatchedEnds, Zenon
    <3>3. \E j \in DOMAIN k.watched : k.watched[j] = wd BY <1>1, <2>10
    <3> HIDE DEF m, d2
    <3> QED BY <2>9, <3>1, <3>2, <3>3
  <2> HIDE DEF m, d1, d2
  <2>12. k.queue \in Seq(EventSet) BY <2>10, Zenon DEF InotifySet
  <2>13. /\ m \in InotifySet /\ m.watchers = n.watchers /\ m.wds = n.wds
         /\ DOMAIN m.watched = {j \in DOMAIN n.watched : n.watched[j] # wd}
         /\ \A j \in DOMAIN m.watched : m.watched[j] = n.watched[j]
    <3> HIDE DEF wd
    <3> QED BY <2>10, <2>11, Zenon DEF Ended
  <2>14. DOMAIN m.watched = DOMAIN n.watched \ {i}
    BY <1>1, <2>13 DEF Sound, Fits, Watches
  <2>15. \A e : Has(k.queue, e) <=> Has(n.queue, e) \/ e = d1 BY <2>1, <2>7, <2>10, QueueAppend
  <2>16. \A e : Has(m.queue, e) <=> Has(k.queue, e) \/ e = d2 BY <2>8, <2>11, <2>12, QueueAppend
  <2>17. After(n.queue, DELETE, CREATE) => After(m.queue, DELETE, CREATE)
    <3>1. After(n.queue, DELETE, CREATE) => After(k.queue, DELETE, CREATE)
      BY <2>1, <2>7, <2>10, QueueAppend
    <3>2. After(k.queue, DELETE, CREATE) => After(m.queue, DELETE, CREATE)
      BY <2>8, <2>11, <2>12, QueueAppend
    <3> QED BY <3>1, <3>2
  <2>18. Watches(m, paths) BY <2>13 DEF Sound, Fits, Watches
  <2>19. Watchers(m, paths, t) BY <2>13, <2>14 DEF Sound, Fits, Watchers
  <2>20. Events(m)
    <3>1. \A j \in DOMAIN m.watched : m.watched[j] # wd BY <2>13
    <3>2. ASSUME NEW e \in EventSet, Has(m.queue, e)
          PROVE  /\ e.wd \in 0..m.wds
                 /\ e.wd = 0 => e.mask \in {"CREATE", "DELETE", "DELETE_SELF"}
                 /\ e.wd # 0 => e.mask \in {"MODIFY", "MOVE_SELF", "DELETE_SELF", "IGNORED"}
                 /\ e.mask \in {"DELETE_SELF", "IGNORED"} => \A j \in DOMAIN m.watched : m.watched[j] # e.wd
      <4>1. CASE Has(n.queue, e) BY <2>13, <4>1 DEF Sound, Fits, Events
      <4>2. CASE e = d1 BY <2>1, <2>3, <2>4, <2>7, <2>13, <3>1, <4>2
      <4>3. CASE e = d2 BY <2>1, <2>3, <2>4, <2>8, <2>13, <3>1, <4>3
      <4> QED BY <2>15, <2>16, <3>2, <4>1, <4>2, <4>3, Zenon
    <3> QED BY <3>2 DEF Events
  <2>21. Ends(m)
    <3>1. SUFFICES ASSUME NEW w \in n.watchers, w.path = File
                   PROVE  Before(m.queue, Ev(w.wd, "IGNORED"), Ev(w.wd, "DELETE_SELF"))
      BY <2>13 DEF Ends
    <3>2. Before(n.queue, Ev(w.wd, "IGNORED"), Ev(w.wd, "DELETE_SELF")) BY <3>1 DEF Sound, Ends
    <3>3. d1 # Ev(w.wd, "IGNORED") BY DEF d1, Ev
    <3>4. Before(k.queue, Ev(w.wd, "IGNORED"), Ev(w.wd, "DELETE_SELF"))
      BY <2>1, <2>7, <2>10, <3>2, <3>3, QueueAppend
    <3>5. d2 # Ev(w.wd, "IGNORED") \/ Has(k.queue, Ev(w.wd, "DELETE_SELF"))
      <4>1. w.wd = wd => Ev(w.wd, "DELETE_SELF") = d1 BY DEF d1
      <4>2. w.wd # wd => d2 # Ev(w.wd, "IGNORED") BY DEF d2, Ev
      <4> QED BY <2>15, <4>1, <4>2
    <3> QED BY <2>8, <2>11, <2>12, <3>4, <3>5, QueueAppend
  <2>22. Sound(m, paths, t) BY <2>13, <2>18, <2>19, <2>20, <2>21 DEF Sound, Fits
  <2>23. Known(m, "DELETE_SELF")
    <3>1. PICK w \in n.watchers : w.wd = wd BY <2>3
    <3>2. Ev(w.wd, "DELETE_SELF") = d1 BY <3>1 DEF d1
    <3> QED BY <2>4, <2>13, <2>15, <2>16, <3>1, <3>2, Zenon DEF Known
  <2>24. \A e : Has(n.queue, e) => Has(m.queue, e) BY <2>15, <2>16, Zenon
  <2>25. \A j \in DOMAIN n.watched : j # i => j \in DOMAIN m.watched BY <2>14
  <2>26. EndTold(n, m, i) BY <2>13, <2>17, <2>23, <2>24, <2>25, Zenon DEF EndTold
  <2> QED BY <2>22, <2>26, Zenon DEF m
<1>2. CASE i \notin DOMAIN n.watched
  <2>1. m = n BY <1>2, Zenon DEF Deleted
  <2>2. EndTold(n, n, i) BY <1>2, Zenon DEF EndTold
  <2> QED BY <2>1, <2>2, Zenon
<1> QED BY <1>1, <1>2, Zenon

(* The first event is taken.                                               *)
TakenOf(n) == [n EXCEPT !.queue = Tail(@)]

(* After an event was read, what is left fits; the end of the file's watch *)
(* is read only after its cause.                                           *)
LEMMA TakenFits ==
  ASSUME NEW n, NEW paths, NEW t, Sound(n, paths, t), n.queue # <<>>
  PROVE  LET m == TakenOf(n)
             e == Head(n.queue)
         IN  /\ Fits(m, paths, t) /\ m.watchers = n.watchers /\ m.watched = n.watched
             /\ e \in EventSet /\ Has(n.queue, e)
             /\ \A w \in n.watchers : w.path = File => e # Ev(w.wd, "IGNORED")
             /\ \A d : Has(n.queue, d) /\ d # e => Has(m.queue, d)
             /\ After(n.queue, DELETE, CREATE) => After(m.queue, DELETE, CREATE)
             /\ After(n.queue, DELETE, CREATE) /\ e = DELETE => Has(m.queue, CREATE)
             /\ (\A w \in n.watchers : w.path = File => e # Ev(w.wd, "DELETE_SELF")) => Ends(m)
<1> DEFINE m == TakenOf(n)
           e == Head(n.queue)
<1>1. n \in InotifySet /\ n.queue \in Seq(EventSet) BY DEF Sound, Fits, InotifySet
<1>2. /\ Tail(n.queue) \in Seq(EventSet) /\ e \in EventSet
      /\ \A d : Has(n.queue, d) <=> Has(Tail(n.queue), d) \/ d = e
      /\ \A d, c : After(n.queue, d, c) => After(Tail(n.queue), d, c)
      /\ \A g, d : Before(n.queue, g, d) /\ e # d => Before(Tail(n.queue), g, d)
  BY <1>1, QueueTail, Zenon
<1>3. /\ m \in InotifySet /\ m.queue = Tail(n.queue)
      /\ m.watchers = n.watchers /\ m.watched = n.watched /\ m.wds = n.wds
  BY <1>1, <1>2, Zenon DEF TakenOf, InotifySet
<1>4. e = n.queue[1] /\ Len(n.queue) \in Nat /\ Len(n.queue) >= 1 BY <1>1
<1> HIDE DEF m, e
<1>5. Watches(m, paths) BY <1>3 DEF Sound, Fits, Watches
<1>6. Watchers(m, paths, t) BY <1>3, Zenon DEF Sound, Fits, Watchers
<1>7. Events(m) BY <1>2, <1>3, Zenon DEF Sound, Fits, Events
<1>8. Fits(m, paths, t) BY <1>3, <1>5, <1>6, <1>7 DEF Fits
<1>9. \A w \in n.watchers : w.path = File => e # Ev(w.wd, "IGNORED")
  <2>1. \A g, d : Before(n.queue, g, d) => n.queue[1] # g BY <1>4 DEF Before
  <2> QED BY <1>4, <2>1 DEF Sound, Ends
<1>10. ASSUME After(n.queue, DELETE, CREATE), e = DELETE PROVE Has(m.queue, CREATE)
  <2>1. Has(n.queue, CREATE)
    <3>1. 1 \in 1..Len(n.queue) /\ n.queue[1] = DELETE BY <1>4, <1>10
    <3>2. PICK j \in (1 + 1)..Len(n.queue) : n.queue[j] = CREATE BY <1>10, <3>1, Zenon DEF After
    <3>3. j \in 1..Len(n.queue) BY <1>4, <3>2
    <3> QED BY <3>2, <3>3, Zenon DEF Has
  <2>2. CREATE # DELETE BY DEF CREATE, DELETE, Ev
  <2> QED BY <1>2, <1>3, <1>10, <2>1, <2>2, Zenon
<1>11. ASSUME \A w \in n.watchers : w.path = File => e # Ev(w.wd, "DELETE_SELF") PROVE Ends(m)
  BY <1>2, <1>3, <1>11, Zenon DEF Sound, Ends
<1>12. /\ \A d : Has(n.queue, d) /\ d # e => Has(m.queue, d)
       /\ After(n.queue, DELETE, CREATE) => After(m.queue, DELETE, CREATE)
  BY <1>2, <1>3, Zenon
<1> QED BY <1>2, <1>3, <1>8, <1>9, <1>10, <1>11, <1>12, Zenon DEF m, e

(* A new inode changes nothing for the ones there are.                     *)
LEMMA MorePaths ==
  ASSUME NEW n, NEW paths, NEW more, NEW t, NEW u, Sound(n, paths, t),
         DOMAIN paths \subseteq DOMAIN more, \A i \in DOMAIN paths : more[i] = paths[i],
         u = t \/ (u \in Nat /\ u \notin DOMAIN paths)
  PROVE  Sound(n, more, u)
<1>1. Watches(n, more) BY DEF Sound, Fits, Watches
<1>2. Watchers(n, more, u)
  <2>1. ASSUME NEW w \in n.watchers, w.path = u, u # File
        PROVE  u = t
    <3>1. u \in Nat => u # Directory BY DEF Directory
    <3> QED BY <2>1, <3>1 DEF Sound, Fits, Watchers
  <2> QED BY <2>1 DEF Sound, Fits, Watchers
<1> QED BY <1>1, <1>2 DEF Sound, Fits
=============================================================================
