--------------------------- MODULE DeltaProofs ------------------------------
(***************************************************************************)
(* Facts about the operators the notifier's reports are made of: what      *)
(* fetching a state from the tracker returns, what normalisation does to   *)
(* an address, and that the deltas (ComputeDelta, with and without the     *)
(* afterglow) keep a receiver in step with the old state.                  *)
(***************************************************************************)
EXTENDS NetworkStatusNotifier, FiniteSetTheorems, WellFoundedInduction, TLAPS

-----------------------------------------------------------------------------
(* Maps of connections (ConnStatus).                                       *)

(***************************************************************************)
(* MergeFrom, the fold of FetchState over the hash map, is well defined:   *)
(* of the statuses of a non-empty finite set of objects one is the         *)
(* maximum.                                                                *)
(***************************************************************************)
LEMMA MaximumExists ==
  ASSUME NEW C, IsFiniteSet(C), C # {},
         NEW f, \A c \in C : f[c] \in Status
  PROVE  \E c \in C : \A d \in C : AtMost(f[d], f[c])
<1> DEFINE Above(c) == {d \in C : ~AtMost(f[d], f[c])}
           T == {Above(c) : c \in C}
<1>1. T \subseteq FiniteSubsetsOf(C) /\ T # {}
  <2>1. \A c \in C : Above(c) \subseteq C
    OBVIOUS
  <2>2. FiniteSubsetsOf(C) = SUBSET C
    BY FS_FiniteSubsetsOfFinite
  <2>3. \A U \in T : U \in SUBSET C
    BY <2>1
  <2>4. T # {}
    BY Zenon
  <2> QED  BY Zenon, <2>2, <2>3, <2>4
<1>2. IsWellFoundedOn(StrictSubsetOrdering(C), FiniteSubsetsOf(C))
  BY FS_StrictSubsetOrderingWellFounded
<1>3. \E x \in T : \A y \in T : ~(<<y, x>> \in StrictSubsetOrdering(C))
  <2> HIDE DEF T
  <2> QED  BY <1>1, <1>2, WFMin
<1>4. PICK c \in C : \A d \in C : ~(<<Above(d), Above(c)>> \in StrictSubsetOrdering(C))
  BY Zenon, <1>3
<1>5. SUFFICES ASSUME NEW d \in C, ~AtMost(f[d], f[c]) PROVE FALSE
  OBVIOUS
<1>6. d \in Above(c) /\ d \notin Above(d)
  BY <1>5 DEF AtMost, Status
<1>7. \A e \in Above(d) : e \in Above(c)
  BY <1>5 DEF AtMost, Status
<1>8. <<Above(d), Above(c)>> \in StrictSubsetOrdering(C)
  BY <1>6, <1>7 DEF StrictSubsetOrdering
<1> QED  BY <1>4, <1>8

(***************************************************************************)
(* FetchState returns a status for the keys of the fetched objects and     *)
(* nothing for the others.                                                 *)
(***************************************************************************)
LEMMA FetchStateType ==
  ASSUME NEW D, IsFiniteSet(D), NEW state \in [D -> Entry],
         NEW norm, NEW fetch, NEW keys
  PROVE  /\ FetchState(state, norm, fetch, keys) \in [keys -> Entry]
         /\ \A k \in keys : Present(FetchState(state, norm, fetch, keys)[k]) =>
              \E c \in D \cap fetch : norm[c] = k
         /\ \A c \in D \cap fetch : Present(state[c]) /\ norm[c] \in keys =>
              /\ Present(FetchState(state, norm, fetch, keys)[norm[c]])
              /\ AtMost(state[c], FetchState(state, norm, fetch, keys)[norm[c]])
<1> DEFINE S(k) == Fetched(state, norm, fetch, k)
           C(k) == {c \in D : Present(state[c]) /\ c \in fetch /\ norm[c] = k}
<1>1. ASSUME NEW k \in keys, S(k) # {}
      PROVE  /\ MergeFrom(S(k)) \in S(k) /\ \A t \in S(k) : AtMost(t, MergeFrom(S(k)))
             /\ S(k) \subseteq Status
             /\ \E c \in D \cap fetch : norm[c] = k
  <2>1. S(k) = {state[c] : c \in C(k)}
    BY DEF Fetched
  <2>2. IsFiniteSet(C(k)) /\ C(k) # {}
    BY <1>1, <2>1, FS_Subset
  <2>3. \A c \in C(k) : state[c] \in Status
    BY DEF Entry, Present, NoEntry
  <2>4. \E c \in C(k) : \A d \in C(k) : AtMost(state[d], state[c])
    <3> HIDE DEF C
    <3> QED  BY <2>2, <2>3, MaximumExists
  <2>5. \E s \in S(k) : \A t \in S(k) : AtMost(t, s)
    BY <2>1, <2>4
  <2>6. MergeFrom(S(k)) \in S(k) /\ \A t \in S(k) : AtMost(t, MergeFrom(S(k)))
    BY <2>5 DEF MergeFrom
  <2> QED  BY Zenon, <2>1, <2>2, <2>3, <2>6
<1>2. \A s \in Status : Present(s)
  BY DEF Status, Present
<1>3. \A k \in keys : FetchState(state, norm, fetch, keys)[k] =
                       IF S(k) = {} THEN NoEntry ELSE MergeFrom(S(k))
  BY DEF FetchState
<1>4. FetchState(state, norm, fetch, keys) = [k \in keys |->
         IF S(k) = {} THEN NoEntry ELSE MergeFrom(S(k))]
  BY DEF FetchState
<1>5. \A c \in D \cap fetch : Present(state[c]) => state[c] \in S(norm[c])
  BY DEF Fetched
<1> HIDE DEF S
<1>6. FetchState(state, norm, fetch, keys) \in [keys -> Entry]
  BY <1>1, <1>4 DEF Entry
<1>7. \A k \in keys : Present(FetchState(state, norm, fetch, keys)[k]) =>
        \E c \in D \cap fetch : norm[c] = k
  BY <1>1, <1>3 DEF Present, NoEntry
<1>8. \A c \in D \cap fetch : Present(state[c]) /\ norm[c] \in keys =>
              /\ Present(FetchState(state, norm, fetch, keys)[norm[c]])
              /\ AtMost(state[c], FetchState(state, norm, fetch, keys)[norm[c]])
  BY <1>1, <1>2, <1>3, <1>5
<1> QED  BY <1>6, <1>7, <1>8

(* A map of keys whose entries all come from fetched objects of D.         *)
FetchedFrom(map, D, norm, fetch, keys) ==
  /\ map \in [keys -> Entry]
  /\ \A k \in keys : Present(map[k]) => \E c \in D \cap fetch : norm[c] = k

(* FetchState returns such a map.                                          *)
LEMMA FetchStateFrom ==
  ASSUME NEW D, IsFiniteSet(D), NEW state \in [D -> Entry],
         NEW norm, NEW fetch, NEW keys
  PROVE  FetchedFrom(FetchState(state, norm, fetch, keys), D, norm, fetch, keys)
<1>1. /\ FetchState(state, norm, fetch, keys) \in [keys -> Entry]
      /\ \A k \in keys : Present(FetchState(state, norm, fetch, keys)[k]) =>
           \E c \in D \cap fetch : norm[c] = k
  BY FetchStateType
<1> QED  BY <1>1, Zenon DEF FetchedFrom

(* The fields of a map entry, and of one whose activity is set.            *)
LEMMA EntryFields ==
  ASSUME NEW s \in Entry
  PROVE  /\ s.active \in BOOLEAN /\ s.ts \in Int
         /\ Present(s) <=> s \in Status
         /\ Present(s) => s.ts >= 0
         /\ s.active => Present(s)
         /\ ~Present(s) => s = NoEntry
<1>1. CASE s \in Status
  BY <1>1 DEF Status, Present
<1>2. CASE s = NoEntry
  BY <1>2 DEF Status, NoEntry, Present
<1> QED  BY <1>1, <1>2 DEF Entry

(* The entry of what is not in the map.                                    *)
LEMMA NoEntryFields ==
  ~Present(NoEntry) /\ NoEntry \in Entry /\ ~NoEntry.active /\ Status \subseteq Entry
BY DEF Present, NoEntry, Entry

(* A status that is younger than an entry marked inactive replaces it, and *)
(* marking an entry keeps its time.                                        *)
LEMMA YoungerReplaces ==
  ASSUME NEW s \in Entry, NEW time \in Nat, s.ts < time
  PROVE  /\ EmplaceOrUpdate(SetActive(s, FALSE), NewStatus(time, TRUE)) = NewStatus(time, TRUE)
         /\ SetActive(s, FALSE).ts = s.ts
<1>1. s.ts \in Int /\ ~(time <= s.ts)
  BY EntryFields
<1> QED  BY <1>1 DEF EmplaceOrUpdate, SetActive, NewStatus

(* SetActive keeps the time.                                               *)
LEMMA SetActiveFields ==
  ASSUME NEW s \in Status, NEW b \in BOOLEAN
  PROVE  /\ SetActive(s, b) \in Status
         /\ SetActive(s, b).active = b /\ SetActive(s, b).ts = s.ts
         /\ Present(SetActive(s, b))
BY DEF Status, SetActive, Present

(***************************************************************************)
(* The delta without afterglow: an open is reported for what becomes       *)
(* active, a close only for what is not active any more, and what is not   *)
(* in the delta did not change.                                            *)
(***************************************************************************)
LEMMA DeltaTracksActivity ==
  ASSUME NEW K, NEW new \in [K -> Entry], NEW old \in [K -> Entry], NEW k \in K,
         NEW d, d = ComputeDelta(new, old)[k]
  PROVE  /\ d \in Entry
         /\ d.active => new[k].active /\ ~old[k].active
         /\ Present(d) /\ ~d.active => ~new[k].active
         /\ ~Present(d) => (new[k].active <=> old[k].active)
<1>1. new[k] \in Entry /\ old[k] \in Entry
  OBVIOUS
<1>2. d = IF Present(new[k])
          THEN IF \/ ~Present(old[k])
                  \/ new[k].active # old[k].active
                  \/ ~new[k].active /\ old[k].ts < new[k].ts
               THEN new[k] ELSE NoEntry
          ELSE IF old[k].active THEN SetActive(old[k], FALSE) ELSE NoEntry
  BY DEF ComputeDelta
<1>3. ~Present(NoEntry) /\ NoEntry \in Entry /\ ~NoEntry.active /\ Status \subseteq Entry
  BY NoEntryFields
<1>4. CASE Present(new[k])
  <2>1. CASE new[k].active
    BY Zenon, <1>1, <1>2, <1>3, <1>4, <2>1, EntryFields
  <2>2. CASE ~new[k].active
    BY <1>1, <1>2, <1>3, <1>4, <2>2, EntryFields
  <2> QED  BY <2>1, <2>2
<1>5. CASE ~Present(new[k])
  BY Zenon, <1>1, <1>2, <1>3, <1>5, EntryFields, SetActiveFields
<1> QED  BY <1>4, <1>5

(* What a receiver holds open, by the old state of a scrape at time.       *)
Held(s, time, period) == Present(s) /\ WasRecentlyActive(s, time, period)

(* The delta with afterglow and the old state that the report leaves.      *)
AfterglowDelta(new, old, time, last, period, closing) ==
  CloseConnectionsDelta(ComputeDeltaAfterglow(new, old, time, last, period), old, closing)

AfterglowOld(new, old, time, period, closing) ==
  UpdateOldState(CloseConnectionsOld(old, closing), new, time, period)

(* A delta entry d says how what is held by the next state differs from    *)
(* what is held by the old one.                                            *)
TracksAfterglow(d, next, new, old, time, last, period) ==
  /\ d \in Entry /\ next \in Entry
  /\ d.active => Held(next, time, period) /\ ~Held(old, last, period)
  /\ Present(d) /\ ~d.active => ~Held(next, time, period)
  /\ ~Present(d) => (Held(next, time, period) <=> Held(old, last, period))
  /\ Present(new) => next = new

(***************************************************************************)
(* The same for the delta with afterglow, the closing of connections on a  *)
(* configuration change included, with respect to what is held open at     *)
(* the time of the report by the state that UpdateOldState leaves.         *)
(***************************************************************************)
LEMMA DeltaTracksAfterglow ==
  ASSUME NEW K, NEW new \in [K -> Entry], NEW old \in [K -> Entry], NEW k \in K,
         NEW time \in Nat, NEW last \in Nat, last <= time, NEW period \in Nat,
         NEW closing, k \in closing => ~Present(new[k])
  PROVE  TracksAfterglow(AfterglowDelta(new, old, time, last, period, closing)[k],
                         AfterglowOld(new, old, time, period, closing)[k],
                         new[k], old[k], time, last, period)
<1>0. PICK d, next :
        /\ d = CloseConnectionsDelta(ComputeDeltaAfterglow(new, old, time, last, period),
                                     old, closing)[k]
        /\ next = UpdateOldState(CloseConnectionsOld(old, closing), new, time, period)[k]
  OBVIOUS
<1> SUFFICES TracksAfterglow(d, next, new[k], old[k], time, last, period)
  BY <1>0 DEF AfterglowDelta, AfterglowOld
<1> USE DEF TracksAfterglow
<1> DEFINE d0 == ComputeDeltaAfterglow(new, old, time, last, period)[k]
           o1 == IF k \in closing THEN NoEntry ELSE old[k]
<1>1. new[k] \in Entry /\ old[k] \in Entry
  OBVIOUS
<1>2. d = IF k \in closing /\ Present(old[k]) /\ ~Present(d0)
          THEN SetActive(old[k], FALSE) ELSE d0
  BY <1>0 DEF CloseConnectionsDelta
<1>3. next = IF Present(new[k]) THEN new[k]
             ELSE IF IsInAfterglowPeriod(o1, time, period) THEN o1 ELSE NoEntry
  BY <1>0 DEF UpdateOldState, CloseConnectionsOld
<1> DEFINE newHeld == new[k].active \/ time - new[k].ts < period
           oldHeld == old[k].active \/ last - old[k].ts < period
<1>4. CASE Present(new[k]) /\ Present(old[k])
  <2>1. d = IF newHeld # oldHeld
            THEN IF newHeld THEN SetActive(new[k], TRUE) ELSE new[k]
            ELSE IF ~newHeld /\ old[k].ts < new[k].ts THEN new[k] ELSE NoEntry
    BY Zenon, <1>2, <1>4 DEF ComputeDeltaAfterglow, DeltaInOldAndNewStates,
       ChangeConnToActiveIfNeeded, WasRecentlyActive, IsInAfterglowPeriod
  <2>2. next = new[k] /\ (Held(next, time, period) <=> newHeld)
                      /\ (Held(old[k], last, period) <=> oldHeld)
    BY <1>3, <1>4 DEF Held, WasRecentlyActive, IsInAfterglowPeriod
  <2>3. new[k] \in Status /\ (new[k].active => newHeld)
    BY <1>1, <1>4, EntryFields
  <2> HIDE DEF newHeld, oldHeld
  <2>4. CASE newHeld
    BY Zenon, <2>1, <2>2, <2>3, <2>4, SetActiveFields, NoEntryFields
  <2>5. CASE ~newHeld
    BY <2>1, <2>2, <2>3, <2>5, NoEntryFields, <1>4
  <2> QED  BY <2>4, <2>5
<1>5. CASE Present(new[k]) /\ ~Present(old[k])
  <2>1. d = IF newHeld THEN SetActive(new[k], TRUE) ELSE new[k]
    BY <1>2, <1>5 DEF ComputeDeltaAfterglow, DeltaInNewState,
       ChangeConnToActiveIfNeeded, WasRecentlyActive, IsInAfterglowPeriod
  <2>2. next = new[k] /\ (Held(next, time, period) <=> newHeld)
                      /\ ~Held(old[k], last, period)
    BY <1>3, <1>5 DEF Held, WasRecentlyActive, IsInAfterglowPeriod
  <2>3. new[k] \in Status /\ (new[k].active => newHeld)
    BY <1>1, <1>5, EntryFields
  <2> HIDE DEF newHeld, oldHeld
  <2> QED  BY Zenon, <2>1, <2>2, <2>3, <1>5, SetActiveFields, NoEntryFields
<1>6. CASE ~Present(new[k])
  <2>1. d0 = IF Present(old[k]) /\ oldHeld /\ ~(time - old[k].ts < period)
             THEN NewStatus(old[k].ts, FALSE) ELSE NoEntry
    BY <1>6 DEF ComputeDeltaAfterglow, CheckIfOldConnShouldBeInactiveInDelta,
       WasRecentlyActive, IsInAfterglowPeriod
  <2>2. CASE ~Present(old[k])
    <3>1. d = NoEntry /\ old[k] = NoEntry
      BY <1>1, <1>2, <2>1, <2>2, EntryFields
    <3>2. next = NoEntry
      BY <1>3, <1>6, <3>1
    <3> QED  BY <1>6, <2>2, <3>1, <3>2, NoEntryFields DEF Held
  <2>3. CASE Present(old[k]) /\ k \in closing
    <3>1. next = NoEntry
      BY <1>3, <1>6, <2>3
    <3>2. old[k] \in Status
      BY <1>1, <2>3, EntryFields
    <3>3. /\ NewStatus(old[k].ts, FALSE) \in Status
          /\ ~NewStatus(old[k].ts, FALSE).active
          /\ Present(NewStatus(old[k].ts, FALSE))
      BY <3>2 DEF NewStatus, Status, Present
    <3>4. d = NewStatus(old[k].ts, FALSE) \/ d = SetActive(old[k], FALSE)
      BY Zenon, <1>2, <2>1, <2>3, <3>3, NoEntryFields
    <3>5. d \in Status /\ ~d.active
      <4>1. SetActive(old[k], FALSE) \in Status /\ ~SetActive(old[k], FALSE).active
        BY Zenon, <3>2, SetActiveFields
      <4> QED  BY Zenon, <3>3, <3>4, <4>1
    <3> QED  BY <1>6, <3>1, <3>5, EntryFields, NoEntryFields DEF Held
  <2>4. CASE Present(old[k]) /\ k \notin closing
    <3>1. d = IF oldHeld /\ ~(time - old[k].ts < period)
              THEN NewStatus(old[k].ts, FALSE) ELSE NoEntry
      BY <1>2, <2>1, <2>4
    <3>2. next = IF time - old[k].ts < period THEN old[k] ELSE NoEntry
      BY <1>3, <1>6, <2>4 DEF IsInAfterglowPeriod
    <3>3. old[k].ts \in Nat /\ old[k] \in Status
      BY <1>1, <2>4, EntryFields
    <3>4. /\ NewStatus(old[k].ts, FALSE) \in Status
          /\ ~NewStatus(old[k].ts, FALSE).active
          /\ Present(NewStatus(old[k].ts, FALSE))
      BY <3>3 DEF NewStatus, Status, Present
    <3>5. Held(old[k], last, period) <=> oldHeld
      BY <2>4 DEF Held, WasRecentlyActive, IsInAfterglowPeriod
    <3>6. CASE time - old[k].ts < period
      <4>1. d = NoEntry /\ next = old[k]
        BY <3>1, <3>2, <3>6
      <4>2. oldHeld
        BY <3>3, <3>6
      <4>3. Held(next, time, period)
        BY <4>1, <3>6, <2>4 DEF Held, WasRecentlyActive, IsInAfterglowPeriod
      <4> QED  BY <1>6, <4>1, <4>2, <4>3, <3>5, <1>1, NoEntryFields
    <3>7. CASE ~(time - old[k].ts < period)
      <4>1. next = NoEntry /\ ~Held(next, time, period)
        BY <3>2, <3>7, NoEntryFields DEF Held
      <4>2. d = IF oldHeld THEN NewStatus(old[k].ts, FALSE) ELSE NoEntry
        BY <3>1, <3>7
      <4> HIDE DEF oldHeld
      <4> QED  BY Zenon, <1>6, <4>1, <4>2, <3>4, <3>5, NoEntryFields
    <3> QED  BY <3>6, <3>7
  <2> QED  BY <2>2, <2>3, <2>4
<1> QED  BY <1>4, <1>5, <1>6

(* The maps of the tracker keep their type, and no time goes back.         *)
LEMMA EmplaceOrUpdateType ==
  ASSUME NEW s \in Entry, NEW t \in Status
  PROVE  /\ EmplaceOrUpdate(s, t) \in Status
         /\ EmplaceOrUpdate(s, t).ts >= s.ts /\ EmplaceOrUpdate(s, t).ts >= t.ts
<1>1. s.ts \in Int /\ t.ts \in Nat /\ (Present(s) => s \in Status)
  BY EntryFields DEF Status
<1>2. ~Present(s) => s.ts = -1
  BY DEF Present
<1> QED  BY <1>1, <1>2 DEF EmplaceOrUpdate

(* UpdateAll (ConnTracker::Update) yields a map again, in which what was   *)
(* scraped is present and no older than the scrape.                        *)
LEMMA UpdateAllType ==
  ASSUME NEW D, NEW state \in [D -> Entry], NEW scraped, NEW timestamp \in Nat
  PROVE  /\ UpdateAll(state, scraped, timestamp) \in [D -> Entry]
         /\ \A c \in D \cap scraped :
              /\ Present(UpdateAll(state, scraped, timestamp)[c])
              /\ UpdateAll(state, scraped, timestamp)[c].ts >= timestamp
<1>1. ASSUME NEW c \in D PROVE SetActive(state[c], FALSE) \in Entry
  <2>1. CASE state[c] \in Status
    BY Zenon, <2>1, SetActiveFields, NoEntryFields
  <2>2. CASE state[c] = NoEntry
    <3>1. SetActive(NoEntry, FALSE) = NoEntry
      BY DEF SetActive, NoEntry
    <3> QED  BY Zenon, <2>2, <3>1, NoEntryFields
  <2> QED  BY Zenon, <2>1, <2>2 DEF Entry
<1>2. NewStatus(timestamp, TRUE) \in Status /\ NewStatus(timestamp, TRUE).ts = timestamp
  BY DEF NewStatus, Status
<1>3. ASSUME NEW c \in D \cap scraped
      PROVE  LET e == EmplaceOrUpdate(SetActive(state[c], FALSE), NewStatus(timestamp, TRUE))
             IN  e \in Status /\ e.ts >= timestamp /\ Present(e)
  <2>1. SetActive(state[c], FALSE) \in Entry
    BY Zenon, <1>1
  <2> DEFINE e == EmplaceOrUpdate(SetActive(state[c], FALSE), NewStatus(timestamp, TRUE))
  <2>2. e \in Status /\ e.ts >= timestamp
    BY Zenon, <1>2, <2>1, EmplaceOrUpdateType
  <2>3. Present(e)
    BY Zenon, <2>2, EntryFields, NoEntryFields
  <2> QED  BY Zenon, <2>2, <2>3
<1>4. \A c \in D : UpdateAll(state, scraped, timestamp)[c] =
        IF c \in scraped
        THEN EmplaceOrUpdate(SetActive(state[c], FALSE), NewStatus(timestamp, TRUE))
        ELSE SetActive(state[c], FALSE)
  BY DEF UpdateAll
<1>5. UpdateAll(state, scraped, timestamp) = [c \in D |->
        UpdateAll(state, scraped, timestamp)[c]]
  BY DEF UpdateAll
<1> QED  BY Zenon, <1>1, <1>3, <1>4, <1>5, NoEntryFields

(* ClearInactive yields a map again.                                       *)
LEMMA ClearInactiveType ==
  ASSUME NEW D, NEW state \in [D -> Entry]
  PROVE  ClearInactive(state) \in [D -> Entry]
BY DEF ClearInactive, Entry

-----------------------------------------------------------------------------
(***************************************************************************)
(* A connection that the tracker still reports is never among those that a *)
(* change of the external-IPs configuration closes: the normalisation      *)
(* under the new configuration does not produce it.                        *)
(***************************************************************************)
LEMMA FindContains ==
  ASSUME NEW nets \in SUBSET Networks, NEW a \in Addr,
         \E n \in nets : a \in n
  PROVE  Find(nets, a) \in nets /\ a \in Find(nets, a)
<1> DEFINE matches == {n \in nets : a \in n}
<1>1. matches \in SUBSET Networks /\ matches # {} /\ \A n \in matches : a \in n
  OBVIOUS
<1>2. \E n \in matches : \A m \in matches : n \subseteq m
  <2> HIDE DEF matches
  <2> QED  BY Zenon, <1>1, NetworkAssumption
<1> QED  BY <1>1, <1>2 DEF Find

(* The tree's Find yields no network, or one that it holds and that        *)
(* contains the address.                                                   *)
LEMMA FindCases ==
  ASSUME NEW nets \in SUBSET Networks, NEW a \in Addr
  PROVE  Find(nets, a) = {} \/ (Find(nets, a) \in nets /\ a \in Find(nets, a))
<1>1. CASE \E n \in nets : a \in n
  BY <1>1, FindContains
<1>2. CASE ~\E n \in nets : a \in n
  <2> DEFINE matches == {n \in nets : a \in n}
  <2>1. matches = {}
    BY <1>2
  <2>2. Find(nets, a) = IF matches = {} THEN {}
                        ELSE CHOOSE n \in matches : \A m \in matches : n \subseteq m
    BY DEF Find
  <2> QED  BY <2>1, <2>2
<1> QED  BY <1>1, <1>2

(* NormalizeAddressNoLock: with external addresses on, no address becomes  *)
(* the canonical one; with them off, an address that was kept is kept      *)
(* again.                                                                  *)
LEMMA NormalizeAddressFacts ==
  ASSUME NEW a \in Addr \cup {NullAddr}, NEW k \in Knowledge, NEW enable \in BOOLEAN,
         NEW r, r = NormalizeAddress(a, k, enable).addr
  PROVE  /\ enable => r # CanonicalExternal
         /\ ~enable /\ r # CanonicalExternal =>
              NormalizeAddress(r, k, FALSE).addr # CanonicalExternal
  <1> USE AddressAssumption
  <1>1. CASE a = NullAddr
    BY <1>1 DEF NormalizeAddress, IPNet
  <1>2. CASE a # NullAddr
    <2> DEFINE keep == ~IsPublic(a) \/ a \in NonAggregated
               network == Find(k.nets, a)
    <2>1. a \in Addr /\ k.nets \in SUBSET Networks
      BY <1>2 DEF Knowledge
    <2>2. network = {} \/ (network \in k.nets /\ a \in network)
      BY <2>1, FindCases
    <2>3. CASE keep \/ a \in k.public
      <3>1. \A e \in BOOLEAN : NormalizeAddress(a, k, e) \in {IPNet(a, {}), IPNet(a, network)}
        BY <1>2, <2>3 DEF NormalizeAddress
      <3>2. \A e \in BOOLEAN : NormalizeAddress(a, k, e).addr = a
        BY <3>1 DEF IPNet
      <3> QED  BY Zenon, <2>1, <3>2
    <2>4. CASE ~(keep \/ a \in k.public) /\ network = {}
      BY <1>2, <2>1, <2>4 DEF NormalizeAddress, IPNet
    <2>5. CASE ~(keep \/ a \in k.public) /\ network # {}
      <3>1. r = NetAddr[network]
        BY <1>2, <2>5 DEF NormalizeAddress, IPNet
      <3>2. network \in k.nets /\ network \in Networks
        BY <2>1, <2>2, <2>5
      <3>3. r \in Addr /\ r \in network
        BY <3>1, <3>2, NetworkAssumption
      <3>4. Find(k.nets, r) \in k.nets /\ r \in Find(k.nets, r)
        BY <2>1, <3>2, <3>3, FindContains
      <3>5. NetAddr[Find(k.nets, r)] \in Addr
        BY <2>1, <3>4, NetworkAssumption
      <3>6. r # NullAddr /\ r # CanonicalExternal
        BY <3>3
      <3>7. NormalizeAddress(r, k, FALSE).addr \in {r, NetAddr[Find(k.nets, r)]}
        BY Zenon, <3>4, <3>6 DEF NormalizeAddress, IPNet
      <3> QED  BY Zenon, <3>5, <3>6, <3>7
    <2> QED  BY Zenon, <2>3, <2>4, <2>5
  <1> QED  BY Zenon, <1>1, <1>2

(* What NormalizeConnectionNoLock reports now is nothing that              *)
(* ShouldCloseConnection would close.                                      *)
LEMMA ReportedNotStale ==
  ASSUME NEW c \in Conn, NEW k \in Knowledge, NEW config \in Direction,
         NEW n, n = NormalizeConnection(c, k, config)
  PROVE  ~ShouldClose(n, k, IsEnabled(config, IF n.server THEN "INGRESS" ELSE "EGRESS"))
<1> DEFINE enabled == IsEnabled(config, IF n.server THEN "INGRESS" ELSE "EGRESS")
<1>1. n.remote = NormalizeAddress(c.raddr, k, enabled)
  BY DEF NormalizeConnection
<1>2. enabled \in BOOLEAN /\ c.raddr \in Addr \cup {NullAddr}
  BY AddressAssumption DEF IsEnabled
<1> HIDE DEF enabled
<1>3. ~ShouldClose(n, k, enabled)
  BY Zenon, <1>1, <1>2, NormalizeAddressFacts
     DEF ShouldClose, ShouldNormalizeConnection, IsCanonicalExternalIp
<1> QED  BY <1>3 DEF enabled

(* So a change of the external-addresses setting closes no connection in   *)
(* the form in which it is reported now.                                   *)
LEMMA ReportedNotClosing ==
  ASSUME NEW c \in Conn, NEW k \in Knowledge,
         NEW config \in Direction, NEW prev \in Direction
  PROVE  NormalizeConnection(c, k, config) \notin
           ClosedOnExternalIPsConfigChange(k, prev, config)
BY ReportedNotStale DEF ClosedOnExternalIPsConfigChange

-----------------------------------------------------------------------------
(* Whether an old status means that Sensor holds the connection open.      *)
OpenEntry(s, time) ==
  /\ Present(s)
  /\ IF EnableAfterglow THEN WasRecentlyActive(s, time, AfterglowPeriod) ELSE s.active

(* The delta of a round is the difference between what the old states      *)
(* before and after it say Sensor holds open.                              *)
RoundExact(new, delta, old) ==
  /\ new \in [NConn -> Entry] /\ delta \in [NConn -> Entry] /\ old \in [NConn -> Entry]
  /\ \A n \in NConn :
       /\ delta[n].active => /\ OpenEntry(old[n], time_micros)
                            /\ ~OpenEntry(old_conn_state[n], time_at_last_scrape)
       /\ Present(delta[n]) /\ ~delta[n].active => ~OpenEntry(old[n], time_micros)
       /\ ~Present(delta[n]) => (OpenEntry(old[n], time_micros)
                                  <=> OpenEntry(old_conn_state[n], time_at_last_scrape))
       /\ Present(new[n]) => old[n] = new[n]

(***************************************************************************)
(* One round of RunSingle: the delta it reports is exactly the difference  *)
(* between what the old states before and after it say Sensor holds open.  *)
(***************************************************************************)
NewState == FetchConnState(conn_state, networks_known, external_ips_config)

Closing == ClosedOnExternalIPsConfigChange(networks_known, prev_config, external_ips_config)

(* The last report is not younger than the one being made.                 *)
TimeOrdered ==
  /\ time_at_last_scrape <= clock /\ ts <= clock
  /\ pc = "fetch" => time_at_last_scrape <= time_micros /\ time_micros <= clock

(* The delta of a round takes the connections reported before to the ones  *)
(* of now, apart from the afterglow.                                       *)
LEMMA RoundDelta ==
  ASSUME TypeOK, TimeOrdered, pc = "fetch"
  PROVE  RoundExact(NewState, ConnDelta(NewState, Closing), NextOldConnState(NewState, Closing))
<1>0. PICK new, closing, delta, old :
        /\ new = NewState /\ closing = Closing
        /\ delta = ConnDelta(new, closing) /\ old = NextOldConnState(new, closing)
  OBVIOUS
<1> SUFFICES RoundExact(new, delta, old)
  BY <1>0
<1> USE DEF RoundExact
<1> DEFINE norm == [c \in Conn |-> NormalizeConnection(c, networks_known, external_ips_config)]
           fetch == {c \in Conn : ShouldFetchConnection(c)}
<1>1. new = FetchState(conn_state, norm, fetch, NConn)
  BY <1>0 DEF NewState, FetchConnState
<1>2. conn_state \in [Conn -> Entry] /\ old_conn_state \in [NConn -> Entry]
  BY DEF TypeOK
<1>3. /\ new \in [NConn -> Entry]
      /\ \A n \in NConn : Present(new[n]) => \E c \in Conn \cap fetch : norm[c] = n
  <2> HIDE DEF norm, fetch
  <2> QED  BY <1>1, <1>2, FetchStateType, FiniteAssumption
<1>4. \A n \in NConn : n \in closing => ~Present(new[n])
  <2>1. /\ networks_known \in Knowledge /\ prev_config \in Direction
        /\ external_ips_config \in Direction
    BY DEF TypeOK
  <2> SUFFICES ASSUME NEW n \in NConn, n \in closing, Present(new[n]) PROVE FALSE
    OBVIOUS
  <2>2. PICK c \in Conn : NormalizeConnection(c, networks_known, external_ips_config) = n
    BY <1>3
  <2> QED  BY <1>0, <2>1, <2>2, ReportedNotClosing DEF Closing
<1>5. /\ time_micros \in Nat /\ time_at_last_scrape \in Nat
      /\ time_at_last_scrape <= time_micros
  BY DEF TypeOK, TimeOrdered
<1>6. CASE EnableAfterglow
  <2>1. /\ delta = AfterglowDelta(new, old_conn_state, time_micros, time_at_last_scrape,
                                  AfterglowPeriod, closing)
        /\ old = AfterglowOld(new, old_conn_state, time_micros, AfterglowPeriod, closing)
    BY <1>0, <1>6 DEF ConnDelta, NextOldConnState, AfterglowDelta, AfterglowOld
  <2>2. /\ delta = [n \in NConn |-> delta[n]] /\ old = [n \in NConn |-> old[n]]
    BY <1>2, <1>3, <2>1
       DEF AfterglowDelta, AfterglowOld, CloseConnectionsDelta, UpdateOldState
  <2>3. AfterglowPeriod \in Nat
    BY ConfigAssumption
  <2>4. ASSUME NEW n \in NConn
        PROVE  TracksAfterglow(delta[n], old[n], new[n], old_conn_state[n], time_micros,
                               time_at_last_scrape, AfterglowPeriod)
    BY <1>2, <1>3, <1>4, <1>5, <2>1, <2>3, DeltaTracksAfterglow
  <2>5. \A s, t : OpenEntry(s, t) <=> Held(s, t, AfterglowPeriod)
    BY <1>6 DEF OpenEntry, Held
  <2>6. delta \in [NConn -> Entry] /\ old \in [NConn -> Entry]
    BY <2>2, <2>4 DEF TracksAfterglow
  <2> QED  BY <1>3, <2>4, <2>5, <2>6 DEF TracksAfterglow
<1>7. CASE ~EnableAfterglow
  <2>1. delta = ComputeDelta(new, old_conn_state) /\ old = new
    BY <1>0, <1>7 DEF ConnDelta, NextOldConnState
  <2>2. delta = [n \in NConn |-> delta[n]]
    BY <1>3, <2>1 DEF ComputeDelta
  <2>3. ASSUME NEW n \in NConn
        PROVE  /\ delta[n] \in Entry
               /\ delta[n].active => new[n].active /\ ~old_conn_state[n].active
               /\ Present(delta[n]) /\ ~delta[n].active => ~new[n].active
               /\ ~Present(delta[n]) => (new[n].active <=> old_conn_state[n].active)
    BY <1>2, <1>3, <2>1, DeltaTracksActivity
  <2>4. \A s \in Entry : \A t : OpenEntry(s, t) <=> s.active
    BY <1>7, EntryFields DEF OpenEntry
  <2>5. delta \in [NConn -> Entry]
    BY <2>2, <2>3
  <2> QED  BY <1>2, <1>3, <2>1, <2>3, <2>4, <2>5
<1> QED  BY <1>6, <1>7, ConfigAssumption

(* The same for the listening endpoints, which are not subject to afterglow *)
LEMMA EndpointRound ==
  ASSUME TypeOK,
         NEW new, new = FetchEndpointState(endpoint_state),
         NEW delta, delta = ComputeDelta(new, old_cep_state)
  PROVE  /\ new \in [NEndpoint -> Entry]
         /\ delta \in [NEndpoint -> Entry]
         /\ \A n \in NEndpoint :
              /\ delta[n].active => new[n].active /\ ~old_cep_state[n].active
              /\ Present(delta[n]) /\ ~delta[n].active => ~new[n].active
              /\ ~Present(delta[n]) => (new[n].active <=> old_cep_state[n].active)
<1>1. endpoint_state \in [ContainerEndpoint -> Entry] /\ old_cep_state \in [NEndpoint -> Entry]
  BY DEF TypeOK
<1>2. new \in [NEndpoint -> Entry]
  BY <1>1, FetchStateType, FiniteAssumption DEF FetchEndpointState
<1>3. delta = [n \in NEndpoint |-> delta[n]]
  BY <1>2 DEF ComputeDelta
<1>4. ASSUME NEW n \in NEndpoint
      PROVE  /\ delta[n] \in Entry
             /\ delta[n].active => new[n].active /\ ~old_cep_state[n].active
             /\ Present(delta[n]) /\ ~delta[n].active => ~new[n].active
             /\ ~Present(delta[n]) => (new[n].active <=> old_cep_state[n].active)
  BY <1>1, <1>2, DeltaTracksActivity
<1>5. delta \in [NEndpoint -> Entry]
  BY <1>3, <1>4
<1> QED  BY <1>2, <1>4, <1>5
=============================================================================
