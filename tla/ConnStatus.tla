----------------------------- MODULE ConnStatus -----------------------------
(***************************************************************************)
(* The connection-status map of the collector and the algorithms on it:    *)
(* collector/collector/lib/ConnTracker.h and the templates of              *)
(* ConnTracker.cpp that ConnectionTracker instantiates for connections and *)
(* for listening endpoints.                                                *)
(*                                                                         *)
(* An UnorderedMap<T, ConnStatus> is a total function on the keys of       *)
(* interest; a key that is not in the map is mapped to NoEntry.            *)
(***************************************************************************)
EXTENDS Integers

(* ConnStatus packs the activity bit and the time of the last activity     *)
(* into one 64 bit word; timestamps are microseconds and never negative.   *)
Status == [active : BOOLEAN, ts : Nat]

NoEntry == [active |-> FALSE, ts |-> -1]

Entry == Status \cup {NoEntry}

(* NewStatus with a time that is off by one.                               *)
NewStatusEarly(timestamp, active) == [active |-> active, ts |-> timestamp - 1]

NewStatus(timestamp, active) == [active |-> active, ts |-> timestamp]

Present(s) == s.ts # -1

SetActive(s, active) == [active |-> active, ts |-> s.ts]

(* MergeFrom takes the maximum of the packed words: the activity bit is    *)
(* the most significant one, so an active status beats an inactive one and *)
(* the time decides between statuses of equal activity.                    *)
AtMost(s, t) == \/ ~s.active /\ t.active
                \/ s.active = t.active /\ s.ts <= t.ts

(* MergeFrom if it kept the status that was emplaced first.                *)
MergeFromFirst(S) == CHOOSE s \in S : TRUE

MergeFrom(S) == CHOOSE s \in S : \A t \in S : AtMost(t, s)

IsInAfterglowPeriod(s, time, period) == time - s.ts < period

WasRecentlyActive(s, time, period) ==
  s.active \/ IsInAfterglowPeriod(s, time, period)

-----------------------------------------------------------------------------
(* EmplaceOrUpdate: a status that is already there is replaced only by a   *)
(* strictly younger one.  EmplaceOrUpdateAnyAge forgets to compare.        *)
EmplaceOrUpdateAnyAge(old, status) == status

EmplaceOrUpdate(old, status) ==
  IF Present(old) /\ status.ts <= old.ts THEN old ELSE status

(* ConnectionTracker::Update on one map: everything known becomes          *)
(* inactive, then every object of this scrape is emplaced as active.       *)
(* UpdateMarkingLast has the two loops in the wrong order.                 *)
UpdateMarkingLast(state, scraped, timestamp) ==
  [c \in DOMAIN state |->
     IF c \in scraped
     THEN SetActive(EmplaceOrUpdate(state[c], NewStatus(timestamp, TRUE)), FALSE)
     ELSE SetActive(state[c], FALSE)]

UpdateAll(state, scraped, timestamp) ==
  [c \in DOMAIN state |->
     LET marked == SetActive(state[c], FALSE)
     IN  IF c \in scraped THEN EmplaceOrUpdate(marked, NewStatus(timestamp, TRUE))
                          ELSE marked]

(* FetchState(normalize = true): the statuses of all the fetched objects   *)
(* that the normalisation norm maps to the same key are merged.            *)
Fetched(state, norm, fetch, k) ==
  {state[c] : c \in {c \in DOMAIN state :
                       Present(state[c]) /\ c \in fetch /\ norm[c] = k}}

FetchState(state, norm, fetch, keys) ==
  [k \in keys |-> LET S == Fetched(state, norm, fetch, k)
                  IN  IF S = {} THEN NoEntry ELSE MergeFrom(S)]

(* FetchState(clear_inactive = true) erases the inactive objects, those it *)
(* did not fetch included.                                                 *)
ClearInactive(state) ==
  [c \in DOMAIN state |-> IF state[c].active THEN state[c] ELSE NoEntry]

-----------------------------------------------------------------------------
(* ComputeDelta, the delta without afterglow.  ComputeDeltaByTime compares *)
(* the times of the statuses and forgets their activity.                   *)
ComputeDeltaByTime(new, old) ==
  [k \in DOMAIN new |->
     IF Present(new[k])
     THEN IF ~Present(old[k]) \/ old[k].ts < new[k].ts THEN new[k] ELSE NoEntry
     ELSE IF old[k].active THEN SetActive(old[k], FALSE) ELSE NoEntry]

ComputeDelta(new, old) ==
  [k \in DOMAIN new |->
     IF Present(new[k])
     THEN IF \/ ~Present(old[k])
             \/ new[k].active # old[k].active
             \/ ~new[k].active /\ old[k].ts < new[k].ts
          THEN new[k] ELSE NoEntry
     ELSE IF old[k].active THEN SetActive(old[k], FALSE) ELSE NoEntry]

(* ComputeDeltaAfterglow and the three helpers it is made of.  time is the *)
(* time of this scrape, last that of the previous one.                     *)
ChangeConnToActiveIfNeeded(s, recently_active) ==
  IF recently_active THEN SetActive(s, TRUE) ELSE s

(* DeltaInOldAndNewStates without the comparison with the old state.       *)
DeltaInOldAndNewStatesAlways(new, old, time, last, period) ==
  ChangeConnToActiveIfNeeded(new, WasRecentlyActive(new, time, period))

DeltaInOldAndNewStates(new, old, time, last, period) ==
  LET new_recent == WasRecentlyActive(new, time, period)
      old_recent == WasRecentlyActive(old, last, period)
  IN  IF new_recent # old_recent
      THEN ChangeConnToActiveIfNeeded(new, new_recent)
      ELSE IF ~new_recent /\ old.ts < new.ts THEN new ELSE NoEntry

(* DeltaInNewState if it took the status over as it is.                    *)
DeltaInNewStateAsIs(new, time, period) == new

DeltaInNewState(new, time, period) ==
  ChangeConnToActiveIfNeeded(new, WasRecentlyActive(new, time, period))

CheckIfOldConnShouldBeInactiveInDelta(old, time, last, period) ==
  /\ Present(old)
  /\ WasRecentlyActive(old, last, period)
  /\ ~IsInAfterglowPeriod(old, time, period)

ComputeDeltaAfterglow(new, old, time, last, period) ==
  [k \in DOMAIN new |->
     CASE Present(new[k]) /\ Present(old[k]) ->
            DeltaInOldAndNewStates(new[k], old[k], time, last, period)
       [] Present(new[k]) /\ ~Present(old[k]) ->
            DeltaInNewState(new[k], time, period)
       [] ~Present(new[k]) ->
            IF CheckIfOldConnShouldBeInactiveInDelta(old[k], time, last, period)
            THEN NewStatus(old[k].ts, FALSE) ELSE NoEntry]

(* UpdateOldState: forget what left the afterglow period, then take over   *)
(* everything of the new state.  UpdateOldStateKeepingExpired only does    *)
(* the latter.                                                             *)
UpdateOldStateKeepingExpired(old, new, time, period) ==
  [k \in DOMAIN new |-> IF Present(new[k]) THEN new[k] ELSE old[k]]

UpdateOldState(old, new, time, period) ==
  [k \in DOMAIN new |->
     CASE Present(new[k]) -> new[k]
       [] ~Present(new[k]) /\ IsInAfterglowPeriod(old[k], time, period) -> old[k]
       [] OTHER -> NoEntry]

(* CloseConnections moves the connections that satisfy a predicate (here   *)
(* the set of them) from the old state to the delta, closed; an entry that *)
(* the delta already has is not replaced.                                  *)
CloseConnectionsDelta(delta, old, closing) ==
  [k \in DOMAIN old |->
     IF k \in closing /\ Present(old[k]) /\ ~Present(delta[k])
     THEN SetActive(old[k], FALSE) ELSE delta[k]]

CloseConnectionsOld(old, closing) ==
  [k \in DOMAIN old |-> IF k \in closing THEN NoEntry ELSE old[k]]
=============================================================================
