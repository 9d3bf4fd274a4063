---------------------------- MODULE PolicyStatus ----------------------------
(***************************************************************************)
(* The engine's status updates: UpdatePolicyStatuses takes the violations  *)
(* of one evaluation and writes them into the status of the cluster        *)
(* policies through crdStatusUpdater, which reads the object and replaces  *)
(* its status.  Several evaluations report at the same time; the informer  *)
(* brings the written objects back into the engine later.  Nothing in the  *)
(* program calls UpdatePolicyStatuses yet: the callers here are those its  *)
(* interface allows, one per evaluation.                                   *)
(*                                                                         *)
(* The API server is external: an object has had a number of statuses, an  *)
(* update with an old version is refused, and the informer's watch brings  *)
(* the versions to the handler in order, late, and after a lost watch not  *)
(* all of them.                                                            *)
(***************************************************************************)
EXTENDS Naturals, Sequences

CONSTANTS ClusterPolicies,      \* cluster policy objects
          Callers,              \* evaluations that report at the same time
          MaxReports,           \* reports made by all of them
          maxRecentViolations   \* 20 in the code

ASSUME RecentAssumption == maxRecentViolations \in Nat \ {0}

VARIABLES
    objects,   \* per policy: the statuses it has had in the API server
    seen,      \* per policy: which of them the engine's copy has
    update,    \* per caller: the loop of UpdatePolicyStatuses
    reports    \* reports started so far, the clock of the model

statusVars == <<objects, seen, update, reports>>

NoStatus == [total |-> 0, active |-> 0, recent |-> << >>, conditions |-> << >>]
Update(pc, now, todo, policy, status, version) ==
    [pc |-> pc, now |-> now, todo |-> todo, policy |-> policy, status |-> status,
     version |-> version]
NoUpdate == Update("idle", 0, {}, "none", NoStatus, 0)

StatusInit == /\ objects = [p \in ClusterPolicies |-> <<NoStatus>>]
              /\ seen = [p \in ClusterPolicies |-> 1]
              /\ update = [c \in Callers |-> NoUpdate]
              /\ reports = 0

Cached(p) == objects[p][seen[p]]

\* Keeps the first ones.
AppendRecentViolationFirst(violations, v) ==
    IF Len(violations) = maxRecentViolations THEN violations ELSE Append(violations, v)

AppendRecentViolation(violations, v) ==
    LET all == Append(violations, v)
    IN  IF Len(all) > maxRecentViolations
        THEN SubSeq(all, Len(all) - maxRecentViolations + 1, Len(all)) ELSE all

\* A condition that is added with every update.
SetConditionAgain(conditions, type) == Append(conditions, type)

\* Conditions are their types: only TRUE is ever set, and their times are
\* left out.
SetCondition(conditions, type) ==
    IF \E i \in 1..Len(conditions) : conditions[i] = type THEN conditions
    ELSE Append(conditions, type)

\* A violation is the time of its report.
NewStatus(old, now) ==
    [total |-> old.total + 1, active |-> old.active + 1,
     recent |-> AppendRecentViolation(old.recent, now),
     conditions |-> SetCondition(old.conditions, "AcceptedByAdmissionControl")]

\* The call: the violated policies are found and the time is taken.
UpdatePolicyStatuses(c, violated) ==
    /\ update[c].pc = "idle"
    /\ reports < MaxReports
    /\ reports' = reports + 1
    /\ update' = [update EXCEPT ![c] = Update("called", reports + 1, violated, "none", NoStatus, 0)]
    /\ UNCHANGED <<objects, seen>>

\* Then the read lock, which is held until the last of them is written.
RLock(c) ==
    /\ update[c].pc = "called"
    /\ update' = [update EXCEPT ![c] = Update("next", @.now, @.todo, "none", NoStatus, 0)]
    /\ UNCHANGED <<objects, seen, reports>>
HasLock(c) == update[c].pc \in {"next", "computed", "got"}

\* The new status, from the engine's copy of a violated policy.
ComputeStatus(c, p) ==
    /\ update[c].pc = "next" /\ p \in update[c].todo
    /\ update' = [update EXCEPT ![c] =
                    Update("computed", @.now, @.todo \ {p}, p, NewStatus(Cached(p), @.now), 0)]
    /\ UNCHANGED <<objects, seen, reports>>

\* UpdateClusterPolicyStatus reads the object.  An error is logged.
GetPolicy(c) ==
    /\ update[c].pc = "computed"
    /\ \/ update' = [update EXCEPT ![c] = Update("got", @.now, @.todo, @.policy, @.status,
                                                 Len(objects[@.policy]))]
       \/ update' = [update EXCEPT ![c] = Update("next", @.now, @.todo, "none", NoStatus, 0)]
    /\ UNCHANGED <<objects, seen, reports>>

\* It replaces the status by the one computed.  An object changed since it
\* was read is refused, and the error is logged like any other.
UpdateStatus(c) ==
    /\ update[c].pc = "got"
    /\ LET p == update[c].policy IN
       \/ /\ update[c].version = Len(objects[p])
          /\ objects' = [objects EXCEPT ![p] = Append(@, update[c].status)]
       \/ UNCHANGED objects
    /\ update' = [update EXCEPT ![c] = Update("next", @.now, @.todo, "none", NoStatus, 0)]
    /\ UNCHANGED <<seen, reports>>

RUnlock(c) ==
    /\ update[c].pc = "next" /\ update[c].todo = {}
    /\ update' = [update EXCEPT ![c] = NoUpdate]
    /\ UNCHANGED <<objects, seen, reports>>

\* A handler without the lock.
CopyPolicyUnlocked(p) ==
    /\ \E v \in (seen[p] + 1)..Len(objects[p]) : seen' = [seen EXCEPT ![p] = v]
    /\ UNCHANGED <<objects, update, reports>>

\* The informer's handler: SetClusterPolicy with the object as it was
\* written, under the write lock.
CopyPolicy(p) ==
    /\ \A c \in Callers : ~HasLock(c)
    /\ \E v \in (seen[p] + 1)..Len(objects[p]) : seen' = [seen EXCEPT ![p] = v]
    /\ UNCHANGED <<objects, update, reports>>

StatusNext == \/ \E c \in Callers :
                    \/ \E violated \in SUBSET ClusterPolicies : UpdatePolicyStatuses(c, violated)
                    \/ \E p \in ClusterPolicies : ComputeStatus(c, p)
                    \/ RLock(c) \/ GetPolicy(c) \/ UpdateStatus(c) \/ RUnlock(c)
              \/ \E p \in ClusterPolicies : CopyPolicy(p)

StatusSpec == StatusInit /\ [][StatusNext]_statusVars

-----------------------------------------------------------------------------
(* Every status a policy ever has lists as many recent violations as were  *)
(* counted, up to the limit, and has its condition once.                   *)
Consistent(s) ==
    /\ s.total = s.active
    /\ Len(s.recent) = IF s.total < maxRecentViolations THEN s.total ELSE maxRecentViolations
    /\ Len(s.conditions) = IF s.total = 0 THEN 0 ELSE 1

(* Updates that start from the same copy count once, and an update may     *)
(* start from a copy that is far behind; but the count that the API server *)
(* has never goes back: the copy a caller starts from is not older than    *)
(* the one any update written before started from, because the lock is     *)
(* held from the copy to the write.                                        *)
NeverGoesBack(p) ==
    \A i, j \in 1..Len(objects[p]) : i <= j => objects[p][i].total <= objects[p][j].total

\* What is written to a policy has the writer's violation as its newest.
WrittenIsRecent ==
    [][\A p \in ClusterPolicies : objects'[p] # objects[p] =>
          \E c \in Callers :
             LET s == objects'[p][Len(objects'[p])]
             IN  HasLock(c) /\ s.recent[Len(s.recent)] = update[c].now]_statusVars

(* UpdatePolicyStatuses, with any number of callers and an informer that   *)
(* lags behind: every status written is consistent and bounded, its newest *)
(* violation is in its list, and the counts never go back.                 *)
StatusIsRight ==
    /\ WrittenIsRecent
    /\ [](\A p \in ClusterPolicies :
             NeverGoesBack(p) /\ \A i \in 1..Len(objects[p]) : Consistent(objects[p][i]))
=============================================================================
