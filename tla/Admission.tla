------------------------------ MODULE Admission ------------------------------
(***************************************************************************)
(* The admission controller: its start (cmd/admission-controller/main.go), *)
(* the informers that bring the policies from the Kubernetes API into the  *)
(* engine, and the webhook that judges pods by what the engine holds.      *)
(* Three kinds of threads share the engine under its lock: one handler     *)
(* thread per informer, one thread per review, and main.                   *)
(*                                                                         *)
(* The API server and client-go's informers are external.  An informer     *)
(* lists the objects, then watches; it keeps a store of what it has seen   *)
(* and hands notifications to the handler thread through a queue.  When    *)
(* the watch is lost it lists again, and what has disappeared meanwhile is *)
(* reported as deleted with a tombstone in place of the object.  The       *)
(* resync of every 30 seconds (main.go:141) notifies the handler again of  *)
(* what the store holds, which it has handled already, and is left out.    *)
(***************************************************************************)
EXTENDS PolicyEngine, Naturals

CONSTANTS Names,       \* names of policy objects
          Namespaces,
          Specs,       \* specifications a policy object can have
          Pods,        \* pod specifications in reviews
          Reviews,     \* webhook requests that can be in progress
          Installed,   \* the kinds of policies whose CRD is installed
          MaxChanges,  \* changes made to the policy objects
          MaxBreaks    \* lost watches

Kinds == {"cluster", "namespaced"}
KindOf(key) == IF key[1] = "cluster" THEN "cluster" ELSE "namespaced"
Keys == ({"cluster"} \cup Namespaces) \X Names

VARIABLES
    api,       \* the policy objects in the API server
    changes, breaks,
    watch,     \* per kind: "off", "on" or "broken"
    store,     \* the informers' caches
    queue,     \* per kind: notifications the handler thread has not taken
    phase,     \* main: "start", "syncing", "serving", "stopping", "exited"
    informed,  \* the engine is fed by the informers
    loaded,    \* the engine's policies
    ignored,   \* ghost: keys whose last notification the handler could not convert
    alertPub,  \* the connection to NATS was made when the program started
    review     \* per request: where its handler is

apiVars == <<api, changes>>
informerVars == <<watch, store, queue, breaks>>
webhookVars == <<apiVars, informerVars, phase, informed, loaded, ignored, alertPub, review>>

EmptyMap == [k \in {} |-> TRUE]
OfKind(map, kind) == {k \in DOMAIN map : KindOf(k) = kind}

Review(pc, namespace, pod, violations, alerts, answer) ==
    [pc |-> pc, namespace |-> namespace, pod |-> pod, violations |-> violations,
     alerts |-> alerts, answer |-> answer]
NoReview == Review("idle", "none", NoPod, {}, {}, "none")

WebhookInit ==
    /\ api = EmptyMap /\ changes = 0 /\ breaks = 0
    /\ watch = [kind \in Kinds |-> "off"]
    /\ store = EmptyMap
    /\ queue = [kind \in Kinds |-> << >>]
    /\ phase = "start" /\ informed = FALSE
    /\ loaded = EmptyMap /\ ignored = {} /\ alertPub \in BOOLEAN
    /\ review = [r \in Reviews |-> NoReview]

-----------------------------------------------------------------------------
(* The API server and the informers (external).                            *)

Notification(type, key, spec) == [type |-> type, key |-> key, spec |-> spec]

\* A policy object is created or updated: a watch that is on tells.
ApplyObject(key, spec) ==
    /\ KindOf(key) \in Installed
    /\ changes < MaxChanges
    /\ key \in DOMAIN api => api[key] # spec
    /\ changes' = changes + 1
    /\ api' = Put(api, key, spec)
    /\ IF watch[KindOf(key)] = "on"
       THEN /\ store' = Put(store, key, spec)
            /\ queue' = [queue EXCEPT ![KindOf(key)] = Append(@,
                  Notification(IF key \in DOMAIN store THEN "update" ELSE "add", key, spec))]
       ELSE UNCHANGED <<store, queue>>
    /\ UNCHANGED <<watch, breaks, phase, informed, loaded, ignored, alertPub, review>>

RemoveObject(key) ==
    /\ key \in DOMAIN api
    /\ changes < MaxChanges
    /\ changes' = changes + 1
    /\ api' = Drop(api, key)
    /\ IF watch[KindOf(key)] = "on"
       THEN /\ store' = Drop(store, key)
            /\ queue' = [queue EXCEPT ![KindOf(key)] =
                            Append(@, Notification("delete", key, api[key]))]
       ELSE UNCHANGED <<store, queue>>
    /\ UNCHANGED <<watch, breaks, phase, informed, loaded, ignored, alertPub, review>>

LoseWatch(kind) ==
    /\ watch[kind] = "on"
    /\ breaks < MaxBreaks
    /\ breaks' = breaks + 1
    /\ watch' = [watch EXCEPT ![kind] = "broken"]
    /\ UNCHANGED <<apiVars, store, queue, phase, informed, loaded, ignored, alertPub, review>>

\* What a list finds, against the store: notifications in any order.
Differences(kind) ==
    {Notification(IF k \in DOMAIN store THEN "update" ELSE "add", k, api[k]) :
        k \in {k \in OfKind(api, kind) : k \in DOMAIN store => store[k] # api[k]}}
    \cup {Notification("tombstone", k, store[k]) : k \in OfKind(store, kind) \ DOMAIN api}

\* The first list, and the one after a lost watch.
List(kind) ==
    /\ phase \in {"syncing", "serving"} /\ informed
    /\ kind \in Installed
    /\ watch[kind] # "on"
    /\ watch' = [watch EXCEPT ![kind] = "on"]
    /\ store' = [k \in (DOMAIN store \ OfKind(store, kind)) \cup OfKind(api, kind) |->
                   IF KindOf(k) = kind THEN api[k] ELSE store[k]]
    /\ \E ns \in Injection(1..Cardinality(Differences(kind)), Differences(kind)) :
          queue' = [queue EXCEPT ![kind] = @ \o ns]
    /\ UNCHANGED <<apiVars, breaks, phase, informed, loaded, ignored, alertPub, review>>

-----------------------------------------------------------------------------
(* main's start.                                                           *)

\* The list of the cluster policies fails (no CRD, or the API server cannot
\* be reached): the defaults are loaded and nothing is watched, for good.
StartWithDefaults ==
    /\ phase = "start"
    /\ phase' = "serving"
    /\ loaded' = LoadDefaultPolicies(loaded)
    /\ UNCHANGED <<apiVars, informerVars, informed, ignored, alertPub, review>>

\* startCRDInformers: both informers are started.
StartInformers ==
    /\ phase = "start"
    /\ "cluster" \in Installed
    /\ phase' = "syncing"
    /\ informed' = TRUE
    /\ UNCHANGED <<apiVars, informerVars, loaded, ignored, alertPub, review>>

\* WaitForCacheSync returns when both informers have listed; the handlers
\* may still have notifications to take.  Then the webhook starts.
CacheSynced ==
    /\ phase = "syncing"
    /\ \A kind \in Kinds : watch[kind] # "off"
    /\ phase' = "serving"
    /\ UNCHANGED <<apiVars, informerVars, informed, loaded, ignored, alertPub, review>>

\* A handler that only knows of new objects.
HandledClusterNoUpdate(n) ==
    CASE n.type = "add" /\ n.spec.wellFormed    -> SetClusterPolicy(loaded, n.key[2], n.spec)
      [] n.type = "delete" /\ n.spec.wellFormed -> DeleteClusterPolicy(loaded, n.key[2])
      [] OTHER                                  -> loaded

\* AddFunc, UpdateFunc and DeleteFunc.  An object that does not convert, and
\* a tombstone never does, is logged and dropped.
HandledCluster(n) ==
    CASE n.type \in {"add", "update"} /\ n.spec.wellFormed ->
            SetClusterPolicy(loaded, n.key[2], n.spec)
      [] n.type = "delete" /\ n.spec.wellFormed -> DeleteClusterPolicy(loaded, n.key[2])
      [] OTHER -> loaded

\* A handler that leaves deleted policies in force.
HandledNamespacedNoDelete(n) ==
    IF n.type \in {"add", "update"} /\ n.spec.wellFormed
    THEN SetNamespacedPolicy(loaded, n.key[1], n.key[2], n.spec) ELSE loaded

HandledNamespaced(n) ==
    CASE n.type \in {"add", "update"} /\ n.spec.wellFormed ->
            SetNamespacedPolicy(loaded, n.key[1], n.key[2], n.spec)
      [] n.type = "delete" /\ n.spec.wellFormed ->
            DeleteNamespacedPolicy(loaded, n.key[1], n.key[2])
      [] OTHER -> loaded

\* convertToClusterPolicy and convertToNamespacedPolicy: a tombstone is not
\* unstructured.
Converts(n) == n.type # "tombstone" /\ n.spec.wellFormed

\* The handler thread of an informer takes a notification.
HandleNotification(kind) ==
    /\ phase \in {"syncing", "serving", "stopping"}
    /\ queue[kind] # << >>
    /\ LET n == Head(queue[kind]) IN
       /\ loaded' = IF kind = "cluster" THEN HandledCluster(n) ELSE HandledNamespaced(n)
       /\ ignored' = IF Converts(n) THEN ignored \ {n.key} ELSE ignored \cup {n.key}
    /\ queue' = [queue EXCEPT ![kind] = Tail(@)]
    /\ UNCHANGED <<apiVars, watch, store, breaks, phase, informed, alertPub, review>>

-----------------------------------------------------------------------------
(* The webhook: handleValidate.                                            *)

\* "unknown" stands for a kind other than Pod, Deployment and ReplicaSet, and
\* for an object of these kinds that does not parse.
extractPodSpec(body) == body # "unknown"

\* A request arrives; the handler reads it.  "invalid" stands for another
\* method than POST, a body that cannot be read or parsed, a review without
\* a request.
Receive(r, body, namespace, pod) ==
    /\ phase = "serving"
    /\ review[r].pc \in {"idle", "answered"}
    /\ review' = [review EXCEPT ![r] =
          IF body = "invalid" THEN Review("answered", namespace, pod, {}, {}, "error")
          ELSE IF extractPodSpec(body) THEN Review("extracted", namespace, pod, {}, {}, "none")
          ELSE Review("answered", namespace, pod, {}, {}, "allowed")]
    /\ UNCHANGED <<apiVars, informerVars, phase, informed, loaded, ignored, alertPub>>

\* engine.EvaluateAdmission, under the read lock.
Evaluate(r) ==
    /\ review[r].pc = "extracted"
    /\ review' = [review EXCEPT ![r] = Review("evaluated", @.namespace, @.pod,
                     EvaluateAdmission(loaded, @.pod, @.namespace), @.alerts, @.answer)]
    /\ UNCHANGED <<apiVars, informerVars, phase, informed, loaded, ignored, alertPub>>

PublishAlert(r) ==
    /\ review[r].pc = "evaluated" /\ alertPub
    /\ \E v \in review[r].violations \ review[r].alerts :
          review' = [review EXCEPT ![r] = Review("evaluated", @.namespace, @.pod,
                       @.violations, @.alerts \cup {v}, @.answer)]
    /\ UNCHANGED <<apiVars, informerVars, phase, informed, loaded, ignored, alertPub>>

buildResponse(r) == IF review[r].violations = {} THEN "allowed" ELSE "denied"

\* A handler that answers before it has published its alerts.
AlertsOutNone(r) == TRUE

\* A handler that publishes and then waits for an acknowledgement.
AlertsOutAcknowledged(r) == review[r].violations = {}

AlertsOut(r) == alertPub => review[r].violations \subseteq review[r].alerts

Respond(r) ==
    /\ review[r].pc = "evaluated"
    /\ AlertsOut(r)
    /\ review' = [review EXCEPT ![r] = Review("answered", @.namespace, @.pod,
                     @.violations, @.alerts, buildResponse(r))]
    /\ UNCHANGED <<apiVars, informerVars, phase, informed, loaded, ignored, alertPub>>

-----------------------------------------------------------------------------
(* At the end no new request is accepted, the informers stop, and main     *)
(* waits for the handlers for ten seconds.                                 *)

Busy(r) == review[r].pc \in {"extracted", "evaluated"}

StopServing ==
    /\ phase = "serving"
    /\ phase' = "stopping"
    /\ UNCHANGED <<apiVars, informerVars, informed, loaded, ignored, alertPub, review>>

\* All handlers are done, or the ten seconds have passed.
ExitProcess ==
    /\ phase = "stopping"
    /\ phase' = "exited"
    /\ review' = [r \in Reviews |->
          IF Busy(r) THEN Review("cut", review[r].namespace, review[r].pod, review[r].violations,
                                 review[r].alerts, review[r].answer)
          ELSE review[r]]
    /\ UNCHANGED <<apiVars, informerVars, informed, loaded, ignored, alertPub>>

WebhookNext ==
    \/ \E key \in Keys : (\E spec \in Specs : ApplyObject(key, spec)) \/ RemoveObject(key)
    \/ \E kind \in Kinds : LoseWatch(kind) \/ List(kind) \/ HandleNotification(kind)
    \/ StartWithDefaults \/ StartInformers \/ CacheSynced
    \/ \E r \in Reviews :
          \/ \E body \in {"invalid", "unknown", "pod"}, ns \in Namespaces, pod \in Pods :
                Receive(r, body, ns, pod)
          \/ Evaluate(r) \/ PublishAlert(r) \/ Respond(r)
    \/ StopServing \/ ExitProcess

WebhookSpec == WebhookInit /\ [][WebhookNext]_webhookVars

\* The threads go on: main, the informers and their handlers, the reviews.
WebhookFairness ==
    /\ \A kind \in Kinds : WF_webhookVars(List(kind)) /\ WF_webhookVars(HandleNotification(kind))
    /\ WF_webhookVars(StartWithDefaults \/ StartInformers) /\ WF_webhookVars(CacheSynced)
    /\ \A r \in Reviews : WF_webhookVars(Evaluate(r) \/ PublishAlert(r) \/ Respond(r))
WebhookFairSpec == WebhookSpec /\ WebhookFairness

-----------------------------------------------------------------------------
(* Properties.                                                             *)

Maps == UNION {[K -> Specs] : K \in SUBSET Keys}

\* Types of the state.
WebhookTypeOK ==
    /\ api \in Maps /\ store \in Maps
    /\ \A k \in DOMAIN loaded : k \in Keys \/ (k[1] = "cluster" /\ k[2] \in DOMAIN defaults)
    /\ watch \in [Kinds -> {"off", "on", "broken"}]
    /\ \A kind \in Kinds : \A i \in DOMAIN queue[kind] : KindOf(queue[kind][i].key) = kind
    /\ phase \in {"start", "syncing", "serving", "stopping", "exited"}
    /\ \A r \in Reviews : review[r].pc \in {"idle", "extracted", "evaluated", "answered", "cut"}

\* The informer of a kind has told all it has seen, and sees everything.
CaughtUp(kind) == watch[kind] = "on" /\ queue[kind] = << >>

\* Once an informer's handler has caught up, the engine holds every policy
\* of the API server in its last version (unless that version does not
\* convert): adds and updates are applied in order and none is skipped,
\* whatever watches were lost in between.
ChangesAreLoaded ==
    \A kind \in Kinds : (informed /\ CaughtUp(kind)) =>
        \A k \in OfKind(api, kind) :
            api[k].wellFormed => k \in DOMAIN loaded /\ loaded[k] = api[k]

\* Once the handler has caught up the engine holds no policy that is gone
\* from the API server, but for those whose deletion was told by a tombstone
\* (a list after a lost watch) or by an object that did not convert: these
\* the handlers ignore (DeleteFunc).  They ignore nothing of a policy whose
\* last version converts.
DeletedPolicyIsRemoved ==
    \A kind \in Kinds : (informed /\ CaughtUp(kind)) =>
        /\ OfKind(loaded, kind) \subseteq DOMAIN api \cup ignored
        /\ \A k \in OfKind(api, kind) \cap ignored : ~api[k].wellFormed

\* What the policies in the API server say of a pod, read off their
\* criteria: every group of every section holds.
ShouldDeny(namespace, pod) ==
    {k \in DOMAIN api :
        /\ k[1] = "cluster" \/ k[1] = namespace
        /\ ~api[k].disabled /\ "DEPLOY" \in api[k].stages
        /\ \A i \in DOMAIN api[k].sections : \A j \in DOMAIN api[k].sections[i] :
              evaluateGroup(api[k].sections[i][j],
                            [podSpec |-> pod, executable |-> "", processName |-> "",
                             dstPort |-> "0"]).matched}

\* A review judged while both informers have caught up is judged by exactly
\* the policies in the API server: by the cluster's and by its own
\* namespace's, never by a stale version of one or by one that does not
\* apply, whatever watches were lost.  Only of policies that the handlers
\* ignored this is not said: of those the API server holds, these are the
\* ones that do not convert.
CaughtUpVerdictIsRight ==
    [][\A r \in Reviews :
          (Evaluate(r) /\ informed /\ \A kind \in Kinds : CaughtUp(kind)) =>
             {v.key : v \in review'[r].violations} \ ignored
               = ShouldDeny(review[r].namespace, review[r].pod) \ ignored
      ]_webhookVars

\* A pod is refused only after an alert was published for each policy that
\* refuses it (if there is a publisher at all), and is let in only when no
\* policy matched.
RefusalWasAlerted ==
    \A r \in Reviews : review[r].pc = "answered" =>
        /\ review[r].answer = "denied" =>
              /\ review[r].violations # {}
              /\ alertPub => review[r].alerts = review[r].violations
        /\ review[r].answer = "allowed" => review[r].violations = {}

\* The webhook's handler and the informers': a review judged while they have
\* caught up is judged by the policies of the API server; the engine holds
\* these in their last version, and of those deleted only the ones whose
\* deletion came as a tombstone or did not convert; a pod is refused after
\* its alerts were published, and let in when no policy matched.
ReviewIsRight ==
    /\ CaughtUpVerdictIsRight
    /\ []WebhookTypeOK /\ []ChangesAreLoaded /\ []DeletedPolicyIsRemoved /\ []RefusalWasAlerted

\* Every review is answered, unless the process ends first; a shutdown in
\* progress does not keep its handler from answering.
ReviewIsAnswered == \A r \in Reviews : Busy(r) ~> ~Busy(r)

\* Once the policies no longer change the engine comes to hold them, under
\* handler threads and relists that go on, unless the process stops.
EngineConverges ==
    <>[](informed /\ phase \in {"syncing", "serving"} /\ Installed = Kinds =>
           \A k \in DOMAIN api : api[k].wellFormed => k \in DOMAIN loaded /\ loaded[k] = api[k])
=============================================================================
