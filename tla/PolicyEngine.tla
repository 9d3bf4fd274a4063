----------------------------- MODULE PolicyEngine -----------------------------
(***************************************************************************)
(* The admission controller's policy engine (internal/policy/engine.go):   *)
(* what the policies it has loaded say of a pod and of a runtime event.    *)
(* `loaded` maps the key of a policy object, <<scope, name>>, to its       *)
(* specification; the scope is "cluster" for the ClusterStackroxPolicies   *)
(* and the namespace for the StackroxPolicies.  A specification is a       *)
(* record of the fields the engine reads and of two more it does not:      *)
(* wellFormed (the object converts to the Go type) and namespaces (its     *)
(* Scope, {} for everywhere).                                              *)
(***************************************************************************)
EXTENDS Evaluator, FiniteSets

Put(map, key, spec) == [k \in DOMAIN map \cup {key} |-> IF k = key THEN spec ELSE map[k]]
Drop(map, key) == [k \in DOMAIN map \ {key} |-> map[k]]

SetClusterPolicy(loaded, name, spec) == Put(loaded, <<"cluster", name>>, spec)
DeleteClusterPolicy(loaded, name) == Drop(loaded, <<"cluster", name>>)
SetNamespacedPolicy(loaded, namespace, name, spec) == Put(loaded, <<namespace, name>>, spec)
DeleteNamespacedPolicy(loaded, namespace, name) == Drop(loaded, <<namespace, name>>)

ShouldApplyToAdmissionControl(stages) == "DEPLOY" \in stages
ShouldApplyToSensor(stages) == "RUNTIME" \in stages

severityToLower(severity) ==
    CASE severity = "CRITICAL_SEVERITY" -> "critical"
      [] severity = "HIGH_SEVERITY"     -> "high"
      [] severity = "MEDIUM_SEVERITY"   -> "medium"
      [] severity = "LOW_SEVERITY"      -> "low"
      [] OTHER                          -> "unset"

Violation(loaded, key) ==
    [key |-> key, policyName |-> loaded[key].policyName,
     severity |-> severityToLower(loaded[key].severity)]

\* An engine that evaluates the namespaced policies of every namespace.
EvaluateAdmissionAnywhere(loaded, podSpec, namespace) ==
    LET ctx == [podSpec |-> podSpec, executable |-> "", processName |-> "", dstPort |-> "0"]
        Fires(p) == /\ ~p.disabled
                    /\ ShouldApplyToAdmissionControl(p.stages)
                    /\ EvaluateSections(p.sections, ctx).matched
    IN  {Violation(loaded, k) : k \in {k \in DOMAIN loaded : Fires(loaded[k])}}

\* The cluster-scoped policies, then those of the pod's namespace.  The maps
\* are iterated in any order: the violations are a set.
EvaluateAdmission(loaded, podSpec, namespace) ==
    LET ctx == [podSpec |-> podSpec, executable |-> "", processName |-> "", dstPort |-> "0"]
        Fires(p) == /\ ~p.disabled
                    /\ ShouldApplyToAdmissionControl(p.stages)
                    /\ EvaluateSections(p.sections, ctx).matched
    IN  {Violation(loaded, k) : k \in {k \in DOMAIN loaded :
                                         k[1] \in {"cluster", namespace} /\ Fires(loaded[k])}}

\* Runtime events are evaluated against the cluster-scoped policies only.
RuntimeViolations(loaded, ctx) ==
    LET Fires(p) == /\ ~p.disabled
                    /\ ShouldApplyToSensor(p.stages)
                    /\ EvaluateSections(p.sections, ctx).matched
    IN  {Violation(loaded, k) : k \in {k \in DOMAIN loaded :
                                         k[1] = "cluster" /\ Fires(loaded[k])}}

\* An event record has the fields type, executable, processName, dstPort and
\* eventType, at their zero values where the event does not have them.
EvaluateProcessEvent(loaded, event) ==
    RuntimeViolations(loaded, [podSpec |-> NoPod, executable |-> event.executable,
                               processName |-> event.processName, dstPort |-> "0"])

EvaluateNetworkEvent(loaded, event) ==
    IF event.eventType # "ACCEPT" THEN {}
    ELSE RuntimeViolations(loaded, [podSpec |-> NoPod, executable |-> "",
                                    processName |-> "", dstPort |-> event.dstPort])

-----------------------------------------------------------------------------
(* The policies compiled in, for clusters without the CRDs.                *)

Criterion(field, values) ==
    [fieldName |-> field, booleanOperator |-> "", negate |-> FALSE, values |-> values]
DefaultPolicy(policyName, severity, stage, sections) ==
    [policyName |-> policyName, severity |-> severity, disabled |-> FALSE, stages |-> {stage},
     sections |-> sections, namespaces |-> {}, wellFormed |-> TRUE]

defaults ==
    [name \in {"no-privileged-containers", "no-latest-tag", "require-resource-limits",
               "no-host-network", "suspicious-process", "sensitive-port-listen"} |->
       CASE name = "no-privileged-containers" ->
              DefaultPolicy("No Privileged Containers", "CRITICAL_SEVERITY", "DEPLOY",
                            << <<Criterion("Privileged Container", << >>)>> >>)
         [] name = "no-latest-tag" ->
              DefaultPolicy("No Latest Image Tag", "HIGH_SEVERITY", "DEPLOY",
                            << <<Criterion("Image Tag", <<"latest">>)>> >>)
         [] name = "require-resource-limits" ->
              DefaultPolicy("Require Resource Limits", "MEDIUM_SEVERITY", "DEPLOY",
                            << <<Criterion("Container CPU Limit", << >>)>>,
                               <<Criterion("Container Memory Limit", << >>)>> >>)
         [] name = "no-host-network" ->
              DefaultPolicy("No Host Network", "HIGH_SEVERITY", "DEPLOY",
                            << <<Criterion("Host Network", << >>)>> >>)
         [] name = "suspicious-process" ->
              DefaultPolicy("Suspicious Process Execution", "HIGH_SEVERITY", "RUNTIME",
                            << <<Criterion("Process Name",
                                   <<"/bin/bash", "/bin/sh", "/bin/nc",
                                     "/usr/bin/curl", "/usr/bin/wget">>)>> >>)
         [] name = "sensitive-port-listen" ->
              DefaultPolicy("Sensitive Port Listening", "MEDIUM_SEVERITY", "RUNTIME",
                            << <<Criterion("Port", <<"22", "3389", "4444">>)>> >>)]

\* LoadDefaultPolicies: SetClusterPolicy for each of them.
LoadDefaultPolicies(loaded) ==
    LET keys == {<<"cluster", n>> : n \in DOMAIN defaults}
    IN  [k \in DOMAIN loaded \cup keys |-> IF k \in keys THEN defaults[k[2]] ELSE loaded[k]]
=============================================================================
