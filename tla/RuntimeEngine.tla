---------------------------- MODULE RuntimeEngine ----------------------------
(***************************************************************************)
(* The runtime evaluator's own engine (internal/subscriber/subscriber.go): *)
(* a map from the names of cluster policies to their specifications, with  *)
(* the records of PolicyEngine.  It was written a second time, apart from  *)
(* the admission controller's engine; MCEngines compares the two.          *)
(***************************************************************************)
EXTENDS Evaluator

SetClusterPolicy(policies, name, spec) ==
    [n \in DOMAIN policies \cup {name} |-> IF n = name THEN spec ELSE policies[n]]
DeleteClusterPolicy(policies, name) == [n \in DOMAIN policies \ {name} |-> policies[n]]

severityToLower(severity) ==
    CASE severity = "CRITICAL_SEVERITY" -> "critical"
      [] severity = "HIGH_SEVERITY"     -> "high"
      [] severity = "MEDIUM_SEVERITY"   -> "medium"
      [] severity = "LOW_SEVERITY"      -> "low"
      [] OTHER                          -> "unset"

Matching(policies, ctx) ==
    {n \in DOMAIN policies : /\ ~policies[n].disabled
                             /\ "RUNTIME" \in policies[n].stages
                             /\ EvaluateSections(policies[n].sections, ctx).matched}

Violations(policies, names) ==
    {[policyName |-> policies[n].policyName, severity |-> severityToLower(policies[n].severity)] :
        n \in names}

EvaluateProcessEvent(policies, event) ==
    Violations(policies, Matching(policies,
        [podSpec |-> NoPod, executable |-> event.executable,
         processName |-> event.processName, dstPort |-> "0"]))

\* An engine that looks at both ends of a connection.
EvaluateNetworkEventAnyEnd(policies, event) ==
    Violations(policies, Matching(policies,
        [podSpec |-> NoPod, executable |-> "", processName |-> "", dstPort |-> event.dstPort]))

\* Only the accepting end of a connection is looked at.
EvaluateNetworkEvent(policies, event) ==
    IF event.eventType # "ACCEPT" THEN {}
    ELSE Violations(policies, Matching(policies,
            [podSpec |-> NoPod, executable |-> "", processName |-> "",
             dstPort |-> event.dstPort]))

RuntimePolicy(policyName, severity, field, values) ==
    [policyName |-> policyName, severity |-> severity, disabled |-> FALSE,
     stages |-> {"RUNTIME"},
     sections |-> << <<[fieldName |-> field, booleanOperator |-> "", negate |-> FALSE,
                        values |-> values]>> >>]

LoadDefaultPolicies(policies) ==
    SetClusterPolicy(
        SetClusterPolicy(policies, "suspicious-process",
            RuntimePolicy("Suspicious Process Execution", "HIGH_SEVERITY", "Process Name",
                <<"/bin/bash", "/bin/sh", "/bin/nc", "/usr/bin/curl", "/usr/bin/wget">>)),
        "sensitive-port-listen",
        RuntimePolicy("Sensitive Port Listening", "MEDIUM_SEVERITY", "Port",
            <<"22", "3389", "4444">>))
=============================================================================
