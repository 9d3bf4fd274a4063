------------------------------ MODULE MCValues ------------------------------
(***************************************************************************)
(* Values for small instances of the policy components: a pod that is      *)
(* privileged and one that is not, policies about it, and one event of     *)
(* each stream that violates a default policy, as JSON or as the protobuf  *)
(* message that the collector's client publishes; and the two engines,     *)
(* with the default policies.                                              *)
(***************************************************************************)
LOCAL INSTANCE PolicyEngine
LOCAL AdmissionEngine == INSTANCE PolicyEngine
LOCAL Engine == INSTANCE RuntimeEngine

PodWith(privileged) ==
    [hostNetwork |-> FALSE, initContainers |-> << >>,
     containers |-> <<[privileged |-> privileged, limits |-> {"cpu", "memory"},
                       image |-> [given |-> TRUE, digest |-> FALSE, port |-> FALSE, tag |-> "v1"]]>>]
AllPods == {PodWith(TRUE), PodWith(FALSE)}
BadPod == {PodWith(TRUE)}

Privileged == DefaultPolicy("Privileged", "HIGH_SEVERITY", "DEPLOY",
                            << <<Criterion("Privileged Container", << >>)>> >>)
Off == [Privileged EXCEPT !.disabled = TRUE]
RuntimeOnly == [Privileged EXCEPT !.stages = {"RUNTIME"}]
Broken == [Privileged EXCEPT !.wellFormed = FALSE]

Shell(encoding) ==
    [stream |-> "process", encoding |-> encoding, executable |-> "/bin/sh",
     processName |-> "sh", dstPort |-> "0", eventType |-> ""]
Ssh == [stream |-> "network", encoding |-> "json", executable |-> "", processName |-> "",
        dstPort |-> "22", eventType |-> "ACCEPT"]

LOCAL AdmissionDefaults == AdmissionEngine!LoadDefaultPolicies([k \in {} |-> TRUE])
LOCAL RuntimeDefaults == Engine!LoadDefaultPolicies([k \in {} |-> TRUE])
DefaultProcessPolicies(b, e) ==
    {v.policyName : v \in IF b = "admission"
                          THEN AdmissionEngine!EvaluateProcessEvent(AdmissionDefaults, e)
                          ELSE Engine!EvaluateProcessEvent(RuntimeDefaults, e)}
DefaultNetworkPolicies(b, e) ==
    {v.policyName : v \in IF b = "admission"
                          THEN AdmissionEngine!EvaluateNetworkEvent(AdmissionDefaults, e)
                          ELSE Engine!EvaluateNetworkEvent(RuntimeDefaults, e)}
=============================================================================
