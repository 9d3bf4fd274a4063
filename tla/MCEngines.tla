------------------------------ MODULE MCEngines ------------------------------
(***************************************************************************)
(* The two engines fed with the same policies and the same events: cluster *)
(* policies come and go in both, events are evaluated by both.             *)
(***************************************************************************)
EXTENDS Naturals, Sequences

Admission == INSTANCE PolicyEngine
Runtime == INSTANCE RuntimeEngine

VARIABLES loaded,    \* the admission controller's engine
          policies,  \* the runtime evaluator's engine
          verdicts   \* what they say of the last event

EngineNames == {"p1", "p2"}

Spec(name, severity, stages, disabled, sections) ==
    [policyName |-> name, severity |-> severity, disabled |-> disabled, stages |-> stages,
     sections |-> sections, namespaces |-> {}, wellFormed |-> TRUE]
Criterion(field, op, negate, values) ==
    [fieldName |-> field, booleanOperator |-> op, negate |-> negate, values |-> values]

Sections ==
    { << <<Criterion("Process Name", "OR", FALSE, <<"/bin/sh", "nc">>)>> >>,
      << <<Criterion("Process Name", "AND", TRUE, <<"/bin/sh">>)>> >>,
      << <<Criterion("Port", "OR", FALSE, <<"22">>)>> >>,
      << <<Criterion("Port", "OR", TRUE, <<"22">>),
           Criterion("Process Name", "OR", TRUE, <<"nc">>)>> >>,
      << <<Criterion("Privileged Container", "", TRUE, << >>)>> >>,
      << >> }
EngineSpecs == {Spec("A", "HIGH_SEVERITY", {"RUNTIME"}, FALSE, s) : s \in Sections}
         \cup {Spec("B", sev, st, d, << <<Criterion("Port", "OR", FALSE, <<"22">>)>> >>) :
                 sev \in {"LOW_SEVERITY", "UNSET"}, st \in {{"DEPLOY"}, {"DEPLOY", "RUNTIME"}},
                 d \in BOOLEAN}

Event(type, exe, name, port, kind) ==
    [type |-> type, executable |-> exe, processName |-> name, dstPort |-> port,
     eventType |-> kind]
Inputs == {Event("process", e, n, "0", "") : e \in {"", "/bin/sh", "/bin/nc"}, n \in {"sh", "nc"}}
          \cup {Event("network", "", "", p, k) : p \in {"0", "22"}, k \in {"ACCEPT", "CONNECT"}}

NoVerdict == [admission |-> {}, runtime |-> {}]
Empty == [k \in {} |-> TRUE]
vars == <<loaded, policies, verdicts>>

Init == loaded = Empty /\ policies = Empty /\ verdicts = NoVerdict

Load(name, spec) ==
    /\ loaded' = Admission!SetClusterPolicy(loaded, name, spec)
    /\ policies' = Runtime!SetClusterPolicy(policies, name, spec)
    /\ verdicts' = NoVerdict
Unload(name) ==
    /\ name \in DOMAIN policies
    /\ loaded' = Admission!DeleteClusterPolicy(loaded, name)
    /\ policies' = Runtime!DeleteClusterPolicy(policies, name)
    /\ verdicts' = NoVerdict
\* A cluster without the CRDs: both load their own defaults.
Defaults ==
    /\ loaded = Empty
    /\ loaded' = Admission!LoadDefaultPolicies(loaded)
    /\ policies' = Runtime!LoadDefaultPolicies(policies)
    /\ verdicts' = NoVerdict

Said(violations) ==
    {[policyName |-> v.policyName, severity |-> v.severity] : v \in violations}
Evaluate(event) ==
    /\ verdicts' = IF event.type = "process"
                   THEN [admission |-> Said(Admission!EvaluateProcessEvent(loaded, event)),
                         runtime   |-> Said(Runtime!EvaluateProcessEvent(policies, event))]
                   ELSE [admission |-> Said(Admission!EvaluateNetworkEvent(loaded, event)),
                         runtime   |-> Said(Runtime!EvaluateNetworkEvent(policies, event))]
    /\ UNCHANGED <<loaded, policies>>

Next == \/ \E name \in EngineNames : (\E spec \in EngineSpecs : Load(name, spec)) \/ Unload(name)
        \/ Defaults
        \/ \E event \in Inputs : Evaluate(event)

\* The two engines, written apart, raise the same violations for the same
\* event under the same policies, and under the defaults of a cluster
\* without CRDs: an event is judged the same whichever of the two consumers
\* sees it.
EnginesAgree == verdicts.admission = verdicts.runtime
=============================================================================
