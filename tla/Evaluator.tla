------------------------------ MODULE Evaluator ------------------------------
(***************************************************************************)
(* The policy evaluator (apis/evaluator), the library that the admission   *)
(* controller and the runtime evaluator share.  A policy is a sequence of  *)
(* sections, a section a sequence of groups, a group a field with values;  *)
(* the context is a pod specification, or a process or network event with  *)
(* the other fields at their zero values.                                  *)
(*                                                                         *)
(* An image reference is a record: whether it is given at all, whether it  *)
(* is pinned by a digest, whether its registry carries a port, and its tag *)
(* ("" for none).  A pod that is nil has no containers and no host         *)
(* network: every field of a pod finds nothing in it.                      *)
(***************************************************************************)
EXTENDS Integers, Sequences, Functions

NoPod == [hostNetwork |-> FALSE, initContainers |-> << >>, containers |-> << >>]

\* allContainers: the init containers count like the others.
allContainers(pod) == Range(pod.initContainers \o pod.containers)

\* The last of the parts between colons, "" when there is no colon: for an
\* untagged image of a registry with a port it is the port and the path.
PortAndPath == "port/path"
tagOf(image) ==
    IF image.tag # "" THEN image.tag
    ELSE IF image.port THEN PortAndPath ELSE ""

fieldPrivilegedContainer(ctx) ==
    \E c \in allContainers(ctx.podSpec) : c.privileged

fieldImageTag(ctx, values) ==
    \E c \in allContainers(ctx.podSpec) :
        /\ c.image.given /\ ~c.image.digest
        /\ LET tag == tagOf(c.image) IN
           IF values # << >>
           THEN \E v \in Range(values) : v = tag \/ (v = "latest" /\ tag = "")
           ELSE tag \in {"", "latest"}

\* A container without the limit matches: the fields find what is missing.
fieldContainerCPULimit(ctx) ==
    \E c \in allContainers(ctx.podSpec) : "cpu" \notin c.limits
fieldContainerMemoryLimit(ctx) ==
    \E c \in allContainers(ctx.podSpec) : "memory" \notin c.limits

fieldHostNetwork(ctx) == ctx.podSpec.hostNetwork

fieldProcessName(ctx, values) ==
    ctx.executable # "" /\ \E v \in Range(values) : v \in {ctx.executable, ctx.processName}

\* dstPort is the port as the policy writes it, "0" for an event without one.
fieldPort(ctx, values) == ctx.dstPort # "0" /\ ctx.dstPort \in Range(values)

\* The registered fields.
fieldHandlers == {"Privileged Container", "Image Tag", "Container CPU Limit",
                  "Container Memory Limit", "Host Network", "Process Name", "Port"}

handler(field, ctx, values) ==
    CASE field = "Privileged Container"   -> fieldPrivilegedContainer(ctx)
      [] field = "Image Tag"              -> fieldImageTag(ctx, values)
      [] field = "Container CPU Limit"    -> fieldContainerCPULimit(ctx)
      [] field = "Container Memory Limit" -> fieldContainerMemoryLimit(ctx)
      [] field = "Host Network"           -> fieldHostNetwork(ctx)
      [] field = "Process Name"           -> fieldProcessName(ctx, values)
      [] field = "Port"                   -> fieldPort(ctx, values)

-----------------------------------------------------------------------------

NotMatched == [matched |-> FALSE, messages |-> << >>]

\* The results' messages, appended one result after the other.
Matched(results) ==
    LET Upto[n \in 0..Len(results)] ==
          IF n = 0 THEN << >> ELSE Upto[n - 1] \o results[n].messages
    IN  [matched |-> TRUE, messages |-> Upto[Len(results)]]

\* A group that negates the verdict on an unsupported field as well.
evaluateGroupNegateAll(group, ctx) ==
    LET values  == group.values
        known   == group.fieldName \in fieldHandlers
        matched == known /\ handler(group.fieldName, ctx, values)
    IN  IF matched # group.negate
        THEN [matched |-> TRUE, messages |-> <<group.fieldName>>]
        ELSE NotMatched

\* Values are tried one by one for AND and together otherwise; the negation
\* comes last, and an unsupported field never matches.
evaluateGroup(group, ctx) ==
    LET field   == group.fieldName
        values  == group.values
        matched == IF group.booleanOperator = "AND" /\ values # << >>
                   THEN \A v \in Range(values) : handler(field, ctx, <<v>>)
                   ELSE handler(field, ctx, values)
    IN  IF field \in fieldHandlers /\ matched # group.negate
        THEN [matched |-> TRUE, messages |-> <<field>>]
        ELSE NotMatched

\* A section decided by its last group.
evaluateSectionLast(section, ctx) ==
    IF section = << >> THEN [matched |-> TRUE, messages |-> << >>]
    ELSE evaluateGroup(section[Len(section)], ctx)

\* The first group that does not match decides; otherwise the messages of
\* all groups are collected.
evaluateSection(section, ctx) ==
    LET results == [i \in DOMAIN section |-> evaluateGroup(section[i], ctx)]
    IN  IF \E i \in DOMAIN section : ~results[i].matched THEN NotMatched
        ELSE Matched(results)

\* Sections that are alternatives.
EvaluateSectionsAny(sections, ctx) ==
    LET Hit == SelectSeq(sections, LAMBDA s : evaluateSection(s, ctx).matched)
    IN  IF sections # << >> /\ Hit = << >> THEN NotMatched
        ELSE Matched([i \in DOMAIN Hit |-> evaluateSection(Hit[i], ctx)])

EvaluateSections(sections, ctx) ==
    LET results == [i \in DOMAIN sections |-> evaluateSection(sections[i], ctx)]
    IN  IF \E i \in DOMAIN sections : ~results[i].matched THEN NotMatched
        ELSE Matched(results)
=============================================================================
