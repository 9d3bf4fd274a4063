----------------------------- MODULE MCEvaluator -----------------------------
(***************************************************************************)
(* The evaluator over small contexts and policies: a context and a policy  *)
(* are chosen, and the policy is evaluated.                                *)
(***************************************************************************)
EXTENDS Evaluator, SequencesExt, Naturals, TLC

VARIABLES ctx, sections, result

Images == [given : {TRUE}, digest : {FALSE}, port : BOOLEAN, tag : {"", "latest", "v1"}]
          \cup [given : {TRUE}, digest : {TRUE}, port : {FALSE}, tag : {""}]
          \cup [given : {FALSE}, digest : {FALSE}, port : {FALSE}, tag : {""}]

Container(p, im, l) == [privileged |-> p, image |-> im, limits |-> l]
Plain == Container(FALSE, [given |-> TRUE, digest |-> FALSE, port |-> FALSE, tag |-> "v1"],
                   {"cpu", "memory"})

Event(exe, name, port) ==
    [podSpec |-> NoPod, executable |-> exe, processName |-> name, dstPort |-> port]
PodContext(init, main, host) ==
    [podSpec |-> [hostNetwork |-> host, initContainers |-> init, containers |-> main],
     executable |-> "", processName |-> "", dstPort |-> "0"]

Containers == {Container(p, im, {"cpu", "memory"}) : p \in BOOLEAN, im \in Images}
              \cup {Container(FALSE, Plain.image, l) : l \in SUBSET {"cpu", "memory"}}
Contexts == {PodContext(<< >>, <<c, Plain>>, h) : c \in Containers, h \in BOOLEAN}
            \cup {PodContext(<<c>>, <<Plain>>, FALSE) : c \in Containers}
            \cup {Event(e, n, "0") : e \in {"", "/bin/sh"}, n \in {"sh", "/bin/sh"}}
            \cup {Event("", "", p) : p \in {"22", "8080"}}

Group(f, op, neg, vs) ==
    [fieldName |-> f, booleanOperator |-> op, negate |-> neg, values |-> vs]
Groups == {Group(f, "OR", neg, << >>) : f \in fieldHandlers \cup {"Unknown"}, neg \in BOOLEAN}
          \cup {Group("Image Tag", op, neg, vs) : op \in {"OR", "AND"}, neg \in BOOLEAN,
                                                  vs \in {<<"latest">>, <<"latest", "v1">>}}
          \cup {Group("Process Name", op, FALSE, <<"/bin/sh", "sh">>) : op \in {"OR", "AND"}}
          \cup {Group("Port", op, FALSE, <<"22", "23">>) : op \in {"OR", "AND"}}

\* One group; two groups in a section; two sections.
Some == {Group("Privileged Container", "OR", FALSE, << >>),
         Group("Image Tag", "OR", FALSE, <<"latest">>),
         Group("Host Network", "OR", TRUE, << >>),
         Group("Process Name", "OR", FALSE, <<"/bin/sh">>)}
Policies == {<< <<g>> >> : g \in Groups}
            \cup {<< <<g, h>> >> : g \in Groups, h \in Some}
            \cup {<< <<g>>, <<h>> >> : g, h \in Some}

Init == /\ ctx \in Contexts
        /\ sections \in Policies
        /\ result = NotMatched

Evaluate == /\ result' = EvaluateSections(sections, ctx)
            /\ UNCHANGED <<ctx, sections>>

Spec == Init /\ [][Evaluate]_<<ctx, sections, result>>

-----------------------------------------------------------------------------

GroupsOf(policy) == UNION {Range(policy[i]) : i \in DOMAIN policy}
Matches(policy) == EvaluateSections(policy, ctx).matched

\* Where a policy's author puts a criterion makes no difference: the loops
\* of EvaluateSections and evaluateSection, with their early returns, give
\* the same verdict for the sections or the groups in reverse order, and for
\* all groups in one section.
OrderIrrelevant ==
    /\ Matches(sections) <=> Matches(Reverse(sections))
    /\ Matches(sections) <=> Matches([i \in DOMAIN sections |-> Reverse(sections[i])])
    /\ Matches(sections) <=> Matches(<<FlattenSeq(sections)>>)

\* A group and its negation split the contexts between them, and neither of
\* them matches for a field nobody registered (evaluateGroup returns before
\* it applies the negation).
NegationSplits ==
    \A g \in GroupsOf(sections) :
        LET Verdict(neg) == Matches(<< <<[g EXCEPT !.negate = neg]>> >>)
        IN  IF g.fieldName \in fieldHandlers
            THEN Verdict(TRUE) # Verdict(FALSE)
            ELSE ~Verdict(TRUE) /\ ~Verdict(FALSE)

\* A policy that fired says why: it matched every one of its groups, and the
\* messages it joins for the violation name each of them in order.
MessagesNameEveryGroup ==
    result.matched =>
        result.messages = [i \in DOMAIN FlattenSeq(sections) |-> FlattenSeq(sections)[i].fieldName]
=============================================================================
