--------------------------- MODULE AdmissionProofs ---------------------------
(***************************************************************************)
(* What the admission webhook's answer rests on, for every set of          *)
(* policies, namespaces, pods and reviews and any number of changes.       *)
(*                                                                         *)
(* A policy object travels from the API server through an informer's store *)
(* and its queue of notifications to the engine.  ChangesAreLoaded is      *)
(* about the end of that way, when the queue is empty.  InformersOK        *)
(* follows an object along it: what the store holds is loaded, or the last *)
(* notification about it that is queued will load it (SeenIsTold), and a   *)
(* watch that is on has seen what the API server holds (InStep).           *)
(*                                                                         *)
(* The converse, that what is gone is not loaded, has an exception: what   *)
(* does not convert, and a tombstone does not, the handlers ignore.        *)
(* UnseenIsGone is that converse: what the store does not hold is not      *)
(* loaded or was ignored, or the last that is queued of it is its end.     *)
(* ReviewIsRight rests on both, for lost watches and objects that do not   *)
(* convert too.                                                            *)
(***************************************************************************)
EXTENDS Admission, FiniteSetTheorems, TLAPS

-----------------------------------------------------------------------------
(* The verdict on a review.                                                *)

(* A policy matches when all groups of all its sections do.                *)
LEMMA SectionsMatch ==
  ASSUME NEW sections, NEW ctx
  PROVE  EvaluateSections(sections, ctx).matched
         <=> \A i \in DOMAIN sections : \A j \in DOMAIN sections[i] :
                evaluateGroup(sections[i][j], ctx).matched
<1>1. ASSUME NEW section
      PROVE  evaluateSection(section, ctx).matched
             <=> \A j \in DOMAIN section : evaluateGroup(section[j], ctx).matched
  <2>1. CASE \E j \in DOMAIN section : ~evaluateGroup(section[j], ctx).matched
    <3>1. evaluateSection(section, ctx) = NotMatched BY <2>1 DEF evaluateSection
    <3> QED BY <2>1, <3>1 DEF NotMatched
  <2>2. CASE ~\E j \in DOMAIN section : ~evaluateGroup(section[j], ctx).matched
    <3>1. evaluateSection(section, ctx).matched BY <2>2 DEF evaluateSection, Matched
    <3> QED BY <2>2, <3>1
  <2> QED BY <2>1, <2>2
<1>2. CASE \E i \in DOMAIN sections : ~evaluateSection(sections[i], ctx).matched
  <2>1. EvaluateSections(sections, ctx) = NotMatched BY <1>2 DEF EvaluateSections
  <2> QED BY <1>1, <1>2, <2>1 DEF NotMatched
<1>3. CASE ~\E i \in DOMAIN sections : ~evaluateSection(sections[i], ctx).matched
  <2>1. EvaluateSections(sections, ctx).matched BY <1>3 DEF EvaluateSections, Matched
  <2> QED BY <1>1, <1>3, <2>1
<1> QED BY <1>2, <1>3

(* An engine that holds the policies of the API server, but for some keys  *)
(* X, refuses a pod for exactly those that match it, but for X.            *)
LEMMA VerdictOfApi ==
  ASSUME NEW ns, NEW pod, NEW X, DOMAIN loaded \ X = DOMAIN api \ X,
         \A k \in DOMAIN api \ X : loaded[k] = api[k]
  PROVE  {v.key : v \in EvaluateAdmission(loaded, pod, ns)} \ X = ShouldDeny(ns, pod) \ X
<1> DEFINE ctx == [podSpec |-> pod, executable |-> "", processName |-> "", dstPort |-> "0"]
           Fires(p) == ~p.disabled /\ "DEPLOY" \in p.stages /\ EvaluateSections(p.sections, ctx).matched
           S == {k \in DOMAIN loaded : k[1] \in {"cluster", ns} /\ Fires(loaded[k])}
<1>1. EvaluateAdmission(loaded, pod, ns) = {Violation(loaded, k) : k \in S}
  BY Zenon DEF EvaluateAdmission, ShouldApplyToAdmissionControl
<1>2. \A k : Violation(loaded, k).key = k BY DEF Violation
<1>3. {v.key : v \in {Violation(loaded, k) : k \in S}} = S
  <2> HIDE DEF S
  <2> QED BY <1>2, Zenon
<1>4. S \ X = ShouldDeny(ns, pod) \ X
  <2>1. ASSUME NEW k \in DOMAIN api \ X
        PROVE  k \in S <=> k \in ShouldDeny(ns, pod)
    <3>1. EvaluateSections(api[k].sections, ctx).matched
          <=> \A i \in DOMAIN api[k].sections : \A j \in DOMAIN api[k].sections[i] :
                 evaluateGroup(api[k].sections[i][j], ctx).matched
      BY SectionsMatch, Zenon
    <3>2. k \in DOMAIN loaded /\ loaded[k] = api[k] BY <2>1, Zenon
    <3> QED BY <2>1, <3>1, <3>2, Zenon DEF ShouldDeny
  <2>2. \A k \in S \ X : k \in DOMAIN api \ X BY Zenon
  <2>3. \A k \in ShouldDeny(ns, pod) \ X : k \in DOMAIN api \ X BY Zenon DEF ShouldDeny
  <2> HIDE DEF S
  <2> QED BY <2>1, <2>2, <2>3, Zenon
<1> QED BY <1>1, <1>3, <1>4, Zenon

-----------------------------------------------------------------------------
(* The handlers of the reviews.                                            *)

(* A review has alerted of no violation it has not found, and none before  *)
(* the pod was judged.                                                     *)
ReviewOK(x) ==
  /\ x = Review(x.pc, x.namespace, x.pod, x.violations, x.alerts, x.answer)
  /\ x.pc \in {"idle", "extracted", "evaluated", "answered", "cut"}
  /\ x.alerts \subseteq x.violations
  /\ x.pc = "extracted" => x.alerts = {}
  /\ x.pc = "answered" /\ x.answer = "denied" =>
        x.violations # {} /\ (alertPub => x.alerts = x.violations)
  /\ x.pc = "answered" /\ x.answer = "allowed" => x.violations = {}
ReviewsOK == review = [r \in Reviews |-> review[r]] /\ \A r \in Reviews : ReviewOK(review[r])

(* No review is under way when the webhook starts.                         *)
LEMMA ReviewsInit == WebhookInit => ReviewsOK
<1> SUFFICES ASSUME WebhookInit PROVE ReviewsOK OBVIOUS
<1>1. review = [r \in Reviews |-> NoReview] BY DEF WebhookInit
<1>2. ReviewOK(NoReview) BY DEF ReviewOK, NoReview, Review
<1> QED BY <1>1, <1>2 DEF ReviewsOK

(* Every step of handleValidate keeps what is known of the reviews, and no *)
(* other step touches them.                                                *)
LEMMA ReviewsNext == ReviewsOK /\ [WebhookNext]_webhookVars => ReviewsOK'
<1> SUFFICES ASSUME ReviewsOK, [WebhookNext]_webhookVars PROVE ReviewsOK' OBVIOUS
<1>0. alertPub' = alertPub
  BY Zenon DEF WebhookNext, ApplyObject, RemoveObject, LoseWatch, List, HandleNotification,
     StartWithDefaults, StartInformers, CacheSynced, Receive, Evaluate, PublishAlert, Respond,
     StopServing, ExitProcess, webhookVars
<1>1. ASSUME NEW r \in Reviews, NEW x, review' = [review EXCEPT ![r] = x], ReviewOK(x)
      PROVE  ReviewsOK'
  BY <1>0, <1>1 DEF ReviewsOK, ReviewOK
<1>2. ASSUME UNCHANGED review PROVE ReviewsOK'
  BY <1>0, <1>2, Zenon DEF ReviewsOK, ReviewOK
<1>3. ASSUME NEW r \in Reviews, NEW body, NEW ns, NEW pod, Receive(r, body, ns, pod)
      PROVE  ReviewsOK'
  <2> DEFINE x == IF body = "invalid" THEN Review("answered", ns, pod, {}, {}, "error")
                  ELSE IF extractPodSpec(body) THEN Review("extracted", ns, pod, {}, {}, "none")
                  ELSE Review("answered", ns, pod, {}, {}, "allowed")
  <2>1. review' = [review EXCEPT ![r] = x] BY <1>3, Zenon DEF Receive
  <2>2. /\ ReviewOK(Review("answered", ns, pod, {}, {}, "error"))
        /\ ReviewOK(Review("extracted", ns, pod, {}, {}, "none"))
        /\ ReviewOK(Review("answered", ns, pod, {}, {}, "allowed"))
    BY DEF ReviewOK, Review
  <2>3. ReviewOK(x) BY <2>2, Zenon
  <2> HIDE DEF x
  <2> QED BY <1>1, <2>1, <2>3, Zenon
<1>4. ASSUME NEW r \in Reviews, Evaluate(r) PROVE ReviewsOK'
  <2> DEFINE o == review[r]
             x == Review("evaluated", o.namespace, o.pod,
                         EvaluateAdmission(loaded, o.pod, o.namespace), o.alerts, o.answer)
  <2>1. review' = [review EXCEPT ![r] = x] BY <1>4, Zenon DEF Evaluate
  <2>2. o.alerts = {} BY <1>4 DEF ReviewsOK, ReviewOK, Evaluate
  <2>3. ReviewOK(x) BY <2>2 DEF ReviewOK, Review
  <2> HIDE DEF x
  <2> QED BY <1>1, <2>1, <2>3, Zenon
<1>5. ASSUME NEW r \in Reviews, PublishAlert(r) PROVE ReviewsOK'
  <2> DEFINE o == review[r]
  <2>1. PICK v \in o.violations \ o.alerts : review' = [review EXCEPT ![r] =
               Review("evaluated", o.namespace, o.pod, o.violations, o.alerts \cup {v}, o.answer)]
    BY <1>5, Zenon DEF PublishAlert
  <2>2. o.alerts \subseteq o.violations BY DEF ReviewsOK, ReviewOK
  <2> DEFINE x == Review("evaluated", o.namespace, o.pod, o.violations, o.alerts \cup {v}, o.answer)
  <2>3. ReviewOK(x) BY <2>1, <2>2 DEF ReviewOK, Review
  <2> HIDE DEF x
  <2> QED BY <1>1, <2>1, <2>3, Zenon DEF x
<1>6. ASSUME NEW r \in Reviews, Respond(r) PROVE ReviewsOK'
  <2> DEFINE o == review[r]
             x == Review("answered", o.namespace, o.pod, o.violations, o.alerts, buildResponse(r))
  <2>1. review' = [review EXCEPT ![r] = x] BY <1>6, Zenon DEF Respond
  <2>2. o.alerts \subseteq o.violations BY DEF ReviewsOK, ReviewOK
  <2>3. alertPub => o.violations \subseteq o.alerts BY <1>6 DEF Respond, AlertsOut
  <2>4. ReviewOK(x) BY <2>2, <2>3 DEF ReviewOK, Review, buildResponse
  <2> HIDE DEF x
  <2> QED BY <1>1, <2>1, <2>4, Zenon
<1>7. CASE ExitProcess
  <2>1. ASSUME NEW r \in Reviews PROVE ReviewOK(review'[r])
    <3> DEFINE o == review[r]
               x == Review("cut", o.namespace, o.pod, o.violations, o.alerts, o.answer)
    <3>1. ReviewOK(o) BY DEF ReviewsOK
    <3>2. ReviewOK(x) BY <3>1 DEF ReviewOK, Review
    <3>3. review'[r] = IF Busy(r) THEN x ELSE o BY <1>7 DEF ExitProcess
    <3> HIDE DEF x
    <3> QED BY <3>1, <3>2, <3>3
  <2>2. review' = [r \in Reviews |-> review'[r]] BY <1>7 DEF ExitProcess
  <2> QED BY <1>0, <2>1, <2>2, Zenon DEF ReviewsOK, ReviewOK
<1>8. CASE UNCHANGED review BY <1>2, <1>8
<1>9. CASE WebhookNext /\ ~UNCHANGED review
  <2>1. \/ \E r \in Reviews : \/ \E body \in {"invalid", "unknown", "pod"}, ns \in Namespaces, pod \in Pods :
                                    Receive(r, body, ns, pod)
                              \/ Evaluate(r) \/ PublishAlert(r) \/ Respond(r)
        \/ ExitProcess
    BY <1>9, Zenon DEF WebhookNext, ApplyObject, RemoveObject, LoseWatch, List, HandleNotification,
       StartWithDefaults, StartInformers, CacheSynced, StopServing
  <2> QED BY <2>1, <1>3, <1>4, <1>5, <1>6, <1>7, Zenon
<1> QED BY <1>8, <1>9, Zenon DEF webhookVars

(* A refused pod has had its alerts.                                       *)
LEMMA ReviewsAlerted == ReviewsOK => RefusalWasAlerted
BY DEF ReviewsOK, ReviewOK, RefusalWasAlerted

-----------------------------------------------------------------------------
(* What the handler of an informer has been told, and what it has made of  *)
(* it, one key at a time.                                                  *)

(* What an informer tells its handler.                                     *)
Notes == [type : {"add", "update", "delete", "tombstone"}, key : Keys, spec : Specs]

(* A queue that says nothing of key k, and the place where the last that   *)
(* it says of k is.                                                        *)
Silent(q, k) == \A j \in 1..Len(q) : q[j].key # k
LastOf(q, k, i) == q[i].key = k /\ \A j \in 1..Len(q) : j > i => q[j].key # k

(* The handler, once it has taken all of q, will have left specification   *)
(* spec for key k in the engine, or ignored it if it does not convert.     *)
Told(q, ld, ig, k, spec) ==
  \/ /\ Silent(q, k)
     /\ spec.wellFormed => k \in DOMAIN ld /\ ld[k] = spec /\ k \notin ig
     /\ ~spec.wellFormed => k \in ig
  \/ \E i \in 1..Len(q) :
        LastOf(q, k, i) /\ q[i].type \in {"add", "update"} /\ q[i].spec = spec

(* The handler, once it has taken all of q, will have left nothing for key *)
(* k in the engine, or ignored that it is gone.                            *)
ToldGone(q, ld, ig, k) ==
  \/ Silent(q, k) /\ (k \in DOMAIN ld => k \in ig)
  \/ \E i \in 1..Len(q) : LastOf(q, k, i) /\ q[i].type \in {"delete", "tombstone"}

(* What taking notification n makes of the engine's policies, and of the   *)
(* keys that were ignored.                                                 *)
Taken(ld, n) ==
  CASE n.type \in {"add", "update"} /\ n.spec.wellFormed -> Put(ld, n.key, n.spec)
    [] n.type = "delete" /\ n.spec.wellFormed -> Drop(ld, n.key)
    [] OTHER -> ld
Skipped(ig, n) == IF Converts(n) THEN ig \ {n.key} ELSE ig \cup {n.key}

(* Nothing said of k.                                                      *)
LEMMA ConcatSilent ==
  ASSUME NEW q \in Seq(Notes), NEW ns \in Seq(Notes), NEW k, Silent(ns, k)
  PROVE  /\ Silent(q, k) => Silent(q \o ns, k)
         /\ \A ld, ig, spec : Told(q, ld, ig, k, spec) => Told(q \o ns, ld, ig, k, spec)
         /\ \A ld, ig : ToldGone(q, ld, ig, k) => ToldGone(q \o ns, ld, ig, k)
<1>1. /\ Len(q) \in Nat /\ Len(ns) \in Nat /\ Len(q \o ns) = Len(q) + Len(ns)
      /\ \A i \in 1..Len(q) : (q \o ns)[i] = q[i]
      /\ \A i \in 1..(Len(q) + Len(ns)) : i > Len(q) =>
            i - Len(q) \in 1..Len(ns) /\ (q \o ns)[i] = ns[i - Len(q)]
  OBVIOUS
<1> DEFINE c == q \o ns
<1> HIDE DEF c
<1>2. /\ Len(c) = Len(q) + Len(ns) /\ \A i \in 1..Len(q) : c[i] = q[i]
      /\ \A i \in 1..Len(c) : i > Len(q) => c[i].key # k
  BY <1>1 DEF c, Silent
<1>3. Silent(q, k) => Silent(c, k) BY <1>1, <1>2 DEF Silent
<1>4. ASSUME NEW i \in 1..Len(q), LastOf(q, k, i) PROVE i \in 1..Len(c) /\ LastOf(c, k, i)
  BY <1>1, <1>2, <1>4 DEF LastOf
<1> QED BY <1>2, <1>3, <1>4 DEF Told, ToldGone, c

(* The last that is said of k.                                             *)
LEMMA ConcatTold ==
  ASSUME NEW q \in Seq(Notes), NEW ns \in Seq(Notes), NEW k,
         NEW i \in 1..Len(ns), LastOf(ns, k, i)
  PROVE  /\ ns[i].type \in {"add", "update"} => \A ld, ig : Told(q \o ns, ld, ig, k, ns[i].spec)
         /\ ns[i].type \in {"delete", "tombstone"} => \A ld, ig : ToldGone(q \o ns, ld, ig, k)
<1>1. /\ Len(q) \in Nat /\ Len(ns) \in Nat /\ Len(q \o ns) = Len(q) + Len(ns)
      /\ \A j \in 1..(Len(q) + Len(ns)) : j > Len(q) =>
            j - Len(q) \in 1..Len(ns) /\ (q \o ns)[j] = ns[j - Len(q)]
  OBVIOUS
<1> DEFINE c == q \o ns
           m == Len(q) + i
<1> HIDE DEF c
<1>2. m \in 1..Len(c) /\ c[m] = ns[i] BY <1>1 DEF c
<1>3. LastOf(c, k, m) BY <1>1, <1>2 DEF LastOf, c
<1> HIDE DEF m
<1> QED BY <1>2, <1>3 DEF Told, ToldGone, c

(* The handler takes the first notification.                               *)
LEMMA TailTold ==
  ASSUME NEW q \in Seq(Notes), q # << >>, NEW ld, NEW ig, NEW k, NEW spec
  PROVE  /\ Told(q, ld, ig, k, spec) => Told(Tail(q), Taken(ld, Head(q)), Skipped(ig, Head(q)), k, spec)
         /\ ToldGone(q, ld, ig, k) => ToldGone(Tail(q), Taken(ld, Head(q)), Skipped(ig, Head(q)), k)
<1> DEFINE n == Head(q)
           t == Tail(q)
           now == Taken(ld, n)
           left == Skipped(ig, n)
<1>1. /\ Len(q) \in Nat \ {0} /\ n = q[1] /\ Len(t) = Len(q) - 1
      /\ \A i \in 1..Len(t) : i + 1 \in 1..Len(q) /\ t[i] = q[i + 1]
  OBVIOUS
<1> HIDE DEF n, t
<1>2. n.key # k => /\ (k \in DOMAIN now <=> k \in DOMAIN ld) /\ (k \in DOMAIN ld => now[k] = ld[k])
                   /\ k \in left <=> k \in ig
  BY DEF Taken, Skipped, Put, Drop
<1>3. n.key = k /\ n.type \in {"add", "update"} =>
        /\ n.spec.wellFormed => k \in DOMAIN now /\ now[k] = n.spec /\ k \notin left
        /\ ~n.spec.wellFormed => k \in left
  BY DEF Taken, Skipped, Converts, Put
<1>4. n.key = k /\ n.type \in {"delete", "tombstone"} => (k \in DOMAIN now => k \in left)
  BY DEF Taken, Skipped, Converts, Drop
<1> HIDE DEF now, left
<1>5. CASE Silent(q, k)
  <2>1. n.key # k /\ Silent(t, k) BY <1>1, <1>5 DEF Silent
  <2>2. \A i \in 1..Len(q) : ~LastOf(q, k, i) BY <1>5 DEF Silent, LastOf
  <2> QED BY <1>2, <2>1, <2>2 DEF Told, ToldGone, now, left, t, n
<1>6. ASSUME NEW i \in 1..Len(q), LastOf(q, k, i), i = 1
      PROVE  n.key = k /\ q[i] = n /\ Silent(t, k)
  BY <1>1, <1>6 DEF Silent, LastOf
<1>7. ASSUME NEW i \in 1..Len(q), LastOf(q, k, i), i # 1
      PROVE  \E j \in 1..Len(t) : t[j] = q[i] /\ LastOf(t, k, j)
  <2>1. i - 1 \in 1..Len(t) /\ t[i - 1] = q[i] BY <1>1, <1>7
  <2>2. LastOf(t, k, i - 1) BY <1>1, <1>7, <2>1 DEF LastOf
  <2> QED BY <2>1, <2>2
<1>8. CASE ~Silent(q, k)
  <2>1. ASSUME Told(q, ld, ig, k, spec) PROVE Told(t, now, left, k, spec)
    <3>1. PICK i \in 1..Len(q) : LastOf(q, k, i) /\ q[i].type \in {"add", "update"} /\ q[i].spec = spec
      BY <1>8, <2>1 DEF Told
    <3>2. CASE i = 1 BY <1>3, <1>6, <3>1, <3>2 DEF Told
    <3>3. CASE i # 1 BY <1>7, <3>1, <3>3 DEF Told
    <3> QED BY <3>2, <3>3
  <2>2. ASSUME ToldGone(q, ld, ig, k) PROVE ToldGone(t, now, left, k)
    <3>1. PICK i \in 1..Len(q) : LastOf(q, k, i) /\ q[i].type \in {"delete", "tombstone"}
      BY <1>8, <2>2 DEF ToldGone
    <3>2. CASE i = 1 BY <1>4, <1>6, <3>1, <3>2 DEF ToldGone
    <3>3. CASE i # 1 BY <1>7, <3>1, <3>3 DEF ToldGone
    <3> QED BY <3>2, <3>3
  <2> QED BY <2>1, <2>2 DEF now, left, t, n
<1> QED BY <1>5, <1>8

(* The order of a list's notifications: each is there, and once.           *)
LEMMA SeqsOfSet ==
  ASSUME NEW S, IsFiniteSet(S), NEW ns \in Injection(1..Cardinality(S), S)
  PROVE  /\ ns \in Seq(S)
         /\ \A n \in S : \E i \in 1..Len(ns) : ns[i] = n
         /\ \A i, j \in 1..Len(ns) : i # j => ns[i] # ns[j]
<1> DEFINE m == Cardinality(S)
<1>1. m \in Nat BY FS_CardinalityType
<1>2. ns \in [1..m -> S] /\ \A i, j \in 1..m : i # j => ns[i] # ns[j]
  BY DEF Injection, IsInjective
<1> HIDE DEF m
<1>3. ns \in Seq(S) /\ Len(ns) = m BY <1>1, <1>2
<1>4. ASSUME NEW n \in S, \A i \in 1..m : ns[i] # n PROVE FALSE
  <2>1. IsFiniteSet(S \ {n}) /\ Cardinality(S \ {n}) = m - 1 BY FS_RemoveElement DEF m
  <2>2. IsFiniteSet(1..m) /\ Cardinality(1..m) = m BY <1>1, FS_Interval
  <2>3. ns \in [1..m -> S \ {n}] BY <1>2, <1>4
  <2>4. \E i, j \in 1..m : i # j /\ ns[i] = ns[j] BY <1>1, <2>1, <2>2, <2>3, FS_PigeonHole
  <2> QED BY <1>2, <2>4
<1> QED BY <1>2, <1>3, <1>4

-----------------------------------------------------------------------------
(* The informers.                                                          *)

(* The queue of a kind is about objects of that kind.                      *)
KindsOK(queues) ==
  /\ queues \in [Kinds -> Seq(Notes)]
  /\ \A kind \in Kinds : \A i \in 1..Len(queues[kind]) : KindOf(queues[kind][i].key) = kind

(* The types of the informers' variables.                                  *)
InformerTypes ==
  /\ api \in [DOMAIN api -> Specs] /\ DOMAIN api \subseteq Keys /\ IsFiniteSet(DOMAIN api)
  /\ store \in [DOMAIN store -> Specs] /\ DOMAIN store \subseteq Keys /\ IsFiniteSet(DOMAIN store)
  /\ watch \in [Kinds -> {"off", "on", "broken"}]
  /\ KindsOK(queue)
  /\ phase \in {"start", "syncing", "serving", "stopping", "exited"}
  /\ \A k \in DOMAIN loaded : k \in Keys \/ (k[1] = "cluster" /\ k[2] \in DOMAIN defaults)

(* Nothing is queued or loaded before the informers are started, and       *)
(* nothing is ever queued when they are not.                               *)
Beginning ==
  /\ phase = "start" => loaded = EmptyMap /\ ~informed
  /\ ~informed => store = EmptyMap /\ \A kind \in Kinds : watch[kind] = "off" /\ queue[kind] = << >>

(* An informer whose watch is on has seen what the API server holds.       *)
InStep ==
  \A k \in Keys : watch[KindOf(k)] = "on" =>
    (k \in DOMAIN store <=> k \in DOMAIN api) /\ (k \in DOMAIN api => store[k] = api[k])

(* What an informer has seen is loaded, or on its way to the engine.       *)
SeenIsTold == \A k \in DOMAIN store : Told(queue[KindOf(k)], loaded, ignored, k, store[k])

InformersOK == InformerTypes /\ Beginning /\ InStep /\ SeenIsTold

(* Every key is of one of the two kinds.                                   *)
LEMMA KindOfKey == \A k : KindOf(k) \in Kinds
BY DEF KindOf, Kinds

(* Notifications join a queue: it tells the same of the keys they are not  *)
(* about, and what the last of them says of the others.                    *)
Grown(q0, q1, ns) ==
  /\ KindsOK(q1)
  /\ \A k, ld, ig : Silent(ns, k) =>
        /\ \A spec : Told(q0[KindOf(k)], ld, ig, k, spec) => Told(q1[KindOf(k)], ld, ig, k, spec)
        /\ ToldGone(q0[KindOf(k)], ld, ig, k) => ToldGone(q1[KindOf(k)], ld, ig, k)
  /\ \A k, ld, ig : \A i \in 1..Len(ns) : LastOf(ns, k, i) =>
        /\ ns[i].type \in {"add", "update"} => Told(q1[KindOf(k)], ld, ig, k, ns[i].spec)
        /\ ns[i].type \in {"delete", "tombstone"} => ToldGone(q1[KindOf(k)], ld, ig, k)
GrownByOne(q0, q1, n) ==
  /\ KindsOK(q1)
  /\ \A k, ld, ig : k # n.key =>
        /\ \A spec : Told(q0[KindOf(k)], ld, ig, k, spec) => Told(q1[KindOf(k)], ld, ig, k, spec)
        /\ ToldGone(q0[KindOf(k)], ld, ig, k) => ToldGone(q1[KindOf(k)], ld, ig, k)
  /\ \A ld, ig : n.type \in {"add", "update"} => Told(q1[KindOf(n.key)], ld, ig, n.key, n.spec)
  /\ \A ld, ig : n.type \in {"delete", "tombstone"} => ToldGone(q1[KindOf(n.key)], ld, ig, n.key)

(* Queueing the notifications of a list tells each of its objects, and     *)
(* leaves what was told of the others.                                     *)
LEMMA Queued ==
  ASSUME NEW q0, KindsOK(q0), NEW kind \in Kinds, NEW ns \in Seq(Notes),
         \A i \in 1..Len(ns) : KindOf(ns[i].key) = kind,
         NEW q1, q1 = [q0 EXCEPT ![kind] = q0[kind] \o ns]
  PROVE  Grown(q0, q1, ns)
<1>1. /\ q0 \in [Kinds -> Seq(Notes)] /\ q0[kind] \in Seq(Notes)
      /\ \A d \in Kinds : q0[d] \in Seq(Notes)
      /\ \A i \in 1..Len(q0[kind]) : KindOf(q0[kind][i].key) = kind
  BY DEF KindsOK
<1>2. q1[kind] = q0[kind] \o ns /\ \A d \in Kinds : d # kind => q1[d] = q0[d] BY <1>1
<1>3. KindsOK(q1)
  <2>1. q1 \in [Kinds -> Seq(Notes)] BY <1>1
  <2>2. ASSUME NEW i \in 1..Len(q1[kind]) PROVE KindOf(q1[kind][i].key) = kind
    <3>1. \/ i \in 1..Len(q0[kind]) /\ q1[kind][i] = q0[kind][i]
          \/ i - Len(q0[kind]) \in 1..Len(ns) /\ q1[kind][i] = ns[i - Len(q0[kind])]
      BY <1>1, <1>2
    <3> QED BY <1>1, <3>1
  <2>3. ASSUME NEW d \in Kinds, d # kind, NEW i \in 1..Len(q1[d]) PROVE KindOf(q1[d][i].key) = d
    BY <1>2, <2>3 DEF KindsOK
  <2> QED BY <2>1, <2>2, <2>3, Zenon DEF KindsOK
<1>4. ASSUME NEW k, NEW ld, NEW ig, Silent(ns, k)
      PROVE  /\ \A spec : Told(q0[KindOf(k)], ld, ig, k, spec) => Told(q1[KindOf(k)], ld, ig, k, spec)
             /\ ToldGone(q0[KindOf(k)], ld, ig, k) => ToldGone(q1[KindOf(k)], ld, ig, k)
  <2>1. CASE KindOf(k) = kind BY <1>1, <1>2, <1>4, <2>1, ConcatSilent, Zenon
  <2>2. CASE KindOf(k) # kind BY <1>2, <2>2, KindOfKey
  <2> QED BY <2>1, <2>2
<1>5. ASSUME NEW k, NEW ld, NEW ig, NEW i \in 1..Len(ns), LastOf(ns, k, i)
      PROVE  /\ ns[i].type \in {"add", "update"} => Told(q1[KindOf(k)], ld, ig, k, ns[i].spec)
             /\ ns[i].type \in {"delete", "tombstone"} => ToldGone(q1[KindOf(k)], ld, ig, k)
  <2>1. KindOf(k) = kind BY <1>5 DEF LastOf
  <2> QED BY <1>1, <1>2, <1>5, <2>1, ConcatTold, Zenon
<1> QED BY <1>3, <1>4, <1>5, Zenon DEF Grown

(* The same of one notification of a watch.                                *)
LEMMA QueuedOne ==
  ASSUME NEW q0, KindsOK(q0), NEW n \in Notes,
         NEW q1, q1 = [q0 EXCEPT ![KindOf(n.key)] = Append(q0[KindOf(n.key)], n)]
  PROVE  GrownByOne(q0, q1, n)
<1> DEFINE ns == <<n>>
           kind == KindOf(n.key)
<1>1. kind \in Kinds BY KindOfKey
<1>2. q0[kind] \in Seq(Notes) BY <1>1 DEF KindsOK
<1>3. ns \in Seq(Notes) /\ Len(ns) = 1 /\ ns[1] = n OBVIOUS
<1>4. q1 = [q0 EXCEPT ![kind] = q0[kind] \o ns]
  <2>1. Append(q0[kind], n) = q0[kind] \o ns BY <1>2
  <2> QED BY <2>1
<1> HIDE DEF ns, kind
<1>5. \A i \in 1..Len(ns) : KindOf(ns[i].key) = kind BY <1>3 DEF kind
<1>6. \A k : k # n.key => Silent(ns, k) BY <1>3 DEF Silent
<1>7. 1 \in 1..Len(ns) /\ LastOf(ns, n.key, 1) BY <1>3 DEF LastOf
<1>8. Grown(q0, q1, ns) BY <1>1, <1>3, <1>4, <1>5, Queued, Zenon
<1> QED BY <1>3, <1>6, <1>7, <1>8, Zenon DEF Grown, GrownByOne

(* Nothing is stored, queued or loaded when the webhook starts.            *)
LEMMA InformersInit == WebhookInit => InformersOK
<1> SUFFICES ASSUME WebhookInit PROVE InformersOK OBVIOUS
<1>1. /\ api = EmptyMap /\ store = EmptyMap /\ loaded = EmptyMap /\ phase = "start" /\ informed = FALSE
      /\ watch = [kind \in Kinds |-> "off"] /\ queue = [kind \in Kinds |-> << >>]
  BY DEF WebhookInit
<1>2. EmptyMap \in [{} -> Specs] /\ DOMAIN EmptyMap = {} BY DEF EmptyMap
<1>3. IsFiniteSet({}) BY FS_EmptySet
<1>4. InformerTypes BY <1>1, <1>2, <1>3 DEF InformerTypes, KindsOK
<1>5. Beginning /\ InStep /\ SeenIsTold
  BY <1>1, <1>2, KindOfKey DEF Beginning, InStep, SeenIsTold
<1> QED BY <1>4, <1>5 DEF InformersOK

(* What a change of an object that is watched tells.                       *)
LEMMA ApplyTells ==
  ASSUME InformerTypes, NEW key \in Keys, NEW spec \in Specs, ApplyObject(key, spec),
         watch[KindOf(key)] = "on"
  PROVE  \E n \in Notes : /\ n.key = key /\ n.spec = spec /\ n.type \in {"add", "update"}
                          /\ GrownByOne(queue, queue', n)
<1> DEFINE n == Notification(IF key \in DOMAIN store THEN "update" ELSE "add", key, spec)
<1>1. queue' = [queue EXCEPT ![KindOf(key)] = Append(queue[KindOf(key)], n)] BY DEF ApplyObject
<1>2. n \in Notes /\ n.key = key /\ n.spec = spec /\ n.type \in {"add", "update"}
  BY DEF Notes, Notification
<1> HIDE DEF n
<1>3. queue' = [queue EXCEPT ![KindOf(n.key)] = Append(queue[KindOf(n.key)], n)] BY <1>1, <1>2, Zenon
<1>4. GrownByOne(queue, queue', n) BY <1>2, <1>3, QueuedOne, Zenon DEF InformerTypes
<1> QED BY <1>2, <1>4, Zenon

(* What the removal of an object that is watched tells.                    *)
LEMMA RemoveTells ==
  ASSUME InformerTypes, NEW key \in Keys, RemoveObject(key), watch[KindOf(key)] = "on"
  PROVE  \E n \in Notes : n.key = key /\ n.type = "delete" /\ GrownByOne(queue, queue', n)
<1> DEFINE n == Notification("delete", key, api[key])
<1>1. queue' = [queue EXCEPT ![KindOf(key)] = Append(queue[KindOf(key)], n)] /\ key \in DOMAIN api
  BY DEF RemoveObject
<1>2. n \in Notes /\ n.key = key /\ n.type = "delete" BY <1>1 DEF Notes, Notification, InformerTypes
<1> HIDE DEF n
<1>3. queue' = [queue EXCEPT ![KindOf(n.key)] = Append(queue[KindOf(n.key)], n)] BY <1>1, <1>2, Zenon
<1>4. GrownByOne(queue, queue', n) BY <1>2, <1>3, QueuedOne, Zenon DEF InformerTypes
<1> QED BY <1>2, <1>4, Zenon

(* Creating or changing a policy object keeps the invariant.               *)
LEMMA ApplyKeeps ==
  ASSUME InformersOK, NEW key \in Keys, NEW spec \in Specs, ApplyObject(key, spec)
  PROVE  InformersOK'
<1> DEFINE kind == KindOf(key)
<1>0. InformerTypes /\ Beginning /\ InStep /\ SeenIsTold BY DEF InformersOK
<1>1. UNCHANGED <<watch, phase, informed, loaded, ignored>> /\ api' = Put(api, key, spec) BY DEF ApplyObject
<1>2. kind \in Kinds BY KindOfKey
<1>3. /\ api' \in [DOMAIN api' -> Specs] /\ DOMAIN api' = DOMAIN api \cup {key}
      /\ DOMAIN api' \subseteq Keys /\ IsFiniteSet(DOMAIN api')
      /\ api'[key] = spec /\ \A k \in DOMAIN api : k # key => api'[k] = api[k]
  <2>1. api \in [DOMAIN api -> Specs] /\ DOMAIN api \subseteq Keys /\ IsFiniteSet(DOMAIN api)
    BY <1>0 DEF InformerTypes
  <2>2. IsFiniteSet(DOMAIN api \cup {key}) BY <2>1, FS_AddElement, Zenon
  <2> QED BY <1>1, <2>1, <2>2 DEF Put
<1>4. CASE watch[kind] = "on"
  <2>1. store' = Put(store, key, spec) BY <1>4 DEF ApplyObject
  <2>2. /\ store' \in [DOMAIN store' -> Specs] /\ DOMAIN store' = DOMAIN store \cup {key}
        /\ DOMAIN store' \subseteq Keys /\ IsFiniteSet(DOMAIN store')
        /\ store'[key] = spec /\ \A k \in DOMAIN store : k # key => store'[k] = store[k]
    <3>1. store \in [DOMAIN store -> Specs] /\ DOMAIN store \subseteq Keys /\ IsFiniteSet(DOMAIN store)
      BY <1>0 DEF InformerTypes
    <3>2. IsFiniteSet(DOMAIN store \cup {key}) BY <3>1, FS_AddElement, Zenon
    <3> QED BY <2>1, <3>1, <3>2 DEF Put
  <2>3. PICK n \in Notes : /\ n.key = key /\ n.spec = spec /\ n.type \in {"add", "update"}
                           /\ GrownByOne(queue, queue', n)
    BY <1>0, <1>4, ApplyTells
  <2>4. /\ KindsOK(queue')
        /\ \A k : k # key => \A sp : Told(queue[KindOf(k)], loaded, ignored, k, sp) => Told(queue'[KindOf(k)], loaded, ignored, k, sp)
        /\ Told(queue'[KindOf(key)], loaded, ignored, key, spec)
    BY <2>3 DEF GrownByOne
  <2>5. InformerTypes' BY <1>0, <1>1, <1>3, <2>2, <2>4, Zenon DEF InformerTypes
  <2>6. Beginning' BY <1>0, <1>1, <1>2, <1>4 DEF Beginning
  <2>7. InStep' BY <1>0, <1>1, <1>3, <2>2 DEF InStep
  <2>8. SeenIsTold' BY <1>0, <1>1, <2>2, <2>4, Zenon DEF SeenIsTold
  <2> QED BY <2>5, <2>6, <2>7, <2>8 DEF InformersOK
<1>5. CASE watch[kind] # "on"
  <2>1. UNCHANGED <<store, queue>> BY <1>5 DEF ApplyObject
  <2>2. InformerTypes' BY <1>0, <1>1, <1>3, <2>1, Zenon DEF InformerTypes
  <2>3. Beginning' /\ SeenIsTold' BY <1>0, <1>1, <2>1, Zenon DEF Beginning, SeenIsTold
  <2>4. InStep' BY <1>0, <1>1, <1>3, <1>5, <2>1 DEF InStep
  <2> QED BY <2>2, <2>3, <2>4 DEF InformersOK
<1> QED BY <1>4, <1>5

(* Deleting a policy object keeps it.                                      *)
LEMMA RemoveKeeps ==
  ASSUME InformersOK, NEW key \in Keys, RemoveObject(key)
  PROVE  InformersOK'
<1> DEFINE kind == KindOf(key)
<1>0. InformerTypes /\ Beginning /\ InStep /\ SeenIsTold BY DEF InformersOK
<1>1. /\ UNCHANGED <<watch, phase, informed, loaded, ignored>> /\ api' = Drop(api, key)
      /\ key \in DOMAIN api
  BY DEF RemoveObject
<1>2. kind \in Kinds BY KindOfKey
<1>3. /\ api' \in [DOMAIN api' -> Specs] /\ DOMAIN api' = DOMAIN api \ {key}
      /\ DOMAIN api' \subseteq Keys /\ IsFiniteSet(DOMAIN api')
      /\ \A k \in DOMAIN api' : api'[k] = api[k]
  <2>1. api \in [DOMAIN api -> Specs] /\ DOMAIN api \subseteq Keys /\ IsFiniteSet(DOMAIN api)
    BY <1>0 DEF InformerTypes
  <2>2. IsFiniteSet(DOMAIN api \ {key}) BY <2>1, FS_RemoveElement, Zenon
  <2> QED BY <1>1, <2>1, <2>2 DEF Drop
<1>4. CASE watch[kind] = "on"
  <2>1. store' = Drop(store, key) BY <1>4 DEF RemoveObject
  <2>2. /\ store' \in [DOMAIN store' -> Specs] /\ DOMAIN store' = DOMAIN store \ {key}
        /\ DOMAIN store' \subseteq Keys /\ IsFiniteSet(DOMAIN store')
        /\ \A k \in DOMAIN store' : store'[k] = store[k]
    <3>1. store \in [DOMAIN store -> Specs] /\ DOMAIN store \subseteq Keys /\ IsFiniteSet(DOMAIN store)
      BY <1>0 DEF InformerTypes
    <3>2. IsFiniteSet(DOMAIN store \ {key}) BY <3>1, FS_RemoveElement, Zenon
    <3> QED BY <2>1, <3>1, <3>2 DEF Drop
  <2>3. PICK n \in Notes : n.key = key /\ GrownByOne(queue, queue', n)
    BY <1>0, <1>4, RemoveTells, Zenon
  <2>4. /\ KindsOK(queue')
        /\ \A k : k # key => \A sp : Told(queue[KindOf(k)], loaded, ignored, k, sp) => Told(queue'[KindOf(k)], loaded, ignored, k, sp)
    BY <2>3 DEF GrownByOne
  <2>5. InformerTypes' BY <1>0, <1>1, <1>3, <2>2, <2>4, Zenon DEF InformerTypes
  <2>6. Beginning' BY <1>0, <1>1, <1>2, <1>4 DEF Beginning
  <2>7. InStep' BY <1>0, <1>1, <1>3, <2>2 DEF InStep
  <2>8. SeenIsTold' BY <1>0, <1>1, <2>2, <2>4, Zenon DEF SeenIsTold
  <2> QED BY <2>5, <2>6, <2>7, <2>8 DEF InformersOK
<1>5. CASE watch[kind] # "on"
  <2>1. UNCHANGED <<store, queue>> BY <1>5 DEF RemoveObject
  <2>2. InformerTypes' BY <1>0, <1>1, <1>3, <2>1, Zenon DEF InformerTypes
  <2>3. Beginning' /\ SeenIsTold' BY <1>0, <1>1, <2>1, Zenon DEF Beginning, SeenIsTold
  <2>4. InStep' BY <1>0, <1>1, <1>3, <1>5, <2>1 DEF InStep
  <2> QED BY <2>2, <2>3, <2>4 DEF InformersOK
<1> QED BY <1>4, <1>5

(* What a list tells of a key: nothing when the informer has seen the key  *)
(* as it is, else what the API server holds.                               *)
LEMMA DifferencesTell ==
  ASSUME InformerTypes, NEW kind \in Kinds
  PROVE  /\ Differences(kind) \subseteq Notes /\ IsFiniteSet(Differences(kind))
         /\ \A n \in Differences(kind) : KindOf(n.key) = kind
         /\ \A n, m \in Differences(kind) : n.key = m.key => n = m
         /\ \A n \in Differences(kind) : n.key \in DOMAIN api => n.type \in {"add", "update"} /\ n.spec = api[n.key]
         /\ \A n \in Differences(kind) : n.key \in DOMAIN api \cup DOMAIN store
         /\ \A n \in Differences(kind) : n.key \notin DOMAIN api => n.type = "tombstone"
         /\ \A k \in OfKind(store, kind) \ DOMAIN api : \E n \in Differences(kind) : n.key = k
         /\ \A k \in OfKind(api, kind) : (k \in DOMAIN store => store[k] # api[k]) =>
               \E n \in Differences(kind) : n.key = k
         /\ \A n \in Differences(kind) : n.key \in DOMAIN api /\ n.key \in DOMAIN store => store[n.key] # api[n.key]
<1> DEFINE Changed == {k \in OfKind(api, kind) : k \in DOMAIN store => store[k] # api[k]}
           Left == OfKind(store, kind) \ DOMAIN api
           New(k) == Notification(IF k \in DOMAIN store THEN "update" ELSE "add", k, api[k])
           Old(k) == Notification("tombstone", k, store[k])
<1>1. Differences(kind) = {New(k) : k \in Changed} \cup {Old(k) : k \in Left} BY Zenon DEF Differences
<1>2. /\ Changed \subseteq DOMAIN api /\ Left \subseteq DOMAIN store \ DOMAIN api
      /\ \A k \in Changed \cup Left : KindOf(k) = kind /\ k \in Keys
      /\ \A k \in Changed : k \in DOMAIN store => store[k] # api[k]
      /\ \A k \in OfKind(api, kind) : (k \in DOMAIN store => store[k] # api[k]) => k \in Changed
      /\ \A k \in OfKind(store, kind) \ DOMAIN api : k \in Left
  BY DEF OfKind, InformerTypes
<1>3. /\ \A k \in Changed : /\ New(k) \in Notes /\ New(k).key = k /\ New(k).spec = api[k]
                           /\ New(k).type \in {"add", "update"}
      /\ \A k \in Left : Old(k) \in Notes /\ Old(k).key = k /\ Old(k).type = "tombstone"
  BY <1>2 DEF Notification, Notes, InformerTypes
<1>4. IsFiniteSet(Differences(kind))
  <2>1. IsFiniteSet(Changed) /\ IsFiniteSet(Left) BY <1>2, FS_Subset, Zenon DEF InformerTypes
  <2> HIDE DEF Changed, Left, New, Old
  <2>2. IsFiniteSet({New(k) : k \in Changed})
    <3> DEFINE f == [k \in Changed |-> New(k)]
               T == {New(k) : k \in Changed}
    <3>1. f \in Surjection(Changed, T) BY Zenon DEF Surjection
    <3> HIDE DEF f, T
    <3>2. IsFiniteSet(T) BY <2>1, <3>1, FS_Surjection
    <3> QED BY <3>2 DEF T
  <2>3. IsFiniteSet({Old(k) : k \in Left})
    <3> DEFINE f == [k \in Left |-> Old(k)]
               T == {Old(k) : k \in Left}
    <3>1. f \in Surjection(Left, T) BY Zenon DEF Surjection
    <3> HIDE DEF f, T
    <3>2. IsFiniteSet(T) BY <2>1, <3>1, FS_Surjection
    <3> QED BY <3>2 DEF T
  <2> QED BY <1>1, <2>2, <2>3, FS_Union, Zenon
<1> HIDE DEF Changed, Left, New, Old
<1>5. \A n \in Differences(kind) :
        \/ \E k \in Changed : n = New(k)
        \/ \E k \in Left : n = Old(k)
  BY <1>1, Zenon
<1>6. /\ \A k \in Changed : New(k) \in Differences(kind)
      /\ \A k \in Left : Old(k) \in Differences(kind)
  BY <1>1, Zenon
<1> HIDE DEF Differences
<1>7. \A n, m \in Differences(kind) : n.key = m.key => n = m BY <1>2, <1>3, <1>5
<1> QED BY <1>2, <1>3, <1>4, <1>5, <1>6, <1>7

(* The notifications of a list tell every difference it found.             *)
LEMMA ListTells ==
  ASSUME InformerTypes, NEW kind \in Kinds, List(kind)
  PROVE  \E ns \in Seq(Notes) :
           /\ Grown(queue, queue', ns)
           /\ \A i \in 1..Len(ns) : ns[i] \in Differences(kind)
           /\ \A n \in Differences(kind) : \E i \in 1..Len(ns) : ns[i] = n
           /\ \A i, j \in 1..Len(ns) : i # j => ns[i] # ns[j]
<1> DEFINE D == Differences(kind)
<1>1. PICK ns \in Injection(1..Cardinality(D), D) : queue' = [queue EXCEPT ![kind] = queue[kind] \o ns] BY Zenon DEF List
<1>2. D \subseteq Notes /\ IsFiniteSet(D) /\ \A n \in D : KindOf(n.key) = kind BY DifferencesTell
<1> HIDE DEF D
<1>3. /\ ns \in Seq(D) /\ \A n \in D : \E i \in 1..Len(ns) : ns[i] = n
      /\ \A i, j \in 1..Len(ns) : i # j => ns[i] # ns[j]
  BY <1>1, <1>2, SeqsOfSet
<1>4. ns \in Seq(Notes) /\ \A i \in 1..Len(ns) : ns[i] \in D /\ KindOf(ns[i].key) = kind BY <1>2, <1>3
<1>5. Grown(queue, queue', ns) BY <1>1, <1>4, Queued, Zenon DEF InformerTypes
<1> QED BY <1>3, <1>4, <1>5, Zenon DEF D

(* A list, the first or one after a broken watch, keeps the invariant.     *)
LEMMA ListKeeps ==
  ASSUME InformersOK, NEW kind \in Kinds, List(kind)
  PROVE  InformersOK'
<1>0. InformerTypes /\ Beginning /\ InStep /\ SeenIsTold BY DEF InformersOK
<1>1. /\ UNCHANGED <<api, phase, informed, loaded, ignored>> /\ informed
      /\ watch' = [watch EXCEPT ![kind] = "on"]
      /\ store' = [k \in (DOMAIN store \ OfKind(store, kind)) \cup OfKind(api, kind) |->
                     IF KindOf(k) = kind THEN api[k] ELSE store[k]]
  BY DEF List, apiVars
<1> DEFINE D == Differences(kind)
<1>2. PICK ns \in Seq(Notes) :
        /\ Grown(queue, queue', ns)
        /\ \A i \in 1..Len(ns) : ns[i] \in D
        /\ \A n \in D : \E i \in 1..Len(ns) : ns[i] = n
        /\ \A i, j \in 1..Len(ns) : i # j => ns[i] # ns[j]
  BY <1>0, ListTells, Zenon
<1>3. /\ \A n \in D : KindOf(n.key) = kind
      /\ \A n, m \in D : n.key = m.key => n = m
      /\ \A n \in D : n.key \in DOMAIN api => n.type \in {"add", "update"} /\ n.spec = api[n.key]
      /\ \A k \in OfKind(api, kind) : (k \in DOMAIN store => store[k] # api[k]) => \E n \in D : n.key = k
      /\ \A n \in D : n.key \in DOMAIN api /\ n.key \in DOMAIN store => store[n.key] # api[n.key]
  BY <1>0, DifferencesTell
<1> HIDE DEF D
<1>4. /\ \A n \in D : \E i \in 1..Len(ns) : ns[i] = n
      /\ \A i, j \in 1..Len(ns) : i # j => ns[i] # ns[j]
  BY <1>2
<1>5. \A i \in 1..Len(ns) : ns[i] \in D /\ KindOf(ns[i].key) = kind BY <1>2, <1>3
<1>6. Grown(queue, queue', ns) BY <1>2
<1>7. /\ DOMAIN store' = (DOMAIN store \ OfKind(store, kind)) \cup OfKind(api, kind)
      /\ store' \in [DOMAIN store' -> Specs] /\ DOMAIN store' \subseteq Keys
      /\ \A k \in DOMAIN store' : KindOf(k) = kind => k \in DOMAIN api /\ store'[k] = api[k]
      /\ \A k \in DOMAIN store' : KindOf(k) # kind => k \in DOMAIN store /\ store'[k] = store[k]
      /\ \A k \in DOMAIN api : KindOf(k) = kind => k \in DOMAIN store'
      /\ \A k \in DOMAIN store : KindOf(k) # kind => k \in DOMAIN store'
  BY <1>0, <1>1 DEF OfKind, InformerTypes
<1>8. IsFiniteSet(DOMAIN store')
  <2>1. DOMAIN store' \subseteq DOMAIN store \cup DOMAIN api BY <1>7
  <2>2. IsFiniteSet(DOMAIN store \cup DOMAIN api) BY <1>0, FS_Union, Zenon DEF InformerTypes
  <2> QED BY <2>1, <2>2, FS_Subset, Zenon
<1>9. InformerTypes'
  <2>1. watch' \in [Kinds -> {"off", "on", "broken"}] BY <1>0, <1>1 DEF InformerTypes
  <2>2. KindsOK(queue') BY <1>6 DEF Grown
  <2> QED BY <1>0, <1>1, <1>7, <1>8, <2>1, <2>2, Zenon DEF InformerTypes
<1>10. Beginning' BY <1>0, <1>1, Zenon DEF Beginning
<1>11. InStep'
  <2> SUFFICES ASSUME NEW k \in Keys, watch'[KindOf(k)] = "on"
               PROVE  /\ k \in DOMAIN store' <=> k \in DOMAIN api'
                      /\ k \in DOMAIN api' => store'[k] = api'[k]
    BY DEF InStep
  <2>1. CASE KindOf(k) = kind BY <1>1, <1>7, <2>1, Zenon
  <2>2. CASE KindOf(k) # kind
    <3>1. watch[KindOf(k)] = "on" BY <1>0, <1>1, <2>2, KindOfKey DEF InformerTypes
    <3>2. (k \in DOMAIN store <=> k \in DOMAIN api) /\ (k \in DOMAIN api => store[k] = api[k])
      BY <1>0, <3>1 DEF InStep
    <3> QED BY <1>1, <1>7, <2>2, <3>2, Zenon
  <2> QED BY <2>1, <2>2
<1>12. SeenIsTold'
  <2> SUFFICES ASSUME NEW k \in DOMAIN store' PROVE Told(queue'[KindOf(k)], loaded, ignored, k, store'[k])
    BY <1>1, Zenon DEF SeenIsTold
  <2>1. CASE Silent(ns, k)
    <3>1. k \in DOMAIN store /\ store'[k] = store[k]
      <4>1. CASE KindOf(k) # kind BY <1>7, <4>1
      <4>2. CASE KindOf(k) = kind
        <5>1. k \in OfKind(api, kind) /\ store'[k] = api[k] BY <1>7, <4>2 DEF OfKind
        <5>2. ~\E n \in D : n.key = k BY <1>4, <2>1 DEF Silent
        <5> QED BY <1>3, <5>1, <5>2, Zenon
      <4> QED BY <4>1, <4>2
    <3>2. Told(queue[KindOf(k)], loaded, ignored, k, store[k]) BY <1>0, <3>1 DEF SeenIsTold
    <3> QED BY <1>6, <2>1, <3>1, <3>2, Zenon DEF Grown
  <2>2. CASE ~Silent(ns, k)
    <3>1. PICK i \in 1..Len(ns) : ns[i].key = k BY <2>2 DEF Silent
    <3>2. LastOf(ns, k, i)
      <4>1. \A j \in 1..Len(ns) : ns[j].key = k => ns[j] = ns[i] BY <1>3, <1>5, <3>1, Zenon
      <4>2. \A j \in 1..Len(ns) : j > i => j # i BY <1>4, <3>1
      <4> QED BY <1>4, <3>1, <4>1, <4>2, Zenon DEF LastOf
    <3>3. KindOf(k) = kind BY <1>5, <3>1
    <3>4. k \in DOMAIN api /\ store'[k] = api[k] BY <1>7, <3>3
    <3>5. ns[i].type \in {"add", "update"} /\ ns[i].spec = api[k] BY <1>3, <1>5, <3>1, <3>4
    <3>6. Told(queue'[KindOf(k)], loaded, ignored, k, ns[i].spec) BY <1>6, <3>2, <3>5, Zenon DEF Grown
    <3> QED BY <3>4, <3>5, <3>6
  <2> QED BY <2>1, <2>2
<1> QED BY <1>9, <1>10, <1>11, <1>12 DEF InformersOK

(* A handler takes a notification: the engine comes to hold what was told. *)
LEMMA HandledIsTaken ==
  ASSUME InformerTypes, NEW kind \in Kinds, HandleNotification(kind)
  PROVE  /\ queue[kind] \in Seq(Notes) /\ queue[kind] # << >>
         /\ Head(queue[kind]) \in Notes /\ KindOf(Head(queue[kind]).key) = kind
         /\ loaded' = Taken(loaded, Head(queue[kind]))
         /\ ignored' = Skipped(ignored, Head(queue[kind]))
<1> DEFINE n == Head(queue[kind])
<1>1. queue[kind] \in Seq(Notes) /\ queue[kind] # << >> BY DEF InformerTypes, KindsOK, HandleNotification
<1>2. n \in Notes /\ n = queue[kind][1] /\ 1 \in 1..Len(queue[kind]) BY <1>1
<1>3. KindOf(n.key) = kind BY <1>2 DEF InformerTypes, KindsOK
<1>4. /\ loaded' = IF kind = "cluster" THEN HandledCluster(n) ELSE HandledNamespaced(n)
      /\ ignored' = Skipped(ignored, n)
  BY Zenon DEF HandleNotification, Skipped
<1> HIDE DEF n
<1>5. n.key \in ({"cluster"} \cup Namespaces) \X Names BY <1>2 DEF Notes, Keys
<1>6. n.key = <<n.key[1], n.key[2]>> BY <1>5
<1>7. CASE kind = "cluster"
  <2>1. n.key = <<"cluster", n.key[2]>> BY <1>3, <1>6, <1>7 DEF KindOf
  <2>2. HandledCluster(n) = Taken(loaded, n)
    BY <2>1, Zenon DEF HandledCluster, Taken, SetClusterPolicy, DeleteClusterPolicy
  <2> QED BY <1>1, <1>2, <1>3, <1>4, <1>7, <2>2 DEF n
<1>8. CASE kind # "cluster"
  <2>1. HandledNamespaced(n) = Taken(loaded, n)
    BY <1>6, Zenon DEF HandledNamespaced, Taken, SetNamespacedPolicy, DeleteNamespacedPolicy
  <2> QED BY <1>1, <1>2, <1>3, <1>4, <1>8, <2>1 DEF n
<1> QED BY <1>7, <1>8

(* What the queues still tell after the handler took a notification.       *)
LEMMA HandledStaysTold ==
  ASSUME InformerTypes, NEW kind \in Kinds, HandleNotification(kind), NEW k
  PROVE  /\ \A spec : Told(queue[KindOf(k)], loaded, ignored, k, spec) => Told(queue'[KindOf(k)], loaded', ignored', k, spec)
         /\ ToldGone(queue[KindOf(k)], loaded, ignored, k) => ToldGone(queue'[KindOf(k)], loaded', ignored', k)
<1> DEFINE n == Head(queue[kind])
<1>1. /\ queue[kind] \in Seq(Notes) /\ queue[kind] # << >> /\ n \in Notes /\ KindOf(n.key) = kind
      /\ loaded' = Taken(loaded, n) /\ ignored' = Skipped(ignored, n)
  BY HandledIsTaken
<1>2. queue \in [Kinds -> Seq(Notes)] /\ queue' = [queue EXCEPT ![kind] = Tail(queue[kind])]
  BY DEF InformerTypes, KindsOK, HandleNotification
<1>3. CASE KindOf(k) = kind
  <2>1. queue'[KindOf(k)] = Tail(queue[kind]) BY <1>2, <1>3
  <2> QED BY <1>1, <1>3, <2>1, TailTold, Zenon
<1>4. CASE KindOf(k) # kind
  <2>1. queue'[KindOf(k)] = queue[KindOf(k)] BY <1>2, <1>4, KindOfKey
  <2> HIDE DEF n
  <2>2. n.key # k BY <1>1, <1>4
  <2>3. /\ (k \in DOMAIN loaded' <=> k \in DOMAIN loaded) /\ (k \in DOMAIN loaded => loaded'[k] = loaded[k])
        /\ k \in ignored' <=> k \in ignored
    BY <1>1, <2>2 DEF Taken, Skipped, Put, Drop
  <2> QED BY <2>1, <2>3, Zenon DEF Told, ToldGone
<1> QED BY <1>3, <1>4

(* The handlers keep the invariant.                                        *)
LEMMA HandleKeeps ==
  ASSUME InformersOK, NEW kind \in Kinds, HandleNotification(kind)
  PROVE  InformersOK'
<1> DEFINE n == Head(queue[kind])
<1>0. InformerTypes /\ Beginning /\ InStep /\ SeenIsTold BY DEF InformersOK
<1>1. /\ queue[kind] \in Seq(Notes) /\ queue[kind] # << >> /\ n \in Notes
      /\ loaded' = Taken(loaded, n)
  BY <1>0, HandledIsTaken
<1>2. /\ queue \in [Kinds -> Seq(Notes)] /\ queue' = [queue EXCEPT ![kind] = Tail(queue[kind])]
      /\ UNCHANGED <<api, watch, store, phase, informed>> /\ phase # "start"
  BY <1>0 DEF InformerTypes, KindsOK, HandleNotification, apiVars
<1>3. InformerTypes'
  <2>1. KindsOK(queue')
    <3>1. queue' \in [Kinds -> Seq(Notes)] BY <1>1, <1>2
    <3>2. ASSUME NEW d \in Kinds, NEW i \in 1..Len(queue'[d]) PROVE KindOf(queue'[d][i].key) = d
      <4>1. CASE d = kind
        <5>1. queue'[d][i] = queue[kind][i + 1] /\ i + 1 \in 1..Len(queue[kind])
          BY <1>1, <1>2, <3>2, <4>1
        <5> QED BY <1>0, <4>1, <5>1 DEF InformerTypes, KindsOK
      <4>2. CASE d # kind BY <1>0, <1>2, <3>2, <4>2 DEF InformerTypes, KindsOK
      <4> QED BY <4>1, <4>2
    <3> QED BY <3>1, <3>2, Zenon DEF KindsOK
  <2>2. DOMAIN loaded' \subseteq DOMAIN loaded \cup Keys
    <3>1. n.key \in Keys BY <1>1 DEF Notes
    <3> HIDE DEF n
    <3> QED BY <1>1, <3>1 DEF Taken, Put, Drop
  <2>3. \A k \in DOMAIN loaded' : k \in Keys \/ (k[1] = "cluster" /\ k[2] \in DOMAIN defaults)
    BY <1>0, <2>2, Zenon DEF InformerTypes
  <2> QED BY <1>0, <1>2, <2>1, <2>3, Zenon DEF InformerTypes
<1>4. Beginning'
  <2>1. informed BY <1>0, <1>1 DEF Beginning
  <2> QED BY <1>2, <2>1, Zenon DEF Beginning
<1>5. InStep' BY <1>0, <1>2, Zenon DEF InStep
<1>6. SeenIsTold'
  <2> SUFFICES ASSUME NEW k \in DOMAIN store PROVE Told(queue'[KindOf(k)], loaded', ignored', k, store[k])
    BY <1>2, Zenon DEF SeenIsTold
  <2>1. Told(queue[KindOf(k)], loaded, ignored, k, store[k]) BY <1>0, Zenon DEF SeenIsTold
  <2> QED BY <1>0, <2>1, HandledStaysTold, Zenon
<1> QED BY <1>3, <1>4, <1>5, <1>6 DEF InformersOK

(* Every step keeps it.                                                    *)
LEMMA InformersNext == InformersOK /\ [WebhookNext]_webhookVars => InformersOK'
<1> SUFFICES ASSUME InformersOK, [WebhookNext]_webhookVars PROVE InformersOK' OBVIOUS
<1>0. InformerTypes /\ Beginning /\ InStep /\ SeenIsTold BY DEF InformersOK
<1>1. ASSUME UNCHANGED <<api, store, queue, watch, loaded, ignored, informed>>,
             phase' = phase \/ phase' \in {"syncing", "serving", "stopping", "exited"}
      PROVE  InformersOK'
  <2>1. InformerTypes' BY <1>0, <1>1, Zenon DEF InformerTypes
  <2>2. Beginning' BY <1>0, <1>1 DEF Beginning
  <2>3. InStep' /\ SeenIsTold' BY <1>0, <1>1, Zenon DEF InStep, SeenIsTold
  <2> QED BY <2>1, <2>2, <2>3 DEF InformersOK
<1>2. ASSUME NEW kind \in Kinds, LoseWatch(kind) PROVE InformersOK'
  <2>1. /\ UNCHANGED <<api, store, queue, phase, informed, loaded, ignored>> /\ watch[kind] = "on"
        /\ watch' = [watch EXCEPT ![kind] = "broken"]
    BY <1>2 DEF LoseWatch, apiVars
  <2>2. watch \in [Kinds -> {"off", "on", "broken"}] BY <1>0 DEF InformerTypes
  <2>3. watch' \in [Kinds -> {"off", "on", "broken"}] /\ \A d \in Kinds : watch'[d] = "on" => watch[d] = "on"
    BY <2>1, <2>2
  <2>4. InformerTypes' BY <1>0, <2>1, <2>3, Zenon DEF InformerTypes
  <2>5. Beginning' BY <1>0, <2>1 DEF Beginning
  <2>6. InStep' BY <1>0, <2>1, <2>3, KindOfKey, Zenon DEF InStep
  <2>7. SeenIsTold' BY <1>0, <2>1, Zenon DEF SeenIsTold
  <2> QED BY <2>4, <2>5, <2>6, <2>7 DEF InformersOK
<1>3. CASE StartWithDefaults
  <2>1. /\ UNCHANGED <<api, store, queue, watch, informed>> /\ phase = "start" /\ phase' = "serving"
        /\ loaded' = LoadDefaultPolicies(loaded)
    BY <1>3 DEF StartWithDefaults, apiVars, informerVars
  <2>2. ~informed /\ store = EmptyMap /\ loaded = EmptyMap BY <1>0, <2>1 DEF Beginning
  <2>3. ASSUME NEW k \in DOMAIN loaded' PROVE k[1] = "cluster" /\ k[2] \in DOMAIN defaults
    <3>1. DOMAIN loaded' = {<<"cluster", m>> : m \in DOMAIN defaults}
      BY <2>1, <2>2 DEF LoadDefaultPolicies, EmptyMap
    <3> QED BY <2>3, <3>1
  <2>4. InformerTypes' BY <1>0, <2>1, <2>3, Zenon DEF InformerTypes
  <2>5. Beginning' BY <1>0, <2>1 DEF Beginning
  <2>6. InStep' BY <1>0, <2>1, Zenon DEF InStep
  <2>7. DOMAIN store' = {} BY <2>1, <2>2 DEF EmptyMap
  <2> QED BY <2>4, <2>5, <2>6, <2>7 DEF InformersOK, SeenIsTold
<1>4. CASE StartInformers
  <2>1. /\ UNCHANGED <<api, store, queue, watch, loaded, ignored>> /\ phase' = "syncing" /\ informed'
    BY <1>4 DEF StartInformers, apiVars, informerVars
  <2>2. InformerTypes' BY <1>0, <2>1, Zenon DEF InformerTypes
  <2>3. Beginning' BY <2>1 DEF Beginning
  <2>4. InStep' /\ SeenIsTold' BY <1>0, <2>1, Zenon DEF InStep, SeenIsTold
  <2> QED BY <2>2, <2>3, <2>4 DEF InformersOK
<1>5. CASE \/ CacheSynced \/ StopServing \/ ExitProcess \/ UNCHANGED webhookVars
           \/ \E r \in Reviews : \/ \E body \in {"invalid", "unknown", "pod"}, ns \in Namespaces, pod \in Pods :
                                       Receive(r, body, ns, pod)
                                 \/ Evaluate(r) \/ PublishAlert(r) \/ Respond(r)
  <2>1. /\ UNCHANGED <<api, store, queue, watch, loaded, ignored, informed>>
        /\ phase' = phase \/ phase' \in {"syncing", "serving", "stopping", "exited"}
    BY <1>5, Zenon DEF CacheSynced, StopServing, ExitProcess, Receive, Evaluate, PublishAlert, Respond,
       webhookVars, apiVars, informerVars
  <2> QED BY <1>1, <2>1, Zenon
<1>6. CASE \E key \in Keys : (\E spec \in Specs : ApplyObject(key, spec)) \/ RemoveObject(key)
  BY <1>6, ApplyKeeps, RemoveKeeps, Zenon
<1>7. CASE \E kind \in Kinds : LoseWatch(kind) \/ List(kind) \/ HandleNotification(kind)
  BY <1>2, <1>7, ListKeeps, HandleKeeps, Zenon
<1> QED BY <1>3, <1>4, <1>5, <1>6, <1>7, Zenon DEF WebhookNext

(* Caught up, an informer has nothing left to tell.                        *)
LEMMA CaughtUpIsLoaded == InformersOK => ChangesAreLoaded
<1> SUFFICES ASSUME InformersOK, NEW kind \in Kinds, CaughtUp(kind),
                    NEW k \in OfKind(api, kind), api[k].wellFormed
             PROVE  k \in DOMAIN loaded /\ loaded[k] = api[k]
  BY Zenon DEF ChangesAreLoaded
<1>1. k \in DOMAIN api /\ KindOf(k) = kind BY DEF OfKind
<1>2. watch[kind] = "on" /\ queue[kind] = << >> BY DEF CaughtUp
<1>3. k \in Keys BY <1>1 DEF InformersOK, InformerTypes
<1>4. k \in DOMAIN store /\ store[k] = api[k] BY <1>1, <1>2, <1>3 DEF InformersOK, InStep
<1>5. Told(<< >>, loaded, ignored, k, api[k]) BY <1>1, <1>2, <1>4, Zenon DEF InformersOK, SeenIsTold
<1> QED BY <1>5 DEF Told

-----------------------------------------------------------------------------
(* What an informer has not seen, or has seen deleted, is not loaded, or   *)
(* the handler ignored its end, or its end is on its way to the handler.   *)
UnseenIsGone ==
  informed => /\ DOMAIN loaded \subseteq Keys
              /\ \A k \in Keys \ DOMAIN store : ToldGone(queue[KindOf(k)], loaded, ignored, k)

(* It holds when the webhook starts.                                       *)
LEMMA UnseenInit == WebhookInit => UnseenIsGone
BY DEF WebhookInit, UnseenIsGone

(* Every step keeps it.                                                    *)
LEMMA UnseenNext ==
  ASSUME InformersOK, UnseenIsGone, [WebhookNext]_webhookVars
  PROVE  UnseenIsGone'
<1>0. InformerTypes /\ Beginning BY DEF InformersOK
<1>1. ASSUME UNCHANGED <<store, queue, watch, loaded, ignored, informed>> PROVE UnseenIsGone'
  BY <1>1, Zenon DEF UnseenIsGone
<1>2. ASSUME NEW key \in Keys, NEW spec \in Specs, ApplyObject(key, spec) PROVE UnseenIsGone'
  <2>1. CASE watch[KindOf(key)] = "on"
    <3>1. PICK n \in Notes : n.key = key /\ GrownByOne(queue, queue', n)
      BY <1>0, <1>2, <2>1, ApplyTells, Zenon
    <3>2. \A k : k # key => (ToldGone(queue[KindOf(k)], loaded, ignored, k) => ToldGone(queue'[KindOf(k)], loaded, ignored, k))
      BY <3>1 DEF GrownByOne
    <3>3. DOMAIN store' = DOMAIN store \cup {key} /\ UNCHANGED <<loaded, ignored, informed>>
      BY <1>2, <2>1 DEF ApplyObject, Put
    <3> QED BY <3>2, <3>3, Zenon DEF UnseenIsGone
  <2>2. CASE watch[KindOf(key)] # "on"
    <3>1. UNCHANGED <<store, queue, watch, loaded, ignored, informed>> BY <1>2, <2>2 DEF ApplyObject
    <3> QED BY <1>1, <3>1, Zenon
  <2> QED BY <2>1, <2>2
<1>3. ASSUME NEW key \in Keys, RemoveObject(key) PROVE UnseenIsGone'
  <2>1. CASE watch[KindOf(key)] = "on"
    <3>1. PICK n \in Notes : n.key = key /\ n.type = "delete" /\ GrownByOne(queue, queue', n)
      BY <1>0, <1>3, <2>1, RemoveTells, Zenon
    <3>2. n.type \in {"delete", "tombstone"} BY <3>1
    <3>3. /\ \A k : k # key => (ToldGone(queue[KindOf(k)], loaded, ignored, k) => ToldGone(queue'[KindOf(k)], loaded, ignored, k))
          /\ ToldGone(queue'[KindOf(key)], loaded, ignored, key)
      BY <3>1, <3>2 DEF GrownByOne
    <3>4. DOMAIN store' = DOMAIN store \ {key} /\ UNCHANGED <<loaded, ignored, informed>>
      BY <1>3, <2>1 DEF RemoveObject, Drop
    <3> QED BY <3>3, <3>4, Zenon DEF UnseenIsGone
  <2>2. CASE watch[KindOf(key)] # "on"
    <3>1. UNCHANGED <<store, queue, watch, loaded, ignored, informed>> BY <1>3, <2>2 DEF RemoveObject
    <3> QED BY <1>1, <3>1, Zenon
  <2> QED BY <2>1, <2>2
<1>4. ASSUME NEW kind \in Kinds, LoseWatch(kind) PROVE UnseenIsGone'
  BY <1>4, Zenon DEF LoseWatch, UnseenIsGone
<1>5. ASSUME NEW kind \in Kinds, List(kind) PROVE UnseenIsGone'
  <2>1. /\ UNCHANGED <<api, informed, loaded, ignored>>
        /\ DOMAIN store' = (DOMAIN store \ OfKind(store, kind)) \cup OfKind(api, kind)
    BY <1>5 DEF List, apiVars
  <2>2. PICK ns \in Seq(Notes) :
          /\ Grown(queue, queue', ns)
          /\ \A i \in 1..Len(ns) : ns[i] \in Differences(kind)
          /\ \A n \in Differences(kind) : \E i \in 1..Len(ns) : ns[i] = n
          /\ \A i, j \in 1..Len(ns) : i # j => ns[i] # ns[j]
    BY <1>0, <1>5, ListTells, Zenon
  <2>3. /\ \A n \in Differences(kind) : KindOf(n.key) = kind /\ n.key \in DOMAIN api \cup DOMAIN store
        /\ \A n, m \in Differences(kind) : n.key = m.key => n = m
        /\ \A n \in Differences(kind) : n.key \notin DOMAIN api => n.type = "tombstone"
        /\ \A k \in OfKind(store, kind) \ DOMAIN api : \E n \in Differences(kind) : n.key = k
    BY <1>0, DifferencesTell
  <2>4. ASSUME informed, NEW k \in Keys \ DOMAIN store' PROVE ToldGone(queue'[KindOf(k)], loaded, ignored, k)
    <3>1. KindOf(k) = kind => k \notin DOMAIN api BY <2>1, <2>4 DEF OfKind
    <3>2. CASE Silent(ns, k)
      <4>1. ~\E n \in Differences(kind) : n.key = k BY <2>2, <3>2, Zenon DEF Silent
      <4>2. k \notin DOMAIN store BY <2>1, <2>3, <2>4, <3>1, <4>1 DEF OfKind
      <4>3. ToldGone(queue[KindOf(k)], loaded, ignored, k) BY <2>4, <4>2, Zenon DEF UnseenIsGone
      <4> QED BY <2>2, <3>2, <4>3, Zenon DEF Grown
    <3>3. CASE ~Silent(ns, k)
      <4>1. PICK i \in 1..Len(ns) : ns[i].key = k BY <3>3 DEF Silent
      <4>2. \A j \in 1..Len(ns) : ns[j].key = k => ns[j] = ns[i] BY <2>2, <2>3, <4>1, Zenon
      <4>3. \A j \in 1..Len(ns) : j > i => j # i BY <4>1
      <4>4. LastOf(ns, k, i) BY <2>2, <4>1, <4>2, <4>3, Zenon DEF LastOf
      <4>5. ns[i].type \in {"delete", "tombstone"} BY <2>2, <2>3, <3>1, <4>1
      <4> QED BY <2>2, <4>4, <4>5, Zenon DEF Grown
    <3> QED BY <3>2, <3>3
  <2> QED BY <2>1, <2>4, Zenon DEF UnseenIsGone
<1>6. ASSUME NEW kind \in Kinds, HandleNotification(kind) PROVE UnseenIsGone'
  <2> DEFINE n == Head(queue[kind])
  <2>1. UNCHANGED <<store, informed>> BY <1>6 DEF HandleNotification
  <2>2. n \in Notes /\ loaded' = Taken(loaded, n) BY <1>0, <1>6, HandledIsTaken
  <2>3. n.key \in Keys BY <2>2 DEF Notes
  <2> HIDE DEF n
  <2>4. DOMAIN loaded' \subseteq DOMAIN loaded \cup Keys BY <2>2, <2>3 DEF Taken, Put, Drop
  <2>5. \A k : ToldGone(queue[KindOf(k)], loaded, ignored, k) => ToldGone(queue'[KindOf(k)], loaded', ignored', k)
    BY <1>0, <1>6, HandledStaysTold, Zenon
  <2> QED BY <2>1, <2>4, <2>5, Zenon DEF UnseenIsGone
<1>7. CASE StartInformers
  <2>1. UNCHANGED <<store, queue, loaded, ignored>> /\ phase = "start"
    BY <1>7 DEF StartInformers, informerVars
  <2>2. loaded = EmptyMap /\ \A kind \in Kinds : queue[kind] = << >> BY <1>0, <2>1 DEF Beginning
  <2>3. DOMAIN loaded' = {} /\ \A k : queue'[KindOf(k)] = << >> BY <2>1, <2>2, KindOfKey DEF EmptyMap
  <2>4. \A k : ToldGone(queue'[KindOf(k)], loaded', ignored', k)
    <3>1. ASSUME NEW k PROVE Silent(<< >>, k) BY DEF Silent
    <3> QED BY <2>3, <3>1 DEF ToldGone
  <2> QED BY <2>1, <2>3, <2>4, Zenon DEF UnseenIsGone
<1>8. CASE StartWithDefaults
  <2>1. UNCHANGED <<store, queue, informed>> /\ ~informed
    BY <1>0, <1>8 DEF StartWithDefaults, informerVars, Beginning
  <2> QED BY <2>1, Zenon DEF UnseenIsGone
<1>9. CASE \/ CacheSynced \/ StopServing \/ ExitProcess \/ UNCHANGED webhookVars
           \/ \E r \in Reviews : \/ \E body \in {"invalid", "unknown", "pod"}, ns \in Namespaces, pod \in Pods :
                                       Receive(r, body, ns, pod)
                                 \/ Evaluate(r) \/ PublishAlert(r) \/ Respond(r)
  <2>1. UNCHANGED <<store, queue, watch, loaded, ignored, informed>>
    BY <1>9, Zenon DEF CacheSynced, StopServing, ExitProcess, Receive, Evaluate, PublishAlert, Respond,
       webhookVars, informerVars
  <2> QED BY <1>1, <2>1, Zenon
<1>10. CASE \E key \in Keys : (\E spec \in Specs : ApplyObject(key, spec)) \/ RemoveObject(key)
  BY <1>2, <1>3, <1>10, Zenon
<1>11. CASE \E kind \in Kinds : LoseWatch(kind) \/ List(kind) \/ HandleNotification(kind)
  BY <1>4, <1>5, <1>6, <1>11, Zenon
<1> QED BY <1>7, <1>8, <1>9, <1>10, <1>11, Zenon DEF WebhookNext

(* Caught up, the engine holds of a key what the API server holds, or the  *)
(* key was ignored, and that only if what it stands for does not convert   *)
(* or is gone.                                                             *)
LEMMA CaughtUpIsCurrent ==
  ASSUME InformersOK, UnseenIsGone, informed, NEW k, CaughtUp(KindOf(k))
  PROVE  /\ k \in DOMAIN api => IF api[k].wellFormed THEN k \in DOMAIN loaded /\ loaded[k] = api[k] /\ k \notin ignored
                                ELSE k \in ignored
         /\ k \in DOMAIN loaded \ DOMAIN api => k \in ignored
<1>1. watch[KindOf(k)] = "on" /\ queue[KindOf(k)] = << >> BY DEF CaughtUp
<1>2. ASSUME k \in DOMAIN api PROVE Told(<< >>, loaded, ignored, k, api[k])
  <2>1. k \in Keys BY <1>2 DEF InformersOK, InformerTypes
  <2>2. k \in DOMAIN store /\ store[k] = api[k] BY <1>1, <1>2, <2>1 DEF InformersOK, InStep
  <2> QED BY <1>1, <2>2, Zenon DEF InformersOK, SeenIsTold
<1>3. ASSUME k \in DOMAIN loaded \ DOMAIN api PROVE ToldGone(<< >>, loaded, ignored, k)
  <2>1. k \in Keys BY <1>3 DEF UnseenIsGone
  <2>2. k \notin DOMAIN store BY <1>1, <1>3, <2>1 DEF InformersOK, InStep
  <2> QED BY <1>1, <2>1, <2>2, Zenon DEF UnseenIsGone
<1> QED BY <1>2, <1>3 DEF Told, ToldGone

(* Caught up, the engine holds no policy that the API server has not, but  *)
(* for those ignored.                                                      *)
LEMMA UnseenIsRemoved ==
  ASSUME InformersOK, UnseenIsGone
  PROVE  DeletedPolicyIsRemoved
<1> SUFFICES ASSUME NEW kind \in Kinds, informed, CaughtUp(kind)
             PROVE  /\ OfKind(loaded, kind) \subseteq DOMAIN api \cup ignored
                    /\ \A k \in OfKind(api, kind) \cap ignored : ~api[k].wellFormed
  BY Zenon DEF DeletedPolicyIsRemoved
<1>1. ASSUME NEW k \in OfKind(loaded, kind), k \notin DOMAIN api PROVE k \in ignored
  <2>1. k \in DOMAIN loaded \ DOMAIN api /\ CaughtUp(KindOf(k)) BY <1>1, Zenon DEF OfKind
  <2> QED BY <2>1, CaughtUpIsCurrent, Zenon
<1>2. ASSUME NEW k \in OfKind(api, kind) \cap ignored PROVE ~api[k].wellFormed
  <2>1. k \in DOMAIN api /\ CaughtUp(KindOf(k)) BY <1>2, Zenon DEF OfKind
  <2> QED BY <1>2, <2>1, CaughtUpIsCurrent, Zenon
<1> QED BY <1>1, <1>2, Zenon

(* A review judged while both informers have caught up is judged by the    *)
(* policies of the API server, but for those ignored.                      *)
LEMMA JudgedRight ==
  ASSUME InformersOK, UnseenIsGone, ReviewsOK, NEW r \in Reviews, Evaluate(r), informed,
         \A kind \in Kinds : CaughtUp(kind)
  PROVE  {v.key : v \in review'[r].violations} \ ignored
           = ShouldDeny(review[r].namespace, review[r].pod) \ ignored
<1> DEFINE o == review[r]
           x == Review("evaluated", o.namespace, o.pod,
                       EvaluateAdmission(loaded, o.pod, o.namespace), o.alerts, o.answer)
<1>1. review'[r] = x
  <2>1. review' = [review EXCEPT ![r] = x] BY Zenon DEF Evaluate
  <2>2. review = [s \in Reviews |-> review[s]] BY Zenon DEF ReviewsOK
  <2> HIDE DEF x
  <2> QED BY <2>1, <2>2
<1>2. x.violations = EvaluateAdmission(loaded, o.pod, o.namespace) BY DEF Review
<1>3. \A k : /\ k \in DOMAIN api \ ignored => k \in DOMAIN loaded /\ loaded[k] = api[k]
             /\ k \in DOMAIN loaded \ ignored => k \in DOMAIN api
  <2>1. ASSUME NEW k
        PROVE  /\ k \in DOMAIN api => IF api[k].wellFormed THEN k \in DOMAIN loaded /\ loaded[k] = api[k] /\ k \notin ignored
                                      ELSE k \in ignored
               /\ k \in DOMAIN loaded \ DOMAIN api => k \in ignored
    <3>1. CaughtUp(KindOf(k)) BY KindOfKey, Zenon
    <3> QED BY <3>1, CaughtUpIsCurrent, Zenon
  <2> QED BY <2>1, Zenon
<1>4. DOMAIN loaded \ ignored = DOMAIN api \ ignored BY <1>3, Zenon
<1>5. {v.key : v \in EvaluateAdmission(loaded, o.pod, o.namespace)} \ ignored
        = ShouldDeny(o.namespace, o.pod) \ ignored
  <2>1. \A k \in DOMAIN api \ ignored : loaded[k] = api[k] BY <1>3, Zenon
  <2> HIDE DEF o, x
  <2> QED BY <1>4, <2>1, VerdictOfApi
<1> HIDE DEF x
<1> QED BY <1>1, <1>2, <1>5

(* The type invariant follows from the two invariants.                     *)
LEMMA WebhookTypes == InformersOK /\ ReviewsOK => WebhookTypeOK
<1> SUFFICES ASSUME InformersOK, ReviewsOK PROVE WebhookTypeOK OBVIOUS
<1>0. InformerTypes BY DEF InformersOK
<1>1. api \in Maps /\ store \in Maps
  <2>1. /\ api \in [DOMAIN api -> Specs] /\ DOMAIN api \in SUBSET Keys
        /\ store \in [DOMAIN store -> Specs] /\ DOMAIN store \in SUBSET Keys
    BY <1>0 DEF InformerTypes
  <2> QED BY <2>1, Zenon DEF Maps
<1>2. \A kind \in Kinds : \A i \in DOMAIN queue[kind] : KindOf(queue[kind][i].key) = kind
  <2>1. ASSUME NEW kind \in Kinds PROVE DOMAIN queue[kind] = 1..Len(queue[kind])
    <3>1. queue[kind] \in Seq(Notes) BY <1>0 DEF InformerTypes, KindsOK
    <3> QED BY <3>1
  <2> QED BY <1>0, <2>1, Zenon DEF InformerTypes, KindsOK
<1>3. \A r \in Reviews : review[r].pc \in {"idle", "extracted", "evaluated", "answered", "cut"}
  BY Zenon DEF ReviewsOK, ReviewOK
<1> QED BY <1>0, <1>1, <1>2, <1>3, Zenon DEF WebhookTypeOK, InformerTypes

(***************************************************************************)
(* ReviewIsRight holds for every set of policies, pods and reviews, any    *)
(* number of changes, and whatever watches are lost and objects do not     *)
(* convert: a handler of startCRDInformers that has caught up has loaded   *)
(* every policy that converts in its last version (AddFunc, UpdateFunc)    *)
(* and removed every one that was deleted, unless a tombstone or an object *)
(* that does not convert told so (DeleteFunc); a review judged then is     *)
(* judged by exactly the policies of the API server, but for these         *)
(* (EvaluateAdmission); and a refusal comes after its alerts               *)
(* (handleValidate).                                                       *)
(***************************************************************************)
THEOREM ReviewIsRightHolds == WebhookSpec => ReviewIsRight
<1> DEFINE Inv == InformersOK /\ ReviewsOK /\ UnseenIsGone
<1>1. WebhookInit => Inv BY InformersInit, ReviewsInit, UnseenInit, Zenon
<1>2. Inv /\ [WebhookNext]_webhookVars => Inv'
  <2> SUFFICES ASSUME Inv, [WebhookNext]_webhookVars PROVE Inv' OBVIOUS
  <2>1. InformersOK' /\ ReviewsOK' BY InformersNext, ReviewsNext, Zenon
  <2>2. UnseenIsGone' BY UnseenNext, Zenon
  <2> QED BY <2>1, <2>2
<1>3. Inv => WebhookTypeOK /\ ChangesAreLoaded /\ DeletedPolicyIsRemoved /\ RefusalWasAlerted
  BY CaughtUpIsLoaded, ReviewsAlerted, WebhookTypes, UnseenIsRemoved, Zenon
<1>4. Inv =>
        [\A r \in Reviews :
            (Evaluate(r) /\ informed /\ \A kind \in Kinds : CaughtUp(kind)) =>
               {v.key : v \in review'[r].violations} \ ignored
                 = ShouldDeny(review[r].namespace, review[r].pod) \ ignored
        ]_webhookVars
  BY JudgedRight, Zenon
<1> HIDE DEF Inv
<1> QED BY <1>1, <1>2, <1>3, <1>4, PTL DEF WebhookSpec, ReviewIsRight, CaughtUpVerdictIsRight
=============================================================================
