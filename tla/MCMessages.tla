----------------------------- MODULE MCMessages -----------------------------
(***************************************************************************)
(* Small instances, for TLC, of the components that pass messages on, the  *)
(* duplex gRPC client and the event bus, and of those that judge what they *)
(* carry.  As in MCCollector, the components share no variable and `which` *)
(* names the one that moves.  Those with proofs are extended, the others   *)
(* are instances; Reader is a duplex client without a callback on the same *)
(* variables.                                                              *)
(***************************************************************************)
EXTENDS DuplexGRPC, EventBus, Admission, PolicyStatus, MCValues

VARIABLES
  which,
  admissionEngine, runtimeEngine, verdicts,
  ctx, sections, result

Reader == INSTANCE DuplexGRPC WITH
  Methods <- {"FinishAsync", "WaitUntilStarted", "WaitUntilFinished", "WritesDone",
              "WritesDoneAsync", "PollCanRead", "Read", "TryRead"},
  ReadCallback <- FALSE, MaxWrites <- 0, MaxReads <- 2
Engines == INSTANCE MCEngines WITH loaded <- admissionEngine, policies <- runtimeEngine
Fields == INSTANCE MCEvaluator

MCSpecs == {Privileged, RuntimeOnly, Broken}

(* The policies change three times, or twice when a watch is lost; without *)
(* a connection to NATS, which only the alerts need, once, and there the   *)
(* pod that raises none is reviewed as well.  The namespaces are alike:    *)
(* the first change is not in n2.                                          *)
Cluster == /\ WebhookNext
           /\ IF alertPub THEN /\ changes' + breaks' <= 3
                              /\ \A r \in Reviews : review'[r].pod # PodWith(FALSE)
              ELSE changes' + breaks' <= 1
           /\ changes' = 1 => \A key \in DOMAIN api' : key[1] # "n2"

(* Of the bus, either the runtime evaluator works, on batches of process   *)
(* events in both encodings, with two faults (a crash, a loss, a late      *)
(* message), or the admission controller, on an event of each stream, with *)
(* one.                                                                    *)
MCEvents == {Shell("json"), Shell("protobuf"), Ssh}
Batches == /\ BusNext /\ process'["admission"] = "down" /\ stream'["network"] = << >>
           /\ crashes' + losses' + late' <= 2
BothStreams == /\ BusNext /\ process'["runtime"] = "down"
               /\ durable'[<<"runtime", "process">>] = NoDurable
               /\ \A s \in Streams : Len(stream'[s]) <= 1
               /\ crashes' + losses' + late' <= 1
               /\ Shell("protobuf") \notin Range(stream'["process"])

engineVars == <<admissionEngine, runtimeEngine, verdicts>>
fieldVars == <<ctx, sections, result>>
mcVars == <<which, vars, webhookVars, statusVars, busVars, engineVars, fieldVars>>

(* A component that stands still does so in one of its initial states.     *)
MCInit ==
  /\ which \in {"duplex", "reader", "webhook", "status", "batches", "streams", "engines", "fields"}
  /\ Init
  /\ WebhookInit /\ (which # "webhook" => alertPub)
  /\ StatusInit
  /\ BusInit
  /\ Engines!Init
  /\ IF which = "fields" THEN Fields!Init
     ELSE ctx = Fields!NoPod /\ sections = << >> /\ result = Fields!NotMatched

MCNext ==
  \/ /\ \/ which = "duplex" /\ Next
        \/ which = "reader" /\ Reader!Next
     /\ UNCHANGED <<which, webhookVars, statusVars, busVars, engineVars, fieldVars>>
  \/ /\ which = "webhook" /\ Cluster
     /\ UNCHANGED <<which, vars, statusVars, busVars, engineVars, fieldVars>>
  \/ /\ which = "status" /\ StatusNext
     /\ UNCHANGED <<which, vars, webhookVars, busVars, engineVars, fieldVars>>
  \/ /\ \/ which = "batches" /\ Batches
        \/ which = "streams" /\ BothStreams
     /\ UNCHANGED <<which, vars, webhookVars, statusVars, engineVars, fieldVars>>
  \/ /\ which = "engines" /\ Engines!Next
     /\ UNCHANGED <<which, vars, webhookVars, statusVars, busVars, fieldVars>>
  \/ /\ which = "fields" /\ Fields!Evaluate
     /\ UNCHANGED <<which, vars, webhookVars, statusVars, busVars, engineVars>>

MCSpec == MCInit /\ [][MCNext]_mcVars
BatchesSpec == MCInit /\ which = "batches" /\ [][MCNext]_mcVars

-----------------------------------------------------------------------------
(* The properties, each put together from those of its component; those of *)
(* the components that are extended stand as they are in their modules.    *)

(* What the duplex client tells its caller is so (ProcessEvent, Sleep): a  *)
(* Sleep that ran until its deadline saw no error; the read callback gets  *)
(* the end of the stream once, and last; without a callback, every message *)
(* is with the caller or waits for it.                                     *)
ReportsAreTrue ==
  /\ SleepSawNoError
  /\ []LastReadIsNull
  /\ [](which = "reader" => Reader!EveryMessageIsRead)
  /\ [](IF which = "reader" THEN Reader!TypeOK ELSE TypeOK)

(* The admission controller's engine and the runtime evaluator's raise the *)
(* same violations for an event.                                           *)
EnginesAgree == Engines!EnginesAgree

(* evaluateSection and evaluateGroup: the order of sections and groups     *)
(* makes no difference to the verdict, a group and its negation split the  *)
(* contexts between them, and a policy that matched names every one of its *)
(* groups.                                                                 *)
VerdictIsSound ==
  which = "fields" =>
    Fields!OrderIrrelevant /\ Fields!NegationSplits /\ Fields!MessagesNameEveryGroup
=============================================================================
