------------------------------ MODULE GrpcStream ------------------------------
(***************************************************************************)
(* What gRPC demands of the user of a ClientAsyncReaderWriter and of its   *)
(* completion queue: at most one outstanding operation of each kind, none  *)
(* started once Finish was asked for, none once the queue is shut down. A  *)
(* violation aborts the process.  This is the contract that the client in  *)
(* DuplexGRPC.h promises its callers to keep whatever they call ("state    *)
(* checking to prevent the entire application from crashing due to a       *)
(* misuse of GRPC APIs").  An operation is outstanding from its start      *)
(* until its tag is taken out of the queue.                                *)
(***************************************************************************)
EXTENDS Naturals

VARIABLES outstanding, \* number of outstanding operations, by kind
          finishing,   \* Finish has been started
          cqShut       \* the completion queue has been shut down

gvars == <<outstanding, finishing, cqShut>>

Ops == {"START", "READ", "WRITE", "WRITES_DONE", "FINISH"}

\* The call is created with the START tag, and a first read.
Init == /\ outstanding = [op \in Ops |-> IF op \in {"START", "READ"} THEN 1 ELSE 0]
        /\ finishing = FALSE
        /\ cqShut = FALSE

\* op may be started when `busy` are the outstanding operations.
MayStart(busy, op) == busy[op] = 0 /\ ~finishing /\ ~cqShut

Taken(op) == [outstanding EXCEPT ![op] = @ - 1]

Start(op) == /\ MayStart(outstanding, op)
             /\ outstanding' = [outstanding EXCEPT ![op] = @ + 1]
             /\ finishing' = (op = "FINISH")
             /\ UNCHANGED cqShut

Take(op) == /\ outstanding[op] > 0
            /\ outstanding' = Taken(op)
            /\ UNCHANGED <<finishing, cqShut>>

\* A tag is taken out of the queue and its handler starts an operation.
TakeAndStart(op, next) ==
    /\ outstanding[op] > 0
    /\ MayStart(Taken(op), next)
    /\ outstanding' = [Taken(op) EXCEPT ![next] = @ + 1]
    /\ finishing' = (next = "FINISH")
    /\ UNCHANGED cqShut

ShutDown == /\ ~cqShut
            /\ cqShut' = TRUE
            /\ UNCHANGED <<outstanding, finishing>>

Next == \/ \E op \in Ops : Start(op) \/ Take(op)
        \/ \E op, next \in Ops : TakeAndStart(op, next)
        \/ ShutDown

Spec == Init /\ [][Next]_gvars
================================================================================
