------------------------------ MODULE DuplexGRPC ------------------------------
(***************************************************************************)
(* The duplex gRPC client (DuplexGRPC.h): one thread calls its methods,    *)
(* synchronous and asynchronous ones mixed, while gRPC completes the       *)
(* operations it was given in any order.  The client keeps a word of flags *)
(* (operation pending, operation done, stream error) and refuses what the  *)
(* flags do not allow.  A blocking method takes tags out of the completion *)
(* queue one by one until the one it waits for has come or its deadline    *)
(* has passed; whatever else comes on the way is handled as well.          *)
(***************************************************************************)
EXTENDS Naturals, Sequences

CONSTANTS Methods,       \* the methods the caller uses
          ReadCallback,  \* TRUE: reads go to a callback, FALSE: Read/TryRead
          MaxWrites,     \* messages the caller tries to write
          MaxReads       \* messages the server sends

VARIABLES
    done, pending, streamError,  \* flags_
    readBufValid,                \* read_buf_valid_
    callbacks,                   \* what read_callback_ was called with
    issued,                      \* operations in gRPC's hands, by kind
    ready,                       \* completions in the queue, by kind
    cqShut,                      \* cq_.Shutdown() was called
    broken,                      \* the stream has ended, or was cancelled
    received,                    \* messages the server has sent
    taken,                       \* messages Read has returned
    writes,                      \* messages the caller tried to write
    writing,                     \* the message handed to gRPC last
    written,                     \* messages gRPC has reported written
    call,                        \* the method the caller is in
    ret                          \* what a method returned in the last step

flagVars == <<done, pending, streamError>>
grpcVars == <<cqShut, broken, received>>
readVars == <<readBufValid, callbacks, taken>>
writeVars == <<writes, writing, written>>
vars == <<flagVars, readVars, issued, ready, grpcVars, writeVars, call, ret>>

Ops == {"START", "READ", "WRITE", "WRITES_DONE", "FINISH"}

Idle == [name |-> "idle"]
Gone == [name |-> "gone"]
Nothing == [name |-> "none", status |-> "OK"]

Init == /\ done = {}
        /\ pending = {"START", "READ"}
        /\ streamError = FALSE
        /\ readBufValid = FALSE
        /\ callbacks = << >> /\ taken = 0
        /\ issued = [op \in Ops |-> IF op \in {"START", "READ"} THEN 1 ELSE 0]
        /\ ready = [op \in Ops |-> "no"]
        /\ cqShut = FALSE /\ broken = FALSE /\ received = 0
        /\ writes = 0 /\ writing = 0 /\ written = {}
        /\ call = Idle
        /\ ret = Nothing

-----------------------------------------------------------------------------
(* Starting an operation.                                                  *)

\* Operations without a parameter.
IdempotentAsync(op) == op = "WRITES_DONE"

\* A client that tests only whether the shutdown has completed.
DoAsyncErrorLateShutdown(d, p, op) ==
    CASE IdempotentAsync(op) /\ op \in d  -> "ALREADY_DONE"
      [] op \in p                         -> "ALREADY_PENDING"
      [] "SHUTDOWN" \in d                 -> "SHUTDOWN"
      [] "FINISH" \in d \cup p            -> "ILLEGAL_STATE"
      [] OTHER                            -> "OK"

\* DoAsync's verdict, in the order of its tests, on the flags d, p.
DoAsyncError(d, p, op) ==
    CASE IdempotentAsync(op) /\ op \in d  -> "ALREADY_DONE"
      [] op \in p                         -> "ALREADY_PENDING"
      [] "SHUTDOWN" \in d \cup p          -> "SHUTDOWN"
      [] "FINISH" \in d \cup p            -> "ILLEGAL_STATE"
      [] OTHER                            -> "OK"

\* The operations that starting op really hands to gRPC: {op} or none.
DoAsync(d, p, op) == IF DoAsyncError(d, p, op) = "OK" THEN {op} ELSE {}

\* The flags and gRPC's operations after `started` were handed over.
Started(started) ==
    /\ done' = done \ started
    /\ pending' = pending \cup started
    /\ issued' = [op \in Ops |-> issued[op] + IF op \in started THEN 1 ELSE 0]

-----------------------------------------------------------------------------
(* gRPC (external): completes what it was given, in any order.  After the  *)
(* end of the stream everything but a buffered message and Finish fails.   *)

Complete(op, ok) ==
    /\ issued[op] > 0
    /\ ready[op] = "no"
    /\ (ok = "ok" /\ op \in {"START", "WRITE", "WRITES_DONE"}) => ~broken
    /\ (ok = "ok" /\ op = "READ") => received < MaxReads
    /\ issued' = [issued EXCEPT ![op] = @ - 1]
    /\ ready' = [ready EXCEPT ![op] = ok]
    /\ broken' = (broken \/ ok = "failed" \/ op = "FINISH")
    /\ received' = IF ok = "ok" /\ op = "READ" THEN received + 1 ELSE received
    /\ written' = IF ok = "ok" /\ op = "WRITE" THEN written \cup {writing} ELSE written
    /\ ret' = Nothing
    /\ UNCHANGED <<flagVars, readVars, cqShut, writes, writing, call>>

\* context_->TryCancel(), also from another thread.
TryCancel ==
    /\ ~broken
    /\ broken' = TRUE
    /\ ret' = Nothing
    /\ UNCHANGED <<flagVars, readVars, issued, ready, cqShut, received, writeVars, call>>

-----------------------------------------------------------------------------
(* Taking an event out of the queue.                                       *)

\* A handler that forgets to ask for the status of a failed stream.
FinishingNever(ok) == {}

\* FinishAsyncInternal, called first thing for a failed event.
Finishing(ok) == IF ok = "failed" THEN DoAsync(done, pending, "FINISH") ELSE {}

\* The flags when the event (op, ok) has been recorded.
DoneAfter(op, ok) == (done \ Finishing(ok)) \cup {op}
PendingAfter(op, ok) == (pending \cup Finishing(ok)) \ {op}

\* HandleRead: the callback is told of every read, and reads on; a client
\* without one keeps the message for Read.
HandleRead(op, ok) ==
    IF op = "READ" /\ ReadCallback
    THEN /\ callbacks' = Append(callbacks, IF ok = "ok" THEN "message" ELSE "null")
         /\ readBufValid' = FALSE
    ELSE /\ callbacks' = callbacks
         /\ readBufValid' = IF op = "READ" THEN ok = "ok" ELSE readBufValid

\* A handler that reads on although nobody has taken the message.
StartedByEventAlways(op, ok) ==
    Finishing(ok) \cup
    IF op = "READ"
    THEN DoAsync(DoneAfter(op, ok), PendingAfter(op, ok), "READ")
    ELSE {}

\* A handler that reads on without the checks of DoAsync.
StartedByEventBlind(op, ok) ==
    Finishing(ok) \cup IF op = "READ" /\ ReadCallback THEN {"READ"} ELSE {}

\* What the handler of an event starts: Finish after a failure, the next
\* read after a read that went to the callback.
StartedByEvent(op, ok) ==
    Finishing(ok) \cup
    IF op = "READ" /\ ReadCallback
    THEN DoAsync(DoneAfter(op, ok), PendingAfter(op, ok), "READ")
    ELSE {}

\* ProcessEvent with the flags of the read that Read itself starts (more).
ProcessEvent(op, ok, more) ==
    LET started == StartedByEvent(op, ok) \cup more IN
    /\ ready[op] = ok
    /\ ready' = [ready EXCEPT ![op] = "no"]
    /\ done' = DoneAfter(op, ok) \ started
    /\ pending' = PendingAfter(op, ok) \cup started
    /\ issued' = [o \in Ops |-> issued[o] + IF o \in started THEN 1 ELSE 0]
    /\ streamError' = (streamError \/ ok = "failed")
    /\ UNCHANGED <<grpcVars, writeVars>>

-----------------------------------------------------------------------------
(* The caller's methods.                                                   *)

Return(name, status) == ret' = [name |-> name, status |-> status]

\* A method that waits; it remembers whether the stream had failed, and the
\* method that returned OK just before a TryRead.
Enter(name, op, timed, prev) ==
    /\ call' = [name |-> name, op |-> op, timed |-> timed,
                prev |-> IF name = "TryRead" THEN prev ELSE "none",
                was |-> name = "Sleep" /\ streamError]
    /\ ret' = Nothing

MethodOf(op) == CASE op = "WRITE"       -> "Write"
                  [] op = "WRITES_DONE" -> "WritesDone"
                  [] op = "FINISH"      -> "Finish"

AsyncMethodOf(op) == CASE op = "WRITE"       -> "WriteAsync"
                       [] op = "WRITES_DONE" -> "WritesDoneAsync"
                       [] op = "FINISH"      -> "FinishAsync"

\* A new message for a write; it is the one gRPC holds if it was started.
WriteStep(op, started) ==
    /\ op = "WRITE" => writes < MaxWrites
    /\ writes' = IF op = "WRITE" THEN writes + 1 ELSE writes
    /\ writing' = IF op = "WRITE" /\ op \in started THEN writes' ELSE writing
    /\ UNCHANGED written

\* WriteAsync, WritesDoneAsync, FinishAsync.
AsyncMethod(op) ==
    LET started == DoAsync(done, pending, op) IN
    /\ call = Idle
    /\ Started(started)
    /\ WriteStep(op, started)
    /\ Return(AsyncMethodOf(op), DoAsyncError(done, pending, op))
    /\ UNCHANGED <<streamError, readVars, ready, grpcVars, call>>

\* A client that takes any pending operation for the one it was asked for.
IdempotentSyncAll(op) == TRUE

\* DoSync takes a pending operation of the same kind for its own when the
\* method it was given has no parameter.
IdempotentSync(op) == op \in {"WRITES_DONE", "FINISH"}

\* A client that waits again for a Finish that has completed.
WaitsAnyway(err, op) == err = "OK" \/ (err # "SHUTDOWN" /\ IdempotentSync(op))

\* DoSync goes on to wait.
Waits(err, op) == err = "OK" \/ (err = "ALREADY_PENDING" /\ IdempotentSync(op))

\* Write, WritesDone, Finish: DoSync starts the operation and waits for it.
SyncMethod(op, timed) ==
    LET err == DoAsyncError(done, pending, op)
        started == DoAsync(done, pending, op)
    IN  /\ call = Idle
        /\ Started(started)
        /\ WriteStep(op, started)
        /\ IF Waits(err, op)
           THEN Enter(MethodOf(op), op, timed, "none")
           ELSE /\ Return(MethodOf(op), err)
                /\ UNCHANGED call
        /\ UNCHANGED <<streamError, readVars, ready, grpcVars>>

PollMethods == {"WaitUntilStarted", "WaitUntilFinished", "Sleep", "PollCanRead",
                "Read", "TryRead"}

\* A Sleep that looks for the end of the stream only.
SatisfiedNoError(name, d, err) ==
    CASE name = "WaitUntilStarted"  -> "START" \in d
      [] name \in {"WaitUntilFinished", "Sleep"} -> "FINISH" \in d
      [] OTHER                      -> "READ" \in d

\* The flags a polling method waits for, d and err being the flags.
Satisfied(name, d, err) ==
    CASE name = "WaitUntilStarted"  -> "START" \in d
      [] name = "WaitUntilFinished" -> "FINISH" \in d
      [] name = "Sleep"             -> err \/ "FINISH" \in d
      [] OTHER                      -> "READ" \in d

\* The methods built on Poll.  TryRead is Read with a deadline in the past.
PollMethod(name, timed) ==
    /\ call = Idle
    /\ name = "TryRead" => timed
    /\ IF ReadCallback /\ name \in {"Read", "TryRead"}
       THEN /\ Return(name, "ILLEGAL_STATE")
            /\ UNCHANGED call
       ELSE Enter(name, "none", timed, IF ret.status = "OK" THEN ret.name ELSE "none")
    /\ UNCHANGED <<flagVars, readVars, issued, ready, grpcVars, writeVars>>

\* Shutdown: cancels, and shuts the queue down the first time.
ShutdownStep ==
    /\ broken' = TRUE
    /\ pending' = IF "SHUTDOWN" \in done THEN pending ELSE pending \cup {"SHUTDOWN"}
    /\ cqShut' = (cqShut \/ "SHUTDOWN" \notin done \cup pending)
    /\ UNCHANGED <<done, streamError, readVars, issued, ready, received, writeVars>>

Shutdown ==
    /\ call = Idle
    /\ ShutdownStep
    /\ Return("Shutdown", CASE "SHUTDOWN" \in done    -> "ALREADY_DONE"
                            [] "SHUTDOWN" \in pending -> "ALREADY_PENDING"
                            [] OTHER                  -> "OK")
    /\ UNCHANGED call

\* The destructor: Shutdown, then ProcessSingle with a deadline in the past
\* for as long as that yields an event.
Destroy ==
    /\ call = Idle
    /\ ShutdownStep
    /\ Enter("destroy", "none", TRUE, "none")

-----------------------------------------------------------------------------
(* ProcessSingle in the method the caller is in.                           *)

Waiting == call \notin {Idle, Gone}

\* The method is over with this status.
Finished(status) ==
    /\ call' = IF call.name = "destroy" THEN Gone ELSE Idle
    /\ Return(call.name, status)

\* Read starts the next read when it has a message to return.
ReadNext(op, ok) ==
    IF /\ call.name \in {"Read", "TryRead"}
       /\ "READ" \in DoneAfter(op, ok)
       /\ IF op = "READ" THEN ok = "ok" ELSE readBufValid
    THEN DoAsync(DoneAfter(op, ok), PendingAfter(op, ok), "READ")
    ELSE {}

\* AsyncNext yields an event.
GotEvent(op, ok) ==
    LET satisfied == Satisfied(call.name, DoneAfter(op, ok), streamError \/ ok = "failed")
        valid == IF op = "READ" THEN ok = "ok" ELSE readBufValid
        reads == call.name \in {"Read", "TryRead"}
    IN  /\ Waiting
        /\ ProcessEvent(op, ok, ReadNext(op, ok))
        /\ IF reads /\ satisfied
           THEN /\ readBufValid' = FALSE
                /\ taken' = IF valid THEN taken + 1 ELSE taken
                /\ UNCHANGED callbacks
           ELSE HandleRead(op, ok) /\ UNCHANGED taken
        /\ CASE call.op = op
                  -> Finished(IF ok = "ok" THEN "OK" ELSE "ERROR")
             [] call.name \in PollMethods /\ satisfied
                  -> Finished(IF reads /\ ~valid THEN "ERROR" ELSE "OK")
             [] OTHER -> UNCHANGED call /\ ret' = Nothing

NothingReady == \A op \in Ops : ready[op] = "no"

\* The queue has been shut down and is empty for good.
Drained == cqShut /\ NothingReady /\ \A op \in Ops : issued[op] = 0

\* AsyncNext reports the end of the queue.
GotShutdown ==
    /\ Waiting
    /\ Drained
    /\ done' = done \cup {"SHUTDOWN"}
    /\ Finished("SHUTDOWN")
    /\ UNCHANGED <<pending, streamError, readVars, issued, ready,
                   grpcVars, writeVars>>

\* AsyncNext reaches the deadline with nothing in the queue.
Timeout ==
    /\ Waiting
    /\ call.timed
    /\ NothingReady
    /\ ~Drained
    /\ Finished("TIMEOUT")
    /\ UNCHANGED <<flagVars, readVars, issued, ready, grpcVars, writeVars>>

Event == \E op \in Ops, ok \in {"ok", "failed"} : GotEvent(op, ok)

Method == \/ \E op \in {"WRITE", "WRITES_DONE", "FINISH"} :
                 \/ AsyncMethodOf(op) \in Methods /\ AsyncMethod(op)
                 \/ MethodOf(op) \in Methods /\ \E timed \in BOOLEAN : SyncMethod(op, timed)
          \/ \E name \in PollMethods \cap Methods, timed \in BOOLEAN : PollMethod(name, timed)
          \/ "Shutdown" \in Methods /\ Shutdown
          \/ Destroy

Grpc == \E op \in Ops, ok \in {"ok", "failed"} : Complete(op, ok)

Next == Method \/ Event \/ GotShutdown \/ Timeout \/ Grpc \/ TryCancel

Spec == Init /\ [][Next]_vars

\* gRPC completes every operation of a stream that has ended, and a method
\* that waits takes what is in the queue.
FairSpec == /\ Spec
            /\ WF_vars(Event)
            /\ WF_vars(GotShutdown)
            /\ \A op \in Ops : WF_vars(broken /\ \E ok \in {"ok", "failed"} : Complete(op, ok))

-----------------------------------------------------------------------------
(* Properties.                                                             *)

OpErrors == {"OK", "ALREADY_PENDING", "ALREADY_DONE", "ILLEGAL_STATE", "SHUTDOWN"}

\* Type invariant of the client's fields and of gRPC's side.
TypeOK ==
    /\ done \subseteq Ops \cup {"SHUTDOWN"}
    /\ pending \subseteq Ops \cup {"SHUTDOWN"}
    /\ streamError \in BOOLEAN /\ readBufValid \in BOOLEAN
    /\ issued \in [Ops -> Nat]
    /\ ready \in [Ops -> {"no", "ok", "failed"}]
    /\ cqShut \in BOOLEAN /\ broken \in BOOLEAN
    /\ received \in 0 .. MaxReads /\ taken \in 0 .. MaxReads
    /\ writes \in 0 .. MaxWrites /\ writing \in 0 .. MaxWrites
    /\ written \subseteq 0 .. MaxWrites
    /\ ret.status \in OpErrors \cup {"ERROR", "TIMEOUT"}

\* The operations gRPC's contract counts: started, tag not taken yet.
Outstanding == [op \in Ops |-> issued[op] + IF ready[op] = "no" THEN 0 ELSE 1]

Contract == INSTANCE GrpcStream WITH outstanding <- Outstanding,
                                     finishing <- "FINISH" \in done \cup pending

\* Whatever the caller does, and in whatever order gRPC answers, the client
\* keeps gRPC's contract: the flags DoAsync tests let no second operation
\* of a kind start, none after Finish, none after Shutdown.
KeepsContract == Contract!Spec

\* A stream that failed is always being finished, so that its status will
\* be there, unless the client is shut down (ProcessEvent starts Finish
\* before the failed event is recorded).
ErrorFinishes == streamError => {"FINISH", "SHUTDOWN"} \cap (done \cup pending) # {}

\* The read callback is told the end of the stream at most once, and no
\* message after it ("nullptr to indicate that no more reads will happen").
LastReadIsNull ==
    \A i \in 1 .. Len(callbacks) : callbacks[i] = "null" => i = Len(callbacks)

\* A synchronous Write that returns OK has written its own message, not one
\* that an earlier Write left pending when its deadline passed.
WriteOkMeansWritten == ret.name = "Write" /\ ret.status = "OK" => writes \in written

\* A Sleep that ran until its deadline saw no error of the stream: none
\* occurred while it slept.
SleepSawNoError ==
    [][call.name = "Sleep" /\ ret'.name = "Sleep" /\ ret'.status = "TIMEOUT"
       => (streamError' => call.was)]_vars

\* Every message the server sent is with the caller, or waits for it: the
\* buffer is not read into again before its message has been taken.
EveryMessageIsRead ==
    received = taken + IF ready["READ"] = "ok" \/ readBufValid THEN 1 ELSE 0

\* Once the stream has ended every Write, WritesDone and Finish returns,
\* even without a deadline.
SyncReturns ==
    (Waiting /\ call.op # "none" /\ broken) ~> (call = Idle)
================================================================================
