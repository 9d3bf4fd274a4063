------------------------------ MODULE NatsClient ------------------------------
(***************************************************************************)
(* The collector's clients of the broker: NatsSignalServiceClient, which   *)
(* the system inspector uses in place of the gRPC client, and NatsClient,  *)
(* the same code as a library of its own.  One thread owns the client and  *)
(* starts and stops it while nobody publishes; publishers run at the same  *)
(* time as each other (in the collector there is one of them).             *)
(*                                                                         *)
(* The NATS library is external: a connection that is lost is re-made in   *)
(* the background for a limited number of attempts, during which messages  *)
(* are buffered; then it is closed for good.                               *)
(***************************************************************************)
EXTENDS Naturals

CONSTANTS Publishers,    \* threads that publish
          MaxStarts,     \* calls of Start
          MaxFailures    \* times the broker goes away

VARIABLES
    broker,      \* the broker accepts connections
    conn,        \* conn_: "null", "open", "reconnecting", "closed"
    connected,   \* connected_
    publisher,   \* per thread: "idle", "tested" (connected_ was true), "failed"
    used,        \* what the last natsConnection call of a publisher was given
    result,      \* per thread: what its last call returned
    wanted,      \* the owner has started the client and not stopped it
    starts, failures

natsVars == <<broker, conn, connected, publisher, used, result, wanted, starts, failures>>

NatsInit ==
    /\ broker \in BOOLEAN
    /\ conn = "null" /\ connected = FALSE
    /\ publisher = [t \in Publishers |-> "idle"]
    /\ used = "none"
    /\ result = [t \in Publishers |-> "none"]
    /\ wanted = FALSE /\ starts = 0 /\ failures = 0

Quiet == \A t \in Publishers : publisher[t] = "idle"

\* The broker comes and goes; a connection is closed when its attempts to
\* reconnect are used up.
BrokerUp ==
    /\ ~broker /\ broker' = TRUE
    /\ UNCHANGED <<conn, connected, publisher, used, result, wanted, starts, failures>>
BrokerDown ==
    /\ broker /\ failures < MaxFailures
    /\ broker' = FALSE /\ failures' = failures + 1
    /\ conn' = IF conn = "open" THEN "reconnecting" ELSE conn
    /\ UNCHANGED <<connected, publisher, used, result, wanted, starts>>
Reconnect ==
    /\ conn = "reconnecting" /\ broker
    /\ conn' = "open"
    /\ UNCHANGED <<broker, connected, publisher, used, result, wanted, starts, failures>>
GiveUp ==
    /\ conn = "reconnecting" /\ ~broker
    /\ conn' = "closed"
    /\ UNCHANGED <<broker, connected, publisher, used, result, wanted, starts, failures>>

-----------------------------------------------------------------------------

\* natsConnection_ConnectTo, under the lock: conn_ is set when it succeeds.
Connect ==
    IF broker THEN conn' = "open" /\ connected' = TRUE ELSE UNCHANGED <<conn, connected>>

\* Start: nothing when connected; otherwise one attempt, whose failure is
\* logged.
Start ==
    /\ Quiet /\ starts < MaxStarts
    /\ starts' = starts + 1 /\ wanted' = TRUE
    /\ IF connected THEN UNCHANGED <<conn, connected>> ELSE Connect
    /\ UNCHANGED <<broker, publisher, used, result, failures>>

\* Forgets to take back the flag.
DisconnectHalf == conn' = "null" /\ UNCHANGED connected

\* Closes and destroys the connection, if there is one.
Disconnect == conn' = "null" /\ connected' = FALSE

Stop ==
    /\ Quiet
    /\ wanted' = FALSE
    /\ Disconnect
    /\ UNCHANGED <<broker, publisher, used, result, starts, failures>>

\* PushSignals and Publish: the flag is tested first.  A message without a
\* process signal is not sent and counts as processed.
TestConnected(t, isProcess) ==
    /\ publisher[t] = "idle"
    /\ IF ~connected
       THEN result' = [result EXCEPT ![t] = "ERROR"] /\ UNCHANGED publisher
       ELSE IF ~isProcess
       THEN result' = [result EXCEPT ![t] = "PROCESSED"] /\ UNCHANGED publisher
       ELSE publisher' = [publisher EXCEPT ![t] = "tested"] /\ UNCHANGED result
    /\ UNCHANGED <<broker, conn, connected, used, wanted, starts, failures>>

\* natsConnection_Publish: a closed connection refuses; one that is being
\* re-made buffers, as long as there is room.
Publish(t) ==
    /\ publisher[t] = "tested"
    /\ used' = conn
    /\ \/ /\ conn \in {"open", "reconnecting"}
          /\ publisher' = [publisher EXCEPT ![t] = "idle"]
          /\ result' = [result EXCEPT ![t] = "PROCESSED"]
       \/ /\ conn # "open"
          /\ publisher' = [publisher EXCEPT ![t] = "failed"]
          /\ UNCHANGED result
    /\ UNCHANGED <<broker, conn, connected, wanted, starts, failures>>

\* Any failure counts as the end of the connection.
GoneAny == TRUE

\* natsConnection_IsClosed.
Gone == conn = "closed"

\* After a failed publish: "NATS connection closed, will attempt reconnect".
PublishFailed(t) ==
    /\ publisher[t] = "failed"
    /\ used' = conn
    /\ connected' = IF Gone THEN FALSE ELSE connected
    /\ publisher' = [publisher EXCEPT ![t] = "idle"]
    /\ result' = [result EXCEPT ![t] = "ERROR"]
    /\ UNCHANGED <<broker, conn, wanted, starts, failures>>

NatsNext ==
    \/ BrokerUp \/ BrokerDown \/ Reconnect \/ GiveUp \/ Start \/ Stop
    \/ \E t \in Publishers : \/ \E p \in BOOLEAN : TestConnected(t, p)
                             \/ Publish(t) \/ PublishFailed(t)

NatsSpec == NatsInit /\ [][NatsNext]_natsVars

-----------------------------------------------------------------------------

\* A publisher that has found the client connected hands a live or closed
\* connection to the library, never none, whatever the other publishers
\* have found out about the connection in the meantime.
PublishUsesConnection == used # "null" /\ (connected => conn # "null")

\* The client gives up a connection only when the library has: while the
\* library still tries to reconnect, messages go on being buffered.
KeepsWorkingConnection ==
    [][(connected /\ ~connected' /\ wanted') => conn = "closed"]_natsVars

\* PushSignals gives a connection up only when the library has, and never
\* publishes on none, whatever other publishers have found out meanwhile.
KeepsConnection == KeepsWorkingConnection /\ []PublishUsesConnection
=============================================================================
