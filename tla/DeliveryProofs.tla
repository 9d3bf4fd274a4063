-------------------------- MODULE DeliveryProofs ----------------------------
(***************************************************************************)
(* Three results about the order in which a client sends.                  *)
(*                                                                         *)
(* The signal stream to Sensor: two threads share its writer without a     *)
(* lock, and each stream begins with a refresh.  The invariant names the   *)
(* owner of the writer in every state of the two.                          *)
(*                                                                         *)
(* On the event bus a message that the broker counts as acknowledged has   *)
(* had its alerts, or lost them with a connection (AckedWasReported), for  *)
(* every set of streams, subscribers and events, any size of a batch and   *)
(* any number of crashes, outages, lost connections and redeliveries.      *)
(* Nothing is used of the engines but that they judge an event alike every *)
(* time.                                                                   *)
(*                                                                         *)
(* The invariant follows the alerts of a message on their way: while it is *)
(* handled, each of them is with the broker or dropped (Accounted), in the *)
(* buffer of the connection, or still to be published (Handled); once its  *)
(* acknowledgement is in the buffer, each is accounted for or in the       *)
(* buffer before it (InOrder); once that has arrived, each is accounted    *)
(* for (Settled).  A stream only grows at its end, and each of the three   *)
(* is about messages that were published, so the alerts of a message stay  *)
(* the same.  A lost connection drops the buffer as a whole; the end of a  *)
(* process takes the workers whose alerts were in the buffer along.        *)
(*                                                                         *)
(* The admission controller's callers write the statuses of the policies   *)
(* (UpdatePolicyStatuses) under a lock that admits them all at once.       *)
(* StatusIsRight needs to know what a caller holds between its steps:      *)
(* StatusIInv says that the status it is about to write is consistent and  *)
(* follows the copy it was computed from, whatever the others have written *)
(* since.                                                                  *)
(***************************************************************************)
EXTENDS SignalServiceClient, EventBus, PolicyStatus, TLAPS

-----------------------------------------------------------------------------
(* The signal stream to Sensor.                                            *)

(* stream_active_ names the owner.  While it is false the writer belongs   *)
(* to the stream thread, which opens a stream only then; while it is true, *)
(* to the inspector thread, which uses the writer only then.               *)
Ownership ==
  /\ at \in {"create", "start", "first", "activate"} => ~stream_active
  /\ at = "channel" => ~stream_active \/ should_stop
  /\ caller \in {"push", "dropped"} => stream_active
  /\ should_stop => caller \in {"join", "cancel", "stopped", "crashed"}
  /\ caller \in {"cancel", "stopped", "crashed"} => at = "done"

(* What the owner has: an active stream has an open or a broken writer     *)
(* until PushSignals drops it, an inactive one has a writer only while the *)
(* stream thread sets it up.                                               *)
WriterState ==
  /\ stream_active /\ caller # "dropped" => writer \in {"open", "broken"}
  /\ caller = "dropped" => writer = "null"
  /\ ~stream_active /\ at \notin {"start", "first", "activate"} => writer = "null"
  /\ at = "start" => writer = "starting"
  /\ at \in {"first", "activate"} => writer \in {"open", "broken"}
  /\ caller \notin {"stopped", "crashed"} /\ writer # "null" => context

(* A stream becomes active with first_write_ set, and only a refresh       *)
(* clears it.                                                              *)
RefreshPending ==
  /\ at = "activate" => first_write
  /\ stream_active /\ ~first_write => refreshed

IInv == TypeOK /\ Ownership /\ WriterState /\ RefreshPending

-----------------------------------------------------------------------------
(* Environment steps, which touch neither thread's variables.              *)
LEMMA EnvironmentStep ==
  ASSUME IInv, ShutdownHandler \/ Connect \/ Disconnect \/ BreakStream
  PROVE  IInv'
<1>1. CASE ShutdownHandler
  BY <1>1 DEF ShutdownHandler, streamVars, IInv, TypeOK, Ownership, WriterState,
              RefreshPending
<1>2. CASE Connect
  BY <1>2 DEF Connect, streamVars, IInv, TypeOK, Ownership, WriterState, RefreshPending
<1>3. CASE Disconnect
  <2>1. connected' \in BOOLEAN
    BY <1>3, Zenon DEF Disconnect
  <2>2. UNCHANGED <<control, streamVars, should_stop, at, caller>>
    BY <1>3 DEF Disconnect
  <2> QED
    BY <2>1, <2>2 DEF streamVars, IInv, TypeOK, Ownership, WriterState, RefreshPending
<1>4. CASE BreakStream
  <2>1. /\ writer = "open" /\ writer' = "broken"
        /\ UNCHANGED <<control, connected, stream_active, first_write, context,
                       refreshed, should_stop, at, caller>>
    BY <1>4, Zenon DEF BreakStream
  <2>2. TypeOK' BY <2>1 DEF IInv, TypeOK
  <2>3. Ownership' /\ RefreshPending' BY <2>1, Zenon DEF IInv, Ownership, RefreshPending
  <2>4. WriterState'
    <3>1. WriterState /\ writer # "starting" /\ writer # "null" BY <2>1 DEF IInv
    <3> QED BY <2>1, <3>1, Zenon DEF WriterState
  <2> QED BY <2>2, <2>3, <2>4, Zenon DEF IInv
<1> QED  BY <1>1, <1>2, <1>3, <1>4

(* Steps of the stream thread.                                             *)
LEMMA StreamThreadStep ==
  ASSUME IInv, StreamStep \/ SpuriousWakeup
  PROVE  IInv'
<1> USE DEF StreamThread, streamVars, IInv, TypeOK, Ownership, WriterState, RefreshPending
<1>1. CASE TestInterrupted
  BY <1>1 DEF TestInterrupted
<1>2. CASE SpuriousWakeup
  BY <1>2 DEF SpuriousWakeup
<1>3. CASE WaitForChannelReady
  BY <1>3 DEF WaitForChannelReady
<1>4. CASE CreateStream
  BY Zenon, <1>4 DEF CreateStream
<1>5. CASE StreamStarted
  BY <1>5 DEF StreamStarted
<1>6. CASE StreamNotReady
  BY <1>6 DEF StreamNotReady
<1>7. CASE SetFirstWrite
  BY <1>7 DEF SetFirstWrite
<1>8. CASE Activate
  BY <1>8, Zenon DEF Activate
<1>9. CASE Block
  BY <1>9 DEF Block
<1> QED
  <2> HIDE DEF StreamThread, streamVars, IInv, TypeOK, Ownership, WriterState, RefreshPending
  <2> QED BY <1>1, <1>2, <1>3, <1>4, <1>5, <1>6, <1>7, <1>8, <1>9, Zenon DEF StreamStep

(* Steps of the inspector thread.                                          *)
LEMMA InspectorThreadStep ==
  ASSUME IInv, BeginEvent \/ EndEvent \/ PushSignals \/ CallStep \/ StopStep
  PROVE  IInv'
<1> USE DEF InspectorThread, streamVars, IInv, TypeOK, Ownership, WriterState,
            RefreshPending
<1>1. CASE BeginEvent \/ EndEvent
  BY <1>1 DEF BeginEvent, EndEvent
<1>2. CASE PushSignals
  BY <1>2 DEF PushSignals
<1>3. CASE NeedsRefresh
  BY Zenon, <1>3 DEF NeedsRefresh
<1>4. CASE WriteSignal
  BY <1>4 DEF WriteSignal
<1>5. CASE DropWriter
  BY <1>5 DEF DropWriter
<1>6. CASE Deactivate
  BY Zenon, <1>6 DEF Deactivate
<1>7. CASE NotifyInterrupted
  BY <1>7 DEF NotifyInterrupted, NotifyOne
<1>8. CASE StopNotify
  BY <1>8 DEF StopNotify, NotifyOne
<1>9. CASE StopThread
  BY <1>9 DEF StopThread
<1>10. CASE Join
  BY <1>10 DEF Join
<1>11. CASE CancelContext
  BY Zenon, <1>11 DEF CancelContext
<1> QED
  <2> HIDE DEF InspectorThread, streamVars, IInv, TypeOK, Ownership, WriterState,
               RefreshPending
  <2> QED BY <1>1, <1>2, <1>3, <1>4, <1>5, <1>6, <1>7, <1>8, <1>9, <1>10, <1>11, Zenon
          DEF CallStep, StopStep

(* IInv is inductive.                                                      *)
THEOREM Invariance == Spec => []IInv
<1>1. Init => IInv
  BY Zenon DEF Init, IInv, TypeOK, Ownership, WriterState, RefreshPending
<1>2. IInv /\ [Next]_vars => IInv'
  <2> SUFFICES ASSUME IInv, [Next]_vars PROVE IInv'
    OBVIOUS
  <2>1. CASE UNCHANGED vars
    BY <2>1 DEF vars, streamVars, IInv, TypeOK, Ownership, WriterState, RefreshPending
  <2> QED  BY <2>1, EnvironmentStep, StreamThreadStep, InspectorThreadStep DEF Next
<1> QED  BY <1>1, <1>2, PTL DEF Spec

(* PushSignals and the stream thread never use the writer at the same      *)
(* time, and PushSignals finds a writer whenever it uses it.               *)
THEOREM WriterHasOneUserCorrect == Spec => []WriterHasOneUser
<1>1. IInv => WriterHasOneUser
  BY DEF IInv, TypeOK, Ownership, WriterState, WriterHasOneUser
<1> QED  BY <1>1, Invariance, PTL

(* A context is replaced only after the writer that used it is gone.       *)
THEOREM WriterGoneBeforeContextCorrect == Spec => []WriterGoneBeforeContext
<1>1. IInv => WriterGoneBeforeContext
  BY DEF IInv, TypeOK, Ownership, WriterState, WriterGoneBeforeContext
<1> QED  BY <1>1, Invariance, PTL

(* No signal is written on a stream that has not asked for the existing    *)
(* processes.                                                              *)
THEOREM RefreshBeforeSignalsCorrect == Spec => []RefreshBeforeSignals
<1>1. IInv => RefreshBeforeSignals
  BY DEF IInv, TypeOK, Ownership, RefreshPending, RefreshBeforeSignals
<1> QED  BY <1>1, Invariance, PTL

-----------------------------------------------------------------------------
(* The event bus: what its invariant is made of.                           *)

Policies == UNION {Handler(c, e) : c \in Consumers, e \in Events}
Durable == [made : BOOLEAN, from : Nat, acked : SUBSET Nat, waiting : SUBSET Nat]
Worker == [pc : {"off", "fetch", "handle", "report"}, batch : SUBSET Nat, message : Nat,
           todo : SUBSET Policies]
Item == [kind : {"ack", "alert"}, by : Consumers, message : Nat, policy : Policies \cup {"none"}]

(* The alerts that the broker has, and those that were lost with a         *)
(* connection.                                                             *)
Accounted == alerts \cup dropped

(* The messages published to a consumer's stream, and the alerts that one  *)
(* of them gives rise to.                                                  *)
Published(st, c) == 1..Len(st[c[2]])
Due(st, c, n) == {Alert(c, n, p) : p \in Handler(c, st[c[2]][n])}

(* What the broker has, or will have when the k-th item of the buffer      *)
(* arrives.                                                                *)
Sent(al, q, k) == al \cup {q[j] : j \in 1..(k - 1)}

(* A buffer, a worker and the broker's record of a consumer: each is about *)
(* messages that were published, and the alerts of what is acknowledged,   *)
(* or about to be, are not left behind.                                    *)
InOrder(st, al, q) ==
  \A k \in 1..Len(q) :
    /\ q[k].message \in Published(st, q[k].by)
    /\ q[k].kind = "ack" => Due(st, q[k].by, q[k].message) \subseteq Sent(al, q, k)

Handled(st, al, q, c, w) ==
  /\ w.batch \subseteq Published(st, c)
  /\ w.pc = "report" =>
       /\ w.message \in Published(st, c)
       /\ Due(st, c, w.message) \subseteq
            Sent(al, q, Len(q) + 1) \cup {Alert(c, w.message, p) : p \in w.todo}

Settled(st, al, c, d) ==
  \A n \in d.acked : n \in Published(st, c) /\ Due(st, c, n) \subseteq al

BusInv ==
  /\ stream \in [Streams -> Seq(Events)]
  /\ durable \in [Consumers -> Durable] /\ worker \in [Consumers -> Worker]
  /\ out \in [Subscribers -> Seq(Item)]
  /\ \A b \in Subscribers : InOrder(stream, Accounted, out[b])
  /\ \A c \in Consumers : /\ Handled(stream, Accounted, out[c[1]], c, worker[c])
                          /\ Settled(stream, Accounted, c, durable[c])

(* A consumer is a subscriber and a stream.                                *)
LEMMA ConsumerParts ==
  ASSUME NEW c \in Consumers
  PROVE  c[1] \in Subscribers /\ c[2] \in Streams
BY DEF Consumers

(* What a handler returns are policies.                                    *)
LEMMA HandlerPolicies ==
  ASSUME NEW c \in Consumers, NEW e \in Events
  PROVE  Handler(c, e) \in SUBSET Policies
BY DEF Policies

(* A worker with a batch and no message at hand.                           *)
LEMMA WorkerAtType ==
  ASSUME NEW pc \in {"off", "fetch", "handle"}, NEW batch, batch \subseteq Nat
  PROVE  /\ WorkerAt(pc, batch) \in Worker
         /\ WorkerAt(pc, batch).pc = pc /\ WorkerAt(pc, batch).batch = batch
BY DEF WorkerAt, Worker

(* Settled says what AckedWasReported does.                                *)
LEMMA InvIsReported == BusInv => AckedWasReported
BY Zenon DEF BusInv, Settled, AckedWasReported, Due, Accounted

-----------------------------------------------------------------------------
(* Buffers.                                                                *)

(* Only what is before the k-th item counts for it.                        *)
LEMMA SentPrefix ==
  ASSUME NEW al, NEW q, NEW r, NEW k, \A j \in 1..(k - 1) : r[j] = q[j]
  PROVE  Sent(al, r, k) = Sent(al, q, k)
BY DEF Sent

(* An item that is added comes last.                                       *)
LEMMA SentAppend ==
  ASSUME NEW al, NEW q \in Seq(Item), NEW x \in Item
  PROVE  Sent(al, Append(q, x), Len(Append(q, x)) + 1) = Sent(al, q, Len(q) + 1) \cup {x}
<1> DEFINE r == Append(q, x)
<1>1. Len(r) = Len(q) + 1 /\ Len(q) \in Nat OBVIOUS
<1>2. r[Len(q) + 1] = x /\ \A k \in 1..Len(q) : r[k] = q[k] OBVIOUS
<1> HIDE DEF r
<1>3. 1..(Len(r) + 1 - 1) = (1..(Len(q) + 1 - 1)) \cup {Len(q) + 1} BY <1>1
<1>4. \A j \in 1..(Len(q) + 1 - 1) : r[j] = q[j] BY <1>1, <1>2
<1>5. {r[j] : j \in 1..(Len(r) + 1 - 1)} = {q[j] : j \in 1..(Len(q) + 1 - 1)} \cup {x}
  BY <1>2, <1>3, <1>4
<1> QED BY <1>5 DEF r, Sent

(* The order is kept when an acknowledgement comes after its alerts.       *)
LEMMA InOrderAppend ==
  ASSUME NEW st, NEW al, NEW q \in Seq(Item), NEW x \in Item, InOrder(st, al, q),
         x.message \in Published(st, x.by),
         x.kind = "ack" => Due(st, x.by, x.message) \subseteq Sent(al, q, Len(q) + 1)
  PROVE  InOrder(st, al, Append(q, x))
<1> DEFINE r == Append(q, x)
<1>1. /\ Len(r) = Len(q) + 1 /\ r[Len(q) + 1] = x /\ \A k \in 1..Len(q) : r[k] = q[k]
      /\ \A k \in 1..(Len(q) + 1) : Sent(al, r, k) = Sent(al, q, k)
  <2>1. Len(r) = Len(q) + 1 /\ r[Len(q) + 1] = x /\ \A k \in 1..Len(q) : r[k] = q[k] OBVIOUS
  <2>2. ASSUME NEW k \in 1..(Len(q) + 1) PROVE Sent(al, r, k) = Sent(al, q, k)
    <3>1. \A j \in 1..(k - 1) : r[j] = q[j] BY <2>1
    <3> HIDE DEF r
    <3> QED BY <3>1, SentPrefix
  <2> QED BY <2>1, <2>2, Zenon
<1>2. Len(q) \in Nat OBVIOUS
<1> HIDE DEF r
<1> SUFFICES ASSUME NEW k \in 1..Len(r)
             PROVE  /\ r[k].message \in Published(st, r[k].by)
                    /\ r[k].kind = "ack" => Due(st, r[k].by, r[k].message) \subseteq Sent(al, r, k)
  BY DEF InOrder, r
<1>3. k \in 1..(Len(q) + 1) BY <1>1
<1>4. CASE k = Len(q) + 1 BY <1>1, <1>3, <1>4
<1>5. CASE k # Len(q) + 1
  <2>1. k \in 1..Len(q) BY <1>2, <1>3, <1>5
  <2>2. r[k] = q[k] /\ Sent(al, r, k) = Sent(al, q, k) BY <1>1, <1>3, <2>1, Zenon
  <2> QED BY <2>1, <2>2, Zenon DEF InOrder
<1> QED BY <1>4, <1>5

(* What has been sent is more when the broker has more.                    *)
LEMMA InOrderMore ==
  ASSUME NEW st, NEW al, NEW more, al \subseteq more, NEW q, InOrder(st, al, q)
  PROVE  InOrder(st, more, q)
BY Zenon DEF InOrder, Sent

(* So it is for a worker.                                                  *)
LEMMA HandledMore ==
  ASSUME NEW st, NEW al, NEW more, al \subseteq more, NEW q, NEW c, NEW w, Handled(st, al, q, c, w)
  PROVE  Handled(st, more, q, c, w)
BY Zenon DEF Handled, Sent

(* What is said of a worker whose buffer gets an item.                     *)
LEMMA HandledAppend ==
  ASSUME NEW st, NEW al, NEW q \in Seq(Item), NEW x \in Item, NEW c, NEW w, Handled(st, al, q, c, w)
  PROVE  Handled(st, al, Append(q, x), c, w)
<1>1. Sent(al, q, Len(q) + 1) \subseteq Sent(al, Append(q, x), Len(Append(q, x)) + 1)
  BY SentAppend
<1> QED BY <1>1, Zenon DEF Handled

-----------------------------------------------------------------------------
(* Steps.                                                                  *)

(* Streams grow at their end.                                              *)
Grows(st, new) ==
  \A c \in Consumers : \A n \in Published(st, c) :
    n \in Published(new, c) /\ new[c[2]][n] = st[c[2]][n]

(* A message that is published comes after those there are, so nothing is  *)
(* said of it yet and the alerts of the others stay as they are.           *)
LEMMA PublishGrows ==
  ASSUME BusInv, NEW e \in Events, Publish(e)
  PROVE  stream' \in [Streams -> Seq(Events)] /\ Grows(stream, stream')
<1>1. stream' = [stream EXCEPT ![e.stream] = Append(@, e)] BY DEF Publish
<1>2. stream \in [Streams -> Seq(Events)] BY DEF BusInv
<1>3. ASSUME NEW s \in Streams
      PROVE  /\ stream'[s] \in Seq(Events) /\ Len(stream'[s]) >= Len(stream[s])
             /\ \A n \in 1..Len(stream[s]) : stream'[s][n] = stream[s][n]
  <2>1. stream[s] \in Seq(Events) BY <1>2
  <2>2. stream'[s] = stream[s] \/ stream'[s] = Append(stream[s], e) BY <1>1, <1>2
  <2> QED BY <2>1, <2>2, SMTT(30)
<1>4. stream' \in [Streams -> Seq(Events)] BY <1>1, <1>2, <1>3, Zenon
<1>5. ASSUME NEW c \in Consumers, NEW n \in Published(stream, c)
      PROVE  n \in Published(stream', c) /\ stream'[c[2]][n] = stream[c[2]][n]
  <2>1. c[2] \in Streams BY ConsumerParts
  <2>2. stream[c[2]] \in Seq(Events) /\ stream'[c[2]] \in Seq(Events) BY <1>2, <1>4, <2>1
  <2> QED BY <1>3, <2>1, <2>2 DEF Published
<1> QED BY <1>4, <1>5, Zenon DEF Grows

(* Nothing that is said of a buffer, a worker or a record changes then.    *)
LEMMA GrowsKeeps ==
  ASSUME NEW st, NEW new, Grows(st, new), NEW al
  PROVE  /\ \A c \in Consumers : \A d : Settled(st, al, c, d) => Settled(new, al, c, d)
         /\ \A c \in Consumers : \A q, w : Handled(st, al, q, c, w) => Handled(new, al, q, c, w)
         /\ \A q \in Seq(Item) : InOrder(st, al, q) => InOrder(new, al, q)
<1>1. \A c \in Consumers : \A n \in Published(st, c) :
        n \in Published(new, c) /\ Due(new, c, n) = Due(st, c, n)
  BY Zenon DEF Grows, Due
<1>2. \A c \in Consumers : \A d : Settled(st, al, c, d) => Settled(new, al, c, d)
  BY <1>1, Zenon DEF Settled
<1>3. \A c \in Consumers : \A q, w : Handled(st, al, q, c, w) => Handled(new, al, q, c, w)
  BY <1>1, Zenon DEF Handled
<1>4. ASSUME NEW q \in Seq(Item), NEW k \in 1..Len(q) PROVE q[k].by \in Consumers
  <2>1. q[k] \in Item OBVIOUS
  <2> QED BY <2>1 DEF Item
<1>5. \A q \in Seq(Item) : InOrder(st, al, q) => InOrder(new, al, q)
  BY <1>1, <1>4, Zenon DEF InOrder
<1> QED BY <1>2, <1>3, <1>5, Zenon

(* Publish: an event arrives.                                              *)
LEMMA PublishKeeps ==
  ASSUME BusInv, NEW e \in Events, Publish(e)
  PROVE  BusInv'
<1>1. /\ durable' = durable /\ worker' = worker /\ out' = out /\ Accounted' = Accounted
  BY DEF Publish, clientVars, alertVars, Accounted
<1>2. stream' \in [Streams -> Seq(Events)] /\ Grows(stream, stream') BY PublishGrows, Zenon
<1>3. \A b \in Subscribers : out[b] \in Seq(Item) BY DEF BusInv
<1>4. \A b \in Subscribers : InOrder(stream', Accounted, out[b])
  BY <1>2, <1>3, GrowsKeeps, Zenon DEF BusInv
<1>5. ASSUME NEW c \in Consumers
      PROVE  /\ Handled(stream', Accounted, out[c[1]], c, worker[c])
             /\ Settled(stream', Accounted, c, durable[c])
  <2>1. Handled(stream, Accounted, out[c[1]], c, worker[c]) /\ Settled(stream, Accounted, c, durable[c])
    BY Zenon DEF BusInv
  <2>2. Handled(stream', Accounted, out[c[1]], c, worker[c])
    BY <1>2, <2>1, GrowsKeeps
  <2>3. Settled(stream', Accounted, c, durable[c]) BY <1>2, <2>1, GrowsKeeps, Zenon
  <2> QED BY <2>2, <2>3, Zenon
<1> QED BY <1>1, <1>2, <1>4, <1>5, Zenon DEF BusInv

(* The steps that touch no message on its way: the broker's start, its     *)
(* streams and their retention, connections, and redelivery.               *)
LEMMA StillKeeps ==
  ASSUME BusInv, stream' = stream, worker' = worker, out' = out, Accounted' = Accounted,
         durable' \in [Consumers -> Durable],
         \A c \in Consumers : durable'[c].acked \subseteq durable[c].acked
  PROVE  BusInv'
<1>1. \A c \in Consumers : Settled(stream, Accounted, c, durable'[c]) BY Zenon DEF BusInv, Settled
<1> QED BY <1>1, Zenon DEF BusInv

(* A consumer that starts has settled nothing yet, or what its durable     *)
(* predecessor had.                                                        *)
LEMMA startConsumerSettles ==
  ASSUME BusInv, NEW c \in Consumers
  PROVE  startConsumer(c) \in Durable /\ startConsumer(c).acked \subseteq durable[c].acked
<1>1. durable[c] \in Durable BY DEF BusInv
<1>2. c[2] \in Streams /\ Len(stream[c[2]]) \in Nat BY ConsumerParts DEF BusInv
<1>3. FromNow(c) \in Durable /\ FromNow(c).acked = {} BY <1>2 DEF FromNow, Durable
<1> QED BY <1>1, <1>3, Zenon DEF startConsumer

(* A process starts, with all of its consumers or some of them, or ends.   *)
LEMMA RestartKeeps ==
  ASSUME BusInv, NEW b \in Subscribers, stream' = stream, Accounted' = Accounted,
         out' \in [Subscribers -> Seq(Item)],
         \A x \in Subscribers : out'[x] = out[x] \/ (x = b /\ out'[x] = << >>),
         durable' \in [Consumers -> Durable], worker' \in [Consumers -> Worker],
         \A c \in Consumers : durable'[c].acked \subseteq durable[c].acked,
         \A c \in Consumers :
           \/ worker'[c] = worker[c] /\ out'[c[1]] = out[c[1]]
           \/ worker'[c].pc # "report" /\ worker'[c].batch = {}
  PROVE  BusInv'
<1>1. \A c \in Consumers : Settled(stream, Accounted, c, durable'[c]) BY Zenon DEF BusInv, Settled
<1>2. InOrder(stream, Accounted, << >>) BY DEF InOrder
<1>3. \A x \in Subscribers : InOrder(stream, Accounted, out'[x]) BY <1>2, Zenon DEF BusInv
<1>4. ASSUME NEW c \in Consumers PROVE Handled(stream, Accounted, out'[c[1]], c, worker'[c])
  <2>1. CASE worker'[c] = worker[c] /\ out'[c[1]] = out[c[1]] BY <2>1, Zenon DEF BusInv
  <2>2. CASE worker'[c].pc # "report" /\ worker'[c].batch = {} BY <2>2, Zenon DEF Handled
  <2> QED BY <2>1, <2>2, Zenon
<1> QED BY <1>1, <1>3, <1>4, Zenon DEF BusInv

-----------------------------------------------------------------------------
(* The loop of a consumer.                                                 *)

(* A worker goes on to w, and sends nothing.                               *)
LEMMA WorkerMoves ==
  ASSUME BusInv, NEW c \in Consumers, NEW w \in Worker,
         worker' = [worker EXCEPT ![c] = w], Handled(stream, Accounted, out[c[1]], c, w),
         stream' = stream, out' = out, Accounted' = Accounted,
         durable' \in [Consumers -> Durable],
         \A k \in Consumers : durable'[k].acked \subseteq durable[k].acked
  PROVE  BusInv'
<1>1. \A k \in Consumers : Settled(stream, Accounted, k, durable'[k]) BY Zenon DEF BusInv, Settled
<1>2. worker \in [Consumers -> Worker] BY Zenon DEF BusInv
<1>3. worker' \in [Consumers -> Worker] /\ \A k \in Consumers : worker'[k] = IF k = c THEN w ELSE worker[k]
  BY <1>2
<1>4. \A k \in Consumers : Handled(stream, Accounted, out[k[1]], k, worker'[k]) BY <1>3, Zenon DEF BusInv
<1> QED BY <1>1, <1>3, <1>4, Zenon DEF BusInv

(* A worker goes on to w, and x is in the buffer of its connection.        *)
LEMMA WorkerSends ==
  ASSUME BusInv, NEW c \in Consumers, NEW w \in Worker, NEW x \in Item,
         worker' = [worker EXCEPT ![c] = w], out' = [out EXCEPT ![c[1]] = Append(@, x)],
         Handled(stream, Accounted, Append(out[c[1]], x), c, w),
         x.message \in Published(stream, x.by),
         x.kind = "ack" => Due(stream, x.by, x.message) \subseteq Sent(Accounted, out[c[1]], Len(out[c[1]]) + 1),
         stream' = stream, Accounted' = Accounted, durable' = durable
  PROVE  BusInv'
<1>1. c[1] \in Subscribers /\ out \in [Subscribers -> Seq(Item)] /\ worker \in [Consumers -> Worker]
  BY ConsumerParts, Zenon DEF BusInv
<1>2. worker' \in [Consumers -> Worker] /\ \A k \in Consumers : worker'[k] = IF k = c THEN w ELSE worker[k]
  BY <1>1
<1>3. out[c[1]] \in Seq(Item) /\ Append(out[c[1]], x) \in Seq(Item) BY <1>1
<1>4. /\ out' \in [Subscribers -> Seq(Item)]
      /\ \A b \in Subscribers : out'[b] = IF b = c[1] THEN Append(out[b], x) ELSE out[b]
  BY <1>1, <1>3
<1>5. InOrder(stream, Accounted, Append(out[c[1]], x))
  <2>1. InOrder(stream, Accounted, out[c[1]]) BY <1>1, Zenon DEF BusInv
  <2> QED BY <1>3, <2>1, InOrderAppend
<1>6. \A b \in Subscribers : InOrder(stream, Accounted, out'[b]) BY <1>4, <1>5, Zenon DEF BusInv
<1>7. ASSUME NEW k \in Consumers PROVE Handled(stream, Accounted, out'[k[1]], k, worker'[k])
  <2>1. k[1] \in Subscribers BY ConsumerParts
  <2>2. CASE k = c BY <1>1, <1>2, <1>4, <2>2, Zenon
  <2>3. CASE k # c /\ k[1] = c[1]
    <3>1. Handled(stream, Accounted, out[k[1]], k, worker[k]) BY Zenon DEF BusInv
    <3>2. Handled(stream, Accounted, Append(out[k[1]], x), k, worker[k])
      BY <1>3, <2>3, <3>1, HandledAppend
    <3> QED BY <1>2, <1>4, <2>1, <2>3, <3>2, Zenon
  <2>4. CASE k[1] # c[1] BY <1>2, <1>4, <2>1, <2>4, Zenon DEF BusInv
  <2> QED BY <2>2, <2>3, <2>4, Zenon
<1> QED BY <1>2, <1>4, <1>6, <1>7, Zenon DEF BusInv

(* Fetch: what is delivered was published.                                 *)
LEMMA FetchKeeps ==
  ASSUME BusInv, NEW c \in Consumers, Fetch(c)
  PROVE  BusInv'
<1> DEFINE batch == {n \in Deliverable(c) : Cardinality({m \in Deliverable(c) : m <= n}) <= Fetched}
           w == WorkerAt("handle", batch)
<1>1. /\ worker' = [worker EXCEPT ![c] = w]
      /\ durable' = [durable EXCEPT ![c].waiting = @ \cup batch]
      /\ stream' = stream /\ out' = out /\ Accounted' = Accounted
  BY Zenon DEF Fetch, alertVars, Accounted
<1>2. c[2] \in Streams /\ Len(stream[c[2]]) \in Nat BY ConsumerParts DEF BusInv
<1>3. batch \subseteq Published(stream, c) /\ Published(stream, c) \subseteq Nat
  BY <1>2 DEF Deliverable, Published
<1> HIDE DEF batch
<1>4. worker[c] \in Worker /\ durable \in [Consumers -> Durable] BY DEF BusInv
<1>5. w \in Worker /\ w.pc = "handle" /\ w.batch = batch BY <1>3, WorkerAtType
<1>6. Handled(stream, Accounted, out[c[1]], c, w) BY <1>3, <1>5 DEF Handled
<1> HIDE DEF w
<1>7. durable' \in [Consumers -> Durable] /\ \A k \in Consumers : durable'[k].acked \subseteq durable[k].acked
  BY <1>1, <1>3, <1>4 DEF Durable
<1> QED BY <1>1, <1>5, <1>6, <1>7, WorkerMoves, Zenon

(* Handle: all alerts of the message are to be published.                  *)
LEMMA HandleKeeps ==
  ASSUME BusInv, NEW c \in Consumers, Handle(c)
  PROVE  BusInv'
<1>1. PICK n \in worker[c].batch :
        worker' = [worker EXCEPT ![c] = [pc |-> "report", batch |-> worker[c].batch, message |-> n,
                                           todo |-> Handler(c, stream[c[2]][n])]]
  BY Zenon DEF Handle
<1>2. stream' = stream /\ out' = out /\ Accounted' = Accounted /\ durable' = durable
  BY Zenon DEF Handle, brokerVars, alertVars, Accounted
<1> DEFINE todo == Handler(c, stream[c[2]][n])
           w == [pc |-> "report", batch |-> worker[c].batch, message |-> n, todo |-> todo]
<1>3. worker[c] \in Worker /\ durable \in [Consumers -> Durable] BY DEF BusInv
<1>4. n \in Published(stream, c) /\ worker[c].batch \subseteq Published(stream, c) BY Zenon DEF BusInv, Handled
<1>5. n \in Nat /\ todo \in SUBSET Policies
  <2>1. c[2] \in Streams /\ stream[c[2]] \in Seq(Events) BY ConsumerParts DEF BusInv
  <2>2. n \in Nat /\ stream[c[2]][n] \in Events BY <1>4, <2>1 DEF Published
  <2> QED BY <2>2, HandlerPolicies
<1>6. todo = Handler(c, stream[c[2]][n]) OBVIOUS
<1> HIDE DEF todo
<1>7. w \in Worker /\ w.pc = "report" /\ w.message = n /\ w.todo = todo /\ w.batch = worker[c].batch
  <2>1. worker[c].batch \in SUBSET Nat BY <1>3 DEF Worker
  <2> QED BY <1>5, <2>1 DEF Worker
<1>8. worker' = [worker EXCEPT ![c] = w] BY <1>1, <1>6, Zenon
<1> HIDE DEF w
<1>9. Handled(stream, Accounted, out[c[1]], c, w) BY <1>4, <1>6, <1>7, Zenon DEF Handled, Due
<1> QED BY <1>2, <1>3, <1>7, <1>8, <1>9, WorkerMoves, Zenon

(* Report: an alert that was to be published is in the buffer.             *)
LEMMA ReportKeeps ==
  ASSUME BusInv, NEW c \in Consumers, Report(c)
  PROVE  BusInv'
<1>1. PICK p \in worker[c].todo :
        /\ worker' = [worker EXCEPT ![c].todo = @ \ {p}]
        /\ out' = [out EXCEPT ![c[1]] = Append(@, Alert(c, worker[c].message, p))]
  BY Zenon DEF Report, enforce, publishAlert
<1>2. /\ worker[c].pc = "report"
      /\ stream' = stream /\ Accounted' = Accounted /\ durable' = durable
  BY Zenon DEF Report, brokerVars, alertVars, Accounted
<1> DEFINE x == Alert(c, worker[c].message, p)
           todo == worker[c].todo \ {p}
           w == [worker[c] EXCEPT !.todo = todo]
<1>3. worker[c] \in Worker /\ out[c[1]] \in Seq(Item) BY ConsumerParts DEF BusInv
<1>4. x \in Item /\ x.kind = "alert" /\ x.message = worker[c].message /\ x.by = c
  BY <1>3 DEF Alert, Item, Worker
<1>5. todo \in SUBSET Policies BY <1>3 DEF Worker
<1>6. x = Alert(c, worker[c].message, p) /\ todo = worker[c].todo \ {p} OBVIOUS
<1> HIDE DEF x, todo
<1>7. /\ w \in Worker /\ w.pc = worker[c].pc /\ w.message = worker[c].message
      /\ w.todo = todo /\ w.batch = worker[c].batch
  BY <1>3, <1>5 DEF Worker
<1>8. worker' = [worker EXCEPT ![c] = w] BY <1>1, <1>6
<1> HIDE DEF w
<1>9. /\ worker[c].batch \subseteq Published(stream, c)
      /\ worker[c].message \in Published(stream, c)
      /\ Due(stream, c, worker[c].message) \subseteq
           Sent(Accounted, out[c[1]], Len(out[c[1]]) + 1)
             \cup {Alert(c, worker[c].message, r) : r \in worker[c].todo}
  BY <1>2, Zenon DEF BusInv, Handled
<1>10. Handled(stream, Accounted, Append(out[c[1]], x), c, w)
  <2>1. Sent(Accounted, Append(out[c[1]], x), Len(Append(out[c[1]], x)) + 1)
          = Sent(Accounted, out[c[1]], Len(out[c[1]]) + 1) \cup {x}
    <3> DEFINE q == out[c[1]]
    <3>1. q \in Seq(Item) /\ x \in Item BY <1>3, <1>4
    <3> HIDE DEF q
    <3>2. Sent(Accounted, Append(q, x), Len(Append(q, x)) + 1) = Sent(Accounted, q, Len(q) + 1) \cup {x}
      BY <3>1, SentAppend
    <3> QED BY <3>2, Zenon DEF q
  <2>2. {Alert(c, worker[c].message, r) : r \in worker[c].todo}
          \subseteq {x} \cup {Alert(c, worker[c].message, r) : r \in todo}
    BY <1>6, Zenon
  <2>3. Due(stream, c, w.message) \subseteq
          Sent(Accounted, Append(out[c[1]], x), Len(Append(out[c[1]], x)) + 1)
            \cup {Alert(c, w.message, r) : r \in w.todo}
    BY <1>7, <1>9, <2>1, <2>2, Zenon
  <2> QED BY <1>7, <1>9, <2>3, Zenon DEF Handled
<1>11. x.message \in Published(stream, x.by) BY <1>4, <1>9, Zenon
<1>12. x.kind # "ack" BY <1>4
<1>13. out' = [out EXCEPT ![c[1]] = Append(@, x)] BY <1>1, <1>6, Zenon
<1> QED BY <1>2, <1>4, <1>7, <1>8, <1>10, <1>11, <1>12, <1>13, WorkerSends, Zenon

(* Acknowledge: the acknowledgement comes after all alerts of the message. *)
LEMMA AcknowledgeKeeps ==
  ASSUME BusInv, NEW c \in Consumers, Acknowledge(c)
  PROVE  BusInv'
<1> DEFINE n == worker[c].message
           rest == worker[c].batch \ {n}
           x == Ack(c, n)
           w == WorkerAt(IF rest = {} THEN "fetch" ELSE "handle", rest)
<1>1. worker[c].pc = "report" /\ worker[c].todo = {} BY Zenon DEF Acknowledge, MayAck
<1>2. /\ worker' = [worker EXCEPT ![c] = w] /\ out' = [out EXCEPT ![c[1]] = Append(@, x)]
      /\ stream' = stream /\ Accounted' = Accounted /\ durable' = durable
  BY Zenon DEF Acknowledge, brokerVars, alertVars, Accounted
<1>3. worker[c] \in Worker /\ out[c[1]] \in Seq(Item) BY ConsumerParts DEF BusInv
<1>4. x \in Item /\ x.kind = "ack" /\ x.message = n /\ x.by = c BY <1>3 DEF Ack, Item, Worker
<1>5. rest \subseteq Nat /\ rest \subseteq worker[c].batch BY <1>3 DEF Worker
<1>6. w \in Worker /\ w.pc # "report" /\ w.batch = rest
  <2> DEFINE pc == IF rest = {} THEN "fetch" ELSE "handle"
  <2>1. pc \in {"off", "fetch", "handle"} /\ pc # "report" OBVIOUS
  <2>2. w = WorkerAt(pc, rest) OBVIOUS
  <2> HIDE DEF pc, rest, w
  <2> QED BY <1>5, <2>1, <2>2, WorkerAtType, Zenon
<1>7. /\ worker[c].batch \subseteq Published(stream, c)
      /\ n \in Published(stream, c)
      /\ Due(stream, c, n) \subseteq
           Sent(Accounted, out[c[1]], Len(out[c[1]]) + 1) \cup {Alert(c, n, r) : r \in worker[c].todo}
  BY <1>1, Zenon DEF BusInv, Handled
<1> HIDE DEF x, w, rest, n
<1>8. Due(stream, c, n) \subseteq Sent(Accounted, out[c[1]], Len(out[c[1]]) + 1) BY <1>1, <1>7, Zenon
<1>9. Handled(stream, Accounted, Append(out[c[1]], x), c, w) BY <1>5, <1>6, <1>7, Zenon DEF Handled
<1> QED BY <1>2, <1>4, <1>6, <1>7, <1>8, <1>9, WorkerSends, Zenon

-----------------------------------------------------------------------------
(* Flush.                                                                  *)

(* Alerts are no acknowledgements.                                         *)
LEMMA DueAreAlerts ==
  ASSUME NEW st, NEW c, NEW n, NEW a \in Due(st, c, n)
  PROVE  a.kind = "alert"
BY DEF Due, Alert

(* No alert is lost when the first item leaves the buffer and the broker   *)
(* gets it if it is one.                                                   *)
LEMMA SentTail ==
  ASSUME NEW al, NEW more, al \subseteq more, NEW q \in Seq(Item), q # << >>,
         q[1].kind = "alert" => q[1] \in more, NEW k \in 1..Len(q),
         NEW a \in Sent(al, q, k + 1), a.kind = "alert"
  PROVE  a \in Sent(more, Tail(q), k)
<1> DEFINE r == Tail(q)
<1>1. /\ Len(q) \in Nat /\ Len(q) >= 1 /\ Len(r) = Len(q) - 1
      /\ \A j \in 1..(Len(q) - 1) : r[j] = q[j + 1]
  OBVIOUS
<1> HIDE DEF r
<1>2. CASE a \in al BY <1>2 DEF Sent
<1>3. CASE \E j \in 1..(k + 1 - 1) : a = q[j]
  <2>1. PICK j \in 1..(k + 1 - 1) : a = q[j] BY <1>3
  <2>2. CASE j = 1 BY <2>1, <2>2 DEF Sent
  <2>3. CASE j # 1
    <3>1. j - 1 \in 1..(k - 1) /\ j - 1 \in 1..(Len(q) - 1) /\ (j - 1) + 1 = j BY <1>1, <2>3
    <3>2. r[j - 1] = q[j] BY <1>1, <3>1
    <3> QED BY <2>1, <3>1, <3>2, Zenon DEF Sent, r
  <2> QED BY <2>2, <2>3
<1> QED BY <1>2, <1>3 DEF Sent

(* What that means for the buffer and for a worker.                        *)
LEMMA TailKeeps ==
  ASSUME NEW st, NEW al, NEW more, al \subseteq more, NEW q \in Seq(Item), q # << >>,
         q[1].kind = "alert" => q[1] \in more
  PROVE  /\ InOrder(st, al, q) => InOrder(st, more, Tail(q))
         /\ \A c, w : Handled(st, al, q, c, w) => Handled(st, more, Tail(q), c, w)
<1> DEFINE r == Tail(q)
<1>1. /\ Len(q) \in Nat /\ Len(q) >= 1 /\ Len(r) = Len(q) - 1 /\ r \in Seq(Item)
      /\ \A j \in 1..(Len(q) - 1) : r[j] = q[j + 1]
  OBVIOUS
<1>2. ASSUME NEW c, NEW n, NEW k \in 1..Len(q), NEW rest, Due(st, c, n) \subseteq Sent(al, q, k + 1) \cup rest
      PROVE  Due(st, c, n) \subseteq Sent(more, r, k) \cup rest
  <2> SUFFICES ASSUME NEW a \in Due(st, c, n), a \notin rest PROVE a \in Sent(more, r, k)
    BY Zenon
  <2>1. a.kind = "alert" BY DueAreAlerts
  <2>2. a \in Sent(al, q, k + 1) BY <1>2, Zenon
  <2> QED BY <2>1, <2>2, SentTail
<1>3. Len(r) + 1 = Len(q) /\ Len(q) \in 1..Len(q) BY <1>1
<1> HIDE DEF r
<1>4. ASSUME InOrder(st, al, q), NEW k \in 1..Len(r)
      PROVE  /\ r[k].message \in Published(st, r[k].by)
             /\ r[k].kind = "ack" => Due(st, r[k].by, r[k].message) \subseteq Sent(more, r, k)
  <2>1. k \in 1..(Len(q) - 1) /\ k \in 1..Len(q) /\ k + 1 \in 1..Len(q) BY <1>1
  <2>2. r[k] = q[k + 1] BY <1>1, <2>1
  <2>3. /\ r[k].message \in Published(st, r[k].by)
        /\ r[k].kind = "ack" => Due(st, r[k].by, r[k].message) \subseteq Sent(al, q, k + 1)
    BY <1>4, <2>1, <2>2, Zenon DEF InOrder
  <2>4. ASSUME r[k].kind = "ack" PROVE Due(st, r[k].by, r[k].message) \subseteq Sent(more, r, k) \cup {}
    <3>1. Due(st, r[k].by, r[k].message) \subseteq Sent(al, q, k + 1) \cup {} BY <2>3, <2>4, Zenon
    <3> QED BY <1>2, <2>1, <3>1
  <2> QED BY <2>3, <2>4, Zenon
<1>5. ASSUME NEW c, NEW w, Handled(st, al, q, c, w) PROVE Handled(st, more, r, c, w)
  <2> DEFINE rest == {Alert(c, w.message, p) : p \in w.todo}
  <2>1. w.pc = "report" => /\ w.message \in Published(st, c)
                           /\ Due(st, c, w.message) \subseteq Sent(al, q, Len(q) + 1) \cup rest
    BY <1>5, Zenon DEF Handled
  <2>2. w.pc = "report" => Due(st, c, w.message) \subseteq Sent(more, r, Len(q)) \cup rest
    <3> HIDE DEF rest
    <3> QED BY <1>2, <1>3, <2>1
  <2> QED BY <1>3, <1>5, <2>1, <2>2, Zenon DEF Handled
<1>6. InOrder(st, al, q) => InOrder(st, more, r) BY <1>4, Zenon DEF InOrder
<1> QED BY <1>5, <1>6, Zenon DEF r

(* The buffers and the workers after a step that takes the first item out  *)
(* of one buffer.                                                          *)
LEMMA TailStep ==
  ASSUME BusInv, NEW b \in Subscribers, out[b] # << >>, out' = [out EXCEPT ![b] = Tail(@)],
         NEW more, Accounted \subseteq more, out[b][1].kind = "alert" => out[b][1] \in more
  PROVE  /\ out' \in [Subscribers -> Seq(Item)]
         /\ \A y \in Subscribers : InOrder(stream, more, out'[y])
         /\ \A c \in Consumers : Handled(stream, more, out'[c[1]], c, worker[c])
<1>1. out \in [Subscribers -> Seq(Item)] BY Zenon DEF BusInv
<1>2. out[b] \in Seq(Item) /\ Tail(out[b]) \in Seq(Item) BY <1>1
<1>3. /\ out' \in [Subscribers -> Seq(Item)]
      /\ \A y \in Subscribers : out'[y] = IF y = b THEN Tail(out[b]) ELSE out[y]
  BY <1>1, <1>2
<1>4. /\ InOrder(stream, Accounted, out[b]) => InOrder(stream, more, Tail(out[b]))
      /\ \A c, w : Handled(stream, Accounted, out[b], c, w) => Handled(stream, more, Tail(out[b]), c, w)
  <2> DEFINE q == out[b]
  <2>1. q \in Seq(Item) /\ q # << >> /\ (q[1].kind = "alert" => q[1] \in more) BY <1>2
  <2> HIDE DEF q
  <2>2. /\ InOrder(stream, Accounted, q) => InOrder(stream, more, Tail(q))
        /\ \A c, w : Handled(stream, Accounted, q, c, w) => Handled(stream, more, Tail(q), c, w)
    BY <2>1, TailKeeps, Zenon
  <2> QED BY <2>2, Zenon DEF q
<1>5. ASSUME NEW y \in Subscribers PROVE InOrder(stream, more, out'[y])
  <2>1. InOrder(stream, Accounted, out[y]) BY Zenon DEF BusInv
  <2>2. CASE y = b BY <1>3, <1>4, <2>1, <2>2, Zenon
  <2>3. CASE y # b
    <3>1. InOrder(stream, more, out[y]) BY <2>1, InOrderMore, Zenon
    <3> QED BY <1>3, <2>3, <3>1, Zenon
  <2> QED BY <2>2, <2>3, Zenon
<1>6. ASSUME NEW c \in Consumers PROVE Handled(stream, more, out'[c[1]], c, worker[c])
  <2>1. Handled(stream, Accounted, out[c[1]], c, worker[c]) BY Zenon DEF BusInv
  <2>2. c[1] \in Subscribers BY ConsumerParts
  <2>3. CASE c[1] = b BY <1>3, <1>4, <2>1, <2>2, <2>3, Zenon
  <2>4. CASE c[1] # b
    <3>1. Handled(stream, more, out[c[1]], c, worker[c]) BY <2>1, HandledMore, Zenon
    <3> QED BY <1>3, <2>2, <2>4, <3>1, Zenon
  <2> QED BY <2>3, <2>4, Zenon
<1> QED BY <1>3, <1>5, <1>6, Zenon

(* Flush: the broker gets an alert, or an acknowledgement that has all of  *)
(* its alerts before it.                                                   *)
LEMMA FlushKeeps ==
  ASSUME BusInv, NEW b \in Subscribers, Flush(b)
  PROVE  BusInv'
<1> DEFINE x == out[b][1]
<1>1. /\ out[b] # << >> /\ out' = [out EXCEPT ![b] = Tail(@)]
      /\ stream' = stream /\ worker' = worker
  BY Zenon DEF Flush
<1>2. out[b] \in Seq(Item) BY DEF BusInv
<1>3. 1 \in 1..Len(out[b]) /\ Head(out[b]) = x /\ x \in Item BY <1>1, <1>2
<1>4. CASE x.kind = "ack"
  <2>1. /\ durable' = [durable EXCEPT ![x.by].acked = @ \cup {x.message},
                                      ![x.by].waiting = @ \ {x.message}]
        /\ Accounted' = Accounted
    BY <1>3, <1>4, Zenon DEF Flush, Accounted
  <2>2. x.by \in Consumers /\ x.message \in Nat BY <1>3 DEF Item
  <2>3. x.message \in Published(stream, x.by) /\ Due(stream, x.by, x.message) \subseteq Accounted
    <3>1. InOrder(stream, Accounted, out[b]) BY Zenon DEF BusInv
    <3>2. x.message \in Published(stream, x.by) /\ Due(stream, x.by, x.message) \subseteq Sent(Accounted, out[b], 1)
      BY <1>3, <1>4, <3>1, Zenon DEF InOrder
    <3>3. Sent(Accounted, out[b], 1) = Accounted BY DEF Sent
    <3> QED BY <3>2, <3>3, Zenon
  <2>4. durable \in [Consumers -> Durable] BY Zenon DEF BusInv
  <2> DEFINE by == x.by
             n == x.message
  <2>5. ASSUME NEW c \in Consumers
        PROVE  durable'[c] \in Durable /\ durable'[c].acked = durable[c].acked \cup (IF c = by THEN {n} ELSE {})
    <3>1. durable[c] \in Durable BY <2>4
    <3>2. by \in Consumers /\ n \in Nat BY <2>2, Zenon
    <3>3. durable' = [durable EXCEPT ![by].acked = @ \cup {n}, ![by].waiting = @ \ {n}] BY <2>1
    <3> HIDE DEF by, n
    <3>4. CASE c = by
      <4>1. durable'[c] = [durable[c] EXCEPT !.acked = @ \cup {n}, !.waiting = @ \ {n}]
        BY <2>4, <3>2, <3>3, <3>4
      <4>2. durable[c].acked \cup {n} \in SUBSET Nat /\ durable[c].waiting \ {n} \in SUBSET Nat
        BY <3>1, <3>2 DEF Durable
      <4> QED BY <3>1, <3>4, <4>1, <4>2, Zenon DEF Durable
    <3>5. CASE c # by
      <4>1. durable'[c] = durable[c] BY <2>4, <3>2, <3>3, <3>5
      <4> QED BY <3>1, <3>5, <4>1
    <3> QED BY <3>4, <3>5, Zenon
  <2>6. durable' \in [Consumers -> Durable] BY <2>1, <2>4, <2>5, Zenon
  <2>7. ASSUME NEW c \in Consumers PROVE Settled(stream, Accounted, c, durable'[c])
    <3>1. Settled(stream, Accounted, c, durable[c]) BY Zenon DEF BusInv
    <3>2. \A m \in durable'[c].acked : m \in durable[c].acked \/ (c = by /\ m = n)
      <4> HIDE DEF by, n
      <4> QED BY <2>5
    <3> QED BY <2>3, <3>1, <3>2, Zenon DEF Settled
  <2>8. /\ out' \in [Subscribers -> Seq(Item)]
        /\ \A y \in Subscribers : InOrder(stream, Accounted, out'[y])
        /\ \A c \in Consumers : Handled(stream, Accounted, out'[c[1]], c, worker[c])
    <3>1. x.kind # "alert" BY <1>4
    <3> QED BY <1>1, <3>1, TailStep, Zenon
  <2> QED BY <1>1, <2>1, <2>6, <2>7, <2>8, Zenon DEF BusInv
<1>5. CASE x.kind # "ack"
  <2>0. alerts' = alerts \cup {x} /\ dropped' = dropped /\ durable' = durable BY <1>3, <1>5, Zenon DEF Flush
  <2>1. Accounted' = Accounted \cup {x} /\ durable' = durable BY <2>0 DEF Accounted
  <2>2. Accounted \subseteq Accounted' /\ x \in Accounted' BY <2>1, Zenon
  <2>3. /\ out' \in [Subscribers -> Seq(Item)]
        /\ \A y \in Subscribers : InOrder(stream, Accounted', out'[y])
        /\ \A c \in Consumers : Handled(stream, Accounted', out'[c[1]], c, worker[c])
    BY <1>1, <2>2, TailStep, Zenon
  <2>4. \A c \in Consumers : Settled(stream, Accounted', c, durable[c]) BY <2>2, Zenon DEF BusInv, Settled
  <2> QED BY <1>1, <2>1, <2>3, <2>4, Zenon DEF BusInv
<1> QED BY <1>4, <1>5, Zenon

-----------------------------------------------------------------------------
(* All steps.                                                              *)

(* The steps of the broker and of a connection that leave messages alone.  *)
LEMMA BrokerKeeps ==
  ASSUME BusInv,
         \/ StartBroker \/ StopBroker \/ Listen
         \/ \E s \in Streams : createStreams(s) \/ Expire(s)
         \/ \E b \in Subscribers : ConnectFails(b) \/ LoseConnection(b) \/ Reconnected(b)
  PROVE  BusInv'
<1>1. /\ stream' = stream /\ worker' = worker /\ out' = out /\ durable' = durable
      /\ alerts' = alerts /\ dropped' = dropped
  BY Zenon DEF StartBroker, StopBroker, Listen, createStreams, Expire, ConnectFails, LoseConnection,
               Reconnected, brokerVars, clientVars, alertVars
<1>2. Accounted' = Accounted BY <1>1, Zenon DEF Accounted
<1> QED BY <1>1, <1>2, Zenon DEF BusInv

(* Disconnected: the alerts in the buffer of the lost connection are       *)
(* dropped, and only those that were in it.                                *)
LEMMA DisconnectedKeeps ==
  ASSUME BusInv, NEW b \in Subscribers, Disconnected(b)
  PROVE  BusInv'
<1>1. /\ stream' = stream /\ worker' = worker /\ durable' = durable /\ alerts' = alerts
      /\ out' = [out EXCEPT ![b] = << >>]
      /\ dropped' = dropped \cup {x \in Range(out[b]) : x.kind = "alert"}
  BY Zenon DEF Disconnected, brokerVars
<1>2. /\ Accounted \subseteq Accounted'
      /\ \A x \in Range(out[b]) : x.kind = "alert" => x \in Accounted'
  BY <1>1, Zenon DEF Accounted
<1>3. out \in [Subscribers -> Seq(Item)] /\ out[b] \in Seq(Item) BY DEF BusInv
<1>4. /\ out' \in [Subscribers -> Seq(Item)]
      /\ \A y \in Subscribers : out'[y] = IF y = b THEN << >> ELSE out[y]
  BY <1>1, <1>3
<1>5. \A j \in 1..Len(out[b]) : out[b][j] \in Range(out[b]) BY <1>3 DEF Range
<1>6. ASSUME NEW y \in Subscribers PROVE InOrder(stream, Accounted', out'[y])
  <2>1. InOrder(stream, Accounted', << >>) BY DEF InOrder
  <2>2. InOrder(stream, Accounted', out[y]) BY <1>2, InOrderMore, Zenon DEF BusInv
  <2> QED BY <1>4, <2>1, <2>2, Zenon
<1>7. ASSUME NEW c \in Consumers PROVE Handled(stream, Accounted', out'[c[1]], c, worker[c])
  <2>1. Handled(stream, Accounted, out[c[1]], c, worker[c]) BY Zenon DEF BusInv
  <2>2. Handled(stream, Accounted', out[c[1]], c, worker[c]) BY <1>2, <2>1, HandledMore, Zenon
  <2>3. c[1] \in Subscribers BY ConsumerParts
  <2>4. CASE c[1] = b
    <3>1. ASSUME NEW a \in Due(stream, c, worker[c].message), a \in Sent(Accounted', out[b], Len(out[b]) + 1)
          PROVE  a \in Accounted'
      <4>1. a.kind = "alert" BY DueAreAlerts
      <4>2. a \in Accounted' \/ \E j \in 1..((Len(out[b]) + 1) - 1) : a = out[b][j] BY <3>1, Zenon DEF Sent
      <4>3. (Len(out[b]) + 1) - 1 = Len(out[b]) BY <1>3
      <4> QED BY <1>2, <1>5, <4>1, <4>2, <4>3, Zenon
    <3>2. Accounted' \subseteq Sent(Accounted', << >>, Len(<< >>) + 1) BY Zenon DEF Sent
    <3> QED BY <1>4, <2>2, <2>3, <2>4, <3>1, <3>2, Zenon DEF Handled
  <2>5. CASE c[1] # b BY <1>4, <2>2, <2>3, <2>5, Zenon
  <2> QED BY <2>4, <2>5, Zenon
<1>8. \A c \in Consumers : Settled(stream, Accounted', c, durable[c])
  BY <1>2, Zenon DEF BusInv, Settled
<1> QED BY <1>1, <1>4, <1>6, <1>7, <1>8, Zenon DEF BusInv

(* Redeliver: what is delivered again was not acknowledged.                *)
LEMMA RedeliverKeeps ==
  ASSUME BusInv, NEW c \in Consumers, NEW n, Redeliver(c, n)
  PROVE  BusInv'
<1>1. /\ stream' = stream /\ worker' = worker /\ out' = out /\ Accounted' = Accounted
      /\ durable' = [durable EXCEPT ![c].waiting = @ \ {n}]
  BY Zenon DEF Redeliver, clientVars, alertVars, Accounted
<1>2. durable \in [Consumers -> Durable] BY Zenon DEF BusInv
<1>3. durable' \in [Consumers -> Durable] /\ \A k \in Consumers : durable'[k].acked \subseteq durable[k].acked
  BY <1>1, <1>2 DEF Durable
<1> QED BY <1>1, <1>2, <1>3, StillKeeps, Zenon

(* Start and StartFails: durable consumers resume, workers have fetched    *)
(* nothing.                                                                *)
LEMMA StartKeeps ==
  ASSUME BusInv, NEW b \in Subscribers, Start(b) \/ StartFails(b)
  PROVE  BusInv'
<1>1. stream' = stream /\ Accounted' = Accounted /\ out' = out BY Zenon DEF Start, StartFails, alertVars, Accounted
<1>2. PICK started \in SUBSET Consumers :
        durable' = [c \in Consumers |-> IF c \in started THEN startConsumer(c) ELSE durable[c]]
  <2>1. CASE Start(b)
    <3> DEFINE started == {c \in Consumers : c[1] = b}
    <3>1. durable' = [c \in Consumers |-> IF c \in started THEN startConsumer(c) ELSE durable[c]]
      BY <2>1, Zenon DEF Start
    <3> QED BY <3>1, Zenon
  <2>2. CASE StartFails(b) BY <2>2, Zenon DEF StartFails
  <2> QED BY <2>1, <2>2, Zenon
<1>3. PICK fresh \in SUBSET Consumers :
        worker' = [c \in Consumers |-> IF c \in fresh THEN WorkerAt("fetch", {}) ELSE worker[c]]
  <2>1. CASE Start(b)
    <3> DEFINE fresh == {c \in Consumers : c[1] = b}
    <3>1. worker' = [c \in Consumers |-> IF c \in fresh THEN WorkerAt("fetch", {}) ELSE worker[c]]
      BY <2>1, Zenon DEF Start
    <3> QED BY <3>1, Zenon
  <2>2. CASE StartFails(b)
    <3> DEFINE fresh == {c \in Consumers : /\ c[1] = b /\ c[2] \in created
                                           /\ c[2] = "network" => "process" \in created
                                           /\ AfterFailedStart(b) # "down"}
    <3>1. worker' = [c \in Consumers |-> IF c \in fresh THEN WorkerAt("fetch", {}) ELSE worker[c]]
      BY <2>2, Zenon DEF StartFails
    <3> QED BY <3>1, Zenon
  <2> QED BY <2>1, <2>2, Zenon
<1>4. /\ out \in [Subscribers -> Seq(Item)]
      /\ durable \in [Consumers -> Durable] /\ worker \in [Consumers -> Worker]
  BY Zenon DEF BusInv
<1>5. durable' \in [Consumers -> Durable] /\ \A c \in Consumers : durable'[c].acked \subseteq durable[c].acked
  BY <1>2, <1>4, startConsumerSettles, Zenon
<1>6. WorkerAt("fetch", {}) \in Worker /\ WorkerAt("fetch", {}).pc # "report" /\ WorkerAt("fetch", {}).batch = {}
  BY WorkerAtType
<1>7. /\ worker' \in [Consumers -> Worker]
      /\ \A c \in Consumers : worker'[c] = worker[c] \/ (worker'[c].pc # "report" /\ worker'[c].batch = {})
  BY <1>3, <1>4, <1>6, Zenon
<1> QED BY <1>1, <1>4, <1>5, <1>7, RestartKeeps, Zenon

(* Exit: the process takes its workers and its buffer with it.             *)
LEMMA ExitKeeps ==
  ASSUME BusInv, NEW b \in Subscribers, Exit(b)
  PROVE  BusInv'
<1>1. /\ stream' = stream /\ Accounted' = Accounted /\ durable' = durable
      /\ worker' = [c \in Consumers |-> IF c[1] = b THEN NoWorker ELSE worker[c]]
      /\ out' = [out EXCEPT ![b] = << >>]
  BY Zenon DEF Exit, brokerVars, alertVars, Accounted
<1>2. /\ out \in [Subscribers -> Seq(Item)]
      /\ durable \in [Consumers -> Durable] /\ worker \in [Consumers -> Worker]
  BY Zenon DEF BusInv
<1>3. /\ out' \in [Subscribers -> Seq(Item)]
      /\ \A y \in Subscribers : out'[y] = IF y = b THEN << >> ELSE out[y]
  BY <1>1, <1>2
<1>4. NoWorker \in Worker /\ NoWorker.pc # "report" /\ NoWorker.batch = {} BY WorkerAtType DEF NoWorker
<1>5. worker' \in [Consumers -> Worker] BY <1>1, <1>2, <1>4, Zenon
<1>6. \A c \in Consumers : c[1] \in Subscribers BY ConsumerParts
<1>7. \A c \in Consumers : \/ worker'[c] = worker[c] /\ out'[c[1]] = out[c[1]]
                           \/ worker'[c].pc # "report" /\ worker'[c].batch = {}
  BY <1>1, <1>3, <1>4, <1>6, Zenon
<1>8. \A y \in Subscribers : out'[y] = out[y] \/ (y = b /\ out'[y] = << >>) BY <1>3, Zenon
<1>9. \A c \in Consumers : durable'[c].acked \subseteq durable[c].acked BY <1>1, Zenon
<1> QED BY <1>1, <1>2, <1>3, <1>5, <1>7, <1>8, <1>9, RestartKeeps, Zenon

(* Every step keeps the invariant.                                         *)
LEMMA StepKeepsInv ==
  ASSUME BusInv, [BusNext]_busVars
  PROVE  BusInv'
<1>1. CASE \/ StartBroker \/ StopBroker \/ Listen
           \/ \E s \in Streams : createStreams(s) \/ Expire(s)
           \/ \E b \in Subscribers : ConnectFails(b) \/ LoseConnection(b) \/ Reconnected(b)
  BY <1>1, BrokerKeeps, Zenon
<1>2. CASE \E e \in Events : Publish(e) BY <1>2, PublishKeeps, Zenon
<1>3. ASSUME NEW b \in Subscribers, Start(b) \/ StartFails(b) PROVE BusInv' BY <1>3, StartKeeps, Zenon
<1>4. ASSUME NEW b \in Subscribers, Exit(b) PROVE BusInv' BY <1>4, ExitKeeps, Zenon
<1>5. ASSUME NEW b \in Subscribers, Disconnected(b) PROVE BusInv' BY <1>5, DisconnectedKeeps, Zenon
<1>6. ASSUME NEW b \in Subscribers, Flush(b) PROVE BusInv' BY <1>6, FlushKeeps, Zenon
<1>7. ASSUME NEW c \in Consumers, Fetch(c) PROVE BusInv' BY <1>7, FetchKeeps, Zenon
<1>8. ASSUME NEW c \in Consumers, Handle(c) PROVE BusInv' BY <1>8, HandleKeeps, Zenon
<1>9. ASSUME NEW c \in Consumers, Report(c) PROVE BusInv' BY <1>9, ReportKeeps, Zenon
<1>10. ASSUME NEW c \in Consumers, Acknowledge(c) PROVE BusInv' BY <1>10, AcknowledgeKeeps, Zenon
<1>11. ASSUME NEW c \in Consumers, NEW n \in 1..MaxEvents, Redeliver(c, n) PROVE BusInv'
  BY <1>11, RedeliverKeeps, Zenon
<1>12. CASE UNCHANGED busVars
  <2>1. /\ stream' = stream /\ worker' = worker /\ out' = out /\ Accounted' = Accounted
        /\ durable' = durable
    BY <1>12, Zenon DEF busVars, brokerVars, clientVars, alertVars, Accounted
  <2> QED BY <2>1, Zenon DEF BusInv
<1> QED BY <1>1, <1>2, <1>3, <1>4, <1>5, <1>6, <1>7, <1>8, <1>9, <1>10, <1>11, <1>12, Zenon
        DEF BusNext

(* Nothing is published, fetched or sent at first.                         *)
LEMMA BusInitInv == BusInit => BusInv
<1> SUFFICES ASSUME BusInit PROVE BusInv OBVIOUS
<1>1. /\ stream = [s \in Streams |-> << >>] /\ durable = [c \in Consumers |-> NoDurable]
      /\ worker = [c \in Consumers |-> NoWorker]
      /\ out = [b \in Subscribers |-> << >>]
  BY Zenon DEF BusInit
<1>2. NoDurable \in Durable /\ NoDurable.acked = {} BY DEF NoDurable, Durable
<1>3. NoWorker \in Worker /\ NoWorker.pc # "report" /\ NoWorker.batch = {} BY WorkerAtType DEF NoWorker
<1>4. stream \in [Streams -> Seq(Events)] /\ out \in [Subscribers -> Seq(Item)] BY <1>1
<1>5. durable \in [Consumers -> Durable] /\ worker \in [Consumers -> Worker] BY <1>1, <1>2, <1>3, Zenon
<1>6. \A b \in Subscribers : InOrder(stream, Accounted, out[b])
  <2>1. InOrder(stream, Accounted, << >>) BY DEF InOrder
  <2> QED BY <1>1, <2>1, Zenon
<1>7. \A c \in Consumers : /\ Handled(stream, Accounted, out[c[1]], c, worker[c])
                           /\ Settled(stream, Accounted, c, durable[c])
  BY <1>1, <1>2, <1>3, Zenon DEF Handled, Settled
<1> QED BY <1>4, <1>5, <1>6, <1>7, Zenon DEF BusInv

(* A message that the broker counts as acknowledged has had every alert of *)
(* its handler, or lost it with a connection, whatever crashes, outages,   *)
(* lost connections, redeliveries and retention have come between.         *)
THEOREM AckedWasReportedHolds == BusSpec => []AckedWasReported
<1>1. BusInv /\ [BusNext]_busVars => BusInv' BY StepKeepsInv, Zenon
<1> QED BY <1>1, BusInitInv, InvIsReported, PTL DEF BusSpec

-----------------------------------------------------------------------------
(* The policies' status.                                                   *)

(* A status of the right kind that is consistent.                          *)
StatusSet == [total : Nat, active : Nat, recent : Seq(Nat), conditions : Seq({"AcceptedByAdmissionControl"})]
Good(s) == s \in StatusSet /\ Consistent(s)

(* Its count is a number.                                                  *)
LEMMA GoodTotal == \A s : Good(s) => s.total \in Nat
BY DEF Good, StatusSet

(* NewStatus keeps a status consistent, counts one violation more, and     *)
(* has it last in its list.                                                *)
LEMMA NewStatusGood ==
  ASSUME NEW s, Good(s), NEW now \in Nat
  PROVE  /\ Good(NewStatus(s, now)) /\ NewStatus(s, now).total = s.total + 1
         /\ NewStatus(s, now).recent[Len(NewStatus(s, now).recent)] = now
<1> DEFINE type == "AcceptedByAdmissionControl"
           recent == AppendRecentViolation(s.recent, now)
           conditions == SetCondition(s.conditions, type)
<1>1. /\ s.total \in Nat /\ s.active = s.total /\ s.recent \in Seq(Nat)
      /\ s.conditions \in Seq({type})
      /\ Len(s.recent) = IF s.total < maxRecentViolations THEN s.total ELSE maxRecentViolations
      /\ Len(s.conditions) = IF s.total = 0 THEN 0 ELSE 1
  BY DEF Good, StatusSet, Consistent
<1>2. /\ recent \in Seq(Nat) /\ recent[Len(recent)] = now
      /\ Len(recent) = IF s.total + 1 < maxRecentViolations THEN s.total + 1 ELSE maxRecentViolations
  <2> DEFINE all == Append(s.recent, now)
  <2>1. all \in Seq(Nat) /\ Len(all) = Len(s.recent) + 1 /\ all[Len(all)] = now BY <1>1
  <2>2. CASE Len(all) > maxRecentViolations
    <3>1. recent = SubSeq(all, Len(all) - maxRecentViolations + 1, Len(all))
      BY <2>2, Zenon DEF AppendRecentViolation
    <3>2. Len(all) = maxRecentViolations + 1 BY <1>1, <2>1, <2>2, RecentAssumption
    <3>3. recent = SubSeq(all, 2, maxRecentViolations + 1)
      BY <3>1, <3>2, RecentAssumption
    <3> HIDE DEF all, recent
    <3>4. recent \in Seq(Nat) /\ Len(recent) = maxRecentViolations
      <4>1. ASSUME NEW m \in Nat, NEW q \in Seq(Nat), Len(q) = m + 1
            PROVE  SubSeq(q, 2, m + 1) \in Seq(Nat) /\ Len(SubSeq(q, 2, m + 1)) = m
        <5>1. Len(SubSeq(q, 2, m + 1)) = m BY <4>1
        <5>2. \A i \in 2..(m + 1) : q[i] \in Nat BY <4>1
        <5> QED BY <4>1, <5>1, <5>2
      <4> QED BY <2>1, <3>2, <3>3, <4>1, RecentAssumption
    <3>5. recent[Len(recent)] = all[Len(all)] BY <2>1, <3>2, <3>3, <3>4, RecentAssumption
    <3> QED BY <1>1, <2>1, <3>2, <3>4, <3>5, RecentAssumption
  <2>3. CASE ~(Len(all) > maxRecentViolations)
    <3>1. recent = all BY <2>3 DEF AppendRecentViolation
    <3> QED BY <1>1, <2>1, <2>3, <3>1, RecentAssumption
  <2> QED BY <2>2, <2>3
<1>3. conditions \in Seq({type}) /\ Len(conditions) = 1
  <2>1. CASE Len(s.conditions) = 1
    <3>1. s.conditions[1] = type BY <1>1, <2>1
    <3> QED BY <1>1, <2>1, <3>1 DEF SetCondition
  <2>2. CASE Len(s.conditions) = 0
    BY <1>1, <2>2 DEF SetCondition
  <2> QED BY <1>1, <2>1, <2>2
<1> HIDE DEF recent, conditions
<1>4. NewStatus(s, now) = [total |-> s.total + 1, active |-> s.active + 1,
                           recent |-> recent, conditions |-> conditions]
  BY DEF NewStatus, recent, conditions
<1>5. NewStatus(s, now) \in StatusSet BY <1>1, <1>2, <1>3, <1>4 DEF StatusSet
<1> QED BY <1>1, <1>2, <1>3, <1>4, <1>5 DEF Good, Consistent

(* The history h of a policy, of which the engine's copy has the k-th      *)
(* status: all are consistent, the counts never go back, and the last one  *)
(* is at most one ahead of the copy.                                       *)
History(h, k) ==
  /\ h \in Seq(StatusSet) /\ k \in 1..Len(h)
  /\ \A i \in 1..Len(h) : Good(h[i])
  /\ \A i, j \in 1..Len(h) : i <= j => h[i].total <= h[j].total
  /\ h[Len(h)].total <= h[k].total + 1

(* A status that is on its way was computed from the copy that the engine  *)
(* still has.                                                              *)
OnItsWay(ob, sn, u) ==
  /\ u.policy \in ClusterPolicies /\ Good(u.status)
  /\ u.status.total = ob[u.policy][sn[u.policy]].total + 1
  /\ u.status.recent[Len(u.status.recent)] = u.now

Going(ob, sn, u) ==
  /\ u.now \in Nat /\ u.todo \subseteq ClusterPolicies
  /\ u.pc \in {"computed", "got"} => OnItsWay(ob, sn, u)

StatusIInv ==
  /\ objects \in [ClusterPolicies -> Seq(StatusSet)] /\ seen \in [ClusterPolicies -> Nat]
  /\ update = [c \in Callers |-> update[c]] /\ reports \in Nat
  /\ \A p \in ClusterPolicies : History(objects[p], seen[p])
  /\ \A c \in Callers : Going(objects, seen, update[c])

(* A status computed from the copy may be written after any other.         *)
LEMMA HistoryGrows ==
  ASSUME NEW h, NEW k, History(h, k), NEW s, Good(s), s.total = h[k].total + 1
  PROVE  History(Append(h, s), k)
<1> DEFINE g == Append(h, s)
<1>1. /\ h \in Seq(StatusSet) /\ s \in StatusSet /\ k \in 1..Len(h)
      /\ Len(h) \in Nat BY DEF History, Good
<1>2. /\ g \in Seq(StatusSet) /\ Len(g) = Len(h) + 1 /\ g[Len(h) + 1] = s
      /\ \A i \in 1..Len(h) : g[i] = h[i]
  BY <1>1
<1> HIDE DEF g
<1>3. \A i \in 1..Len(g) : i \in 1..Len(h) \/ i = Len(h) + 1 BY <1>1, <1>2
<1>4. \A i \in 1..Len(g) : Good(g[i]) BY <1>2, <1>3 DEF History
<1>6. s.total \in Nat BY GoodTotal, Zenon
<1>5. \A i \in 1..Len(h) : h[i].total \in Nat /\ h[i].total <= s.total
  <2> TAKE i \in 1..Len(h)
  <2>1. Len(h) \in 1..Len(h) /\ i <= Len(h) BY <1>1
  <2>2. h[i].total <= h[Len(h)].total /\ h[Len(h)].total <= s.total
    BY <2>1, Zenon DEF History
  <2>3. h[i].total \in Nat /\ h[Len(h)].total \in Nat BY <2>1, GoodTotal, Zenon DEF History
  <2> QED BY <1>6, <2>2, <2>3
<1>7. ASSUME NEW i \in 1..Len(g), NEW j \in 1..Len(g), i <= j PROVE g[i].total <= g[j].total
  <2>1. CASE j \in 1..Len(h)
    <3>1. i \in 1..Len(h) BY <1>1, <1>7, <2>1
    <3> QED BY <1>2, <1>7, <2>1, <3>1 DEF History
  <2>2. CASE j = Len(h) + 1 /\ i \in 1..Len(h) BY <1>2, <1>5, <2>2
  <2>3. CASE j = Len(h) + 1 /\ i = Len(h) + 1 BY <1>2, <1>6, <2>3
  <2> QED BY <1>3, <2>1, <2>2, <2>3
<1>8. k \in 1..Len(g) /\ g[k] = h[k] BY <1>1, <1>2
<1>9. g[Len(g)].total <= g[k].total + 1 BY <1>2, <1>6, <1>8
<1> QED BY <1>2, <1>4, <1>7, <1>8, <1>9 DEF History, g

(* The copy may be replaced by any later status.                           *)
LEMMA HistorySeen ==
  ASSUME NEW h, NEW k, History(h, k), NEW v \in (k + 1)..Len(h)
  PROVE  History(h, v)
<1>1. h \in Seq(StatusSet) /\ k \in 1..Len(h) /\ v \in 1..Len(h) /\ k <= v BY DEF History
<1>2. h[k].total <= h[v].total /\ h[Len(h)].total <= h[k].total + 1 BY <1>1, Zenon DEF History
<1>3. Len(h) \in 1..Len(h) BY <1>1
<1>4. h[k].total \in Nat /\ h[v].total \in Nat /\ h[Len(h)].total \in Nat
  BY <1>1, <1>3, GoodTotal, Zenon DEF History
<1>5. \A a, b, c \in Nat : a <= b /\ c <= a + 1 => c <= b + 1 OBVIOUS
<1>6. h[Len(h)].total <= h[v].total + 1 BY <1>2, <1>4, <1>5, Zenon
<1> QED BY <1>1, <1>6, Zenon DEF History

(* A caller goes on to u, and writes nothing.                              *)
LEMMA CallerMoves ==
  ASSUME StatusIInv, NEW c \in Callers, NEW u, Going(objects, seen, u),
         update' = [update EXCEPT ![c] = u], objects' = objects, seen' = seen, reports' \in Nat
  PROVE  StatusIInv'
<1>1. update = [k \in Callers |-> update[k]] BY DEF StatusIInv
<1>2. /\ update' = [k \in Callers |-> update'[k]]
      /\ \A k \in Callers : update'[k] = IF k = c THEN u ELSE update[k]
  BY <1>1
<1>3. \A k \in Callers : Going(objects, seen, update'[k]) BY <1>2, Zenon DEF StatusIInv
<1> QED BY <1>2, <1>3, Zenon DEF StatusIInv

(* A caller between two policies may go on from anywhere.                  *)
LEMMA NextGoes ==
  ASSUME StatusIInv, NEW c \in Callers
  PROVE  Going(objects, seen, Update("next", update[c].now, update[c].todo, "none", NoStatus, 0))
<1>1. update[c].now \in Nat /\ update[c].todo \subseteq ClusterPolicies BY DEF StatusIInv, Going
<1> QED BY <1>1 DEF Going, Update

(* UpdatePolicyStatuses up to the write, and its return.                   *)
LEMMA CallerKeeps ==
  ASSUME StatusIInv, NEW c \in Callers,
         \/ \E violated \in SUBSET ClusterPolicies : UpdatePolicyStatuses(c, violated)
         \/ \E p \in ClusterPolicies : ComputeStatus(c, p)
         \/ RLock(c) \/ GetPolicy(c) \/ RUnlock(c)
  PROVE  StatusIInv'
<1>0. update[c].now \in Nat /\ update[c].todo \subseteq ClusterPolicies /\ reports \in Nat
  BY DEF StatusIInv, Going
<1> DEFINE next == Update("next", update[c].now, update[c].todo, "none", NoStatus, 0)
<1>1. CASE \E violated \in SUBSET ClusterPolicies : UpdatePolicyStatuses(c, violated)
  <2>1. PICK violated \in SUBSET ClusterPolicies : UpdatePolicyStatuses(c, violated) BY <1>1
  <2> DEFINE u == Update("called", reports + 1, violated, "none", NoStatus, 0)
  <2>2. Going(objects, seen, u) BY <1>0 DEF Going, Update
  <2>3. /\ update' = [update EXCEPT ![c] = u] /\ objects' = objects /\ seen' = seen
        /\ reports' = reports + 1
    BY <2>1, Zenon DEF UpdatePolicyStatuses
  <2>4. reports' \in Nat BY <1>0, <2>3
  <2> HIDE DEF u
  <2> QED BY <2>2, <2>3, <2>4, CallerMoves, Zenon
<1>2. CASE \E p \in ClusterPolicies : ComputeStatus(c, p)
  <2>1. PICK p \in ClusterPolicies : ComputeStatus(c, p) BY <1>2
  <2> DEFINE s == NewStatus(Cached(p), update[c].now)
             u == Update("computed", update[c].now, update[c].todo \ {p}, p, s, 0)
  <2>2. History(objects[p], seen[p]) BY Zenon DEF StatusIInv
  <2>3. Good(Cached(p)) BY <2>2, Zenon DEF History, Cached
  <2>4. Good(s) /\ s.total = Cached(p).total + 1 /\ s.recent[Len(s.recent)] = update[c].now
    BY <1>0, <2>3, NewStatusGood, Zenon
  <2>5. /\ update' = [update EXCEPT ![c] = u] /\ objects' = objects /\ seen' = seen
        /\ reports' = reports
    BY <2>1, Zenon DEF ComputeStatus
  <2> HIDE DEF s
  <2>6. /\ u.pc = "computed" /\ u.now = update[c].now /\ u.todo = update[c].todo \ {p}
        /\ u.policy = p /\ u.status = s
    BY DEF Update
  <2> HIDE DEF u
  <2>7. OnItsWay(objects, seen, u) BY <2>4, <2>6, Zenon DEF OnItsWay, Cached
  <2>8. Going(objects, seen, u)
    <3>1. update[c].todo \ {p} \subseteq ClusterPolicies BY <1>0, Zenon
    <3> QED BY <1>0, <2>6, <2>7, <3>1, Zenon DEF Going
  <2> QED BY <1>0, <2>5, <2>8, CallerMoves, Zenon
<1>3. CASE RLock(c) \/ (GetPolicy(c) /\ update' = [update EXCEPT ![c] = next])
  <2>1. /\ update' = [update EXCEPT ![c] = next] /\ objects' = objects /\ seen' = seen
        /\ reports' = reports
    BY <1>3, Zenon DEF RLock, GetPolicy
  <2>2. Going(objects, seen, next) BY NextGoes
  <2> HIDE DEF next
  <2> QED BY <1>0, <2>1, <2>2, CallerMoves, Zenon
<1>4. CASE GetPolicy(c) /\ update' # [update EXCEPT ![c] = next]
  <2> DEFINE u == Update("got", update[c].now, update[c].todo, update[c].policy, update[c].status,
                         Len(objects[update[c].policy]))
  <2>1. /\ update' = [update EXCEPT ![c] = u] /\ objects' = objects /\ seen' = seen
        /\ reports' = reports /\ update[c].pc = "computed"
    BY <1>4, Zenon DEF GetPolicy
  <2>2. /\ u.pc = "got" /\ u.now = update[c].now /\ u.todo = update[c].todo
        /\ u.policy = update[c].policy /\ u.status = update[c].status
    BY DEF Update
  <2>3. OnItsWay(objects, seen, update[c]) BY <2>1 DEF StatusIInv, Going
  <2> HIDE DEF u
  <2>4. Going(objects, seen, u) BY <1>0, <2>2, <2>3, Zenon DEF Going, OnItsWay
  <2> QED BY <1>0, <2>1, <2>4, CallerMoves, Zenon
<1>5. CASE RUnlock(c)
  <2>1. /\ update' = [update EXCEPT ![c] = NoUpdate] /\ objects' = objects /\ seen' = seen
        /\ reports' = reports
    BY <1>5, Zenon DEF RUnlock
  <2>2. Going(objects, seen, NoUpdate) BY DEF Going, NoUpdate, Update
  <2> QED BY <1>0, <2>1, <2>2, CallerMoves, Zenon
<1> QED BY <1>1, <1>2, <1>3, <1>4, <1>5, Zenon

(* UpdateClusterPolicyStatus: what is written was computed from the copy   *)
(* the engine has, so that nothing that is on its way is behind it.        *)
LEMMA UpdateStatusKeeps ==
  ASSUME StatusIInv, NEW c \in Callers, UpdateStatus(c)
  PROVE  /\ StatusIInv'
         /\ \A p \in ClusterPolicies : objects'[p] # objects[p] =>
               LET s == objects'[p][Len(objects'[p])]
               IN  HasLock(c) /\ s.recent[Len(s.recent)] = update[c].now
<1> DEFINE next == Update("next", update[c].now, update[c].todo, "none", NoStatus, 0)
           q == update[c].policy
           s == update[c].status
<1>1. /\ update' = [update EXCEPT ![c] = next] /\ seen' = seen /\ reports' = reports
      /\ update[c].pc = "got"
      /\ objects' = [objects EXCEPT ![q] = Append(@, s)] \/ objects' = objects
  BY Zenon DEF UpdateStatus
<1>2. OnItsWay(objects, seen, update[c]) /\ HasLock(c) BY <1>1 DEF StatusIInv, Going, HasLock
<1>3. Going(objects, seen, next) /\ reports \in Nat BY NextGoes DEF StatusIInv
<1> HIDE DEF next
<1>4. CASE objects' = objects BY <1>1, <1>3, <1>4, CallerMoves, Zenon
<1>5. CASE objects' = [objects EXCEPT ![q] = Append(@, s)]
  <2>1. /\ q \in ClusterPolicies /\ Good(s) /\ s.total = objects[q][seen[q]].total + 1
        /\ s.recent[Len(s.recent)] = update[c].now
    BY <1>2, Zenon DEF OnItsWay
  <2> HIDE DEF q, s
  <2>2. objects \in [ClusterPolicies -> Seq(StatusSet)] /\ s \in StatusSet BY <2>1 DEF StatusIInv, Good
  <2>3. objects[q] \in Seq(StatusSet) BY <2>1, <2>2
  <2>4. Append(objects[q], s) \in Seq(StatusSet) BY <2>2, <2>3
  <2>5. /\ objects' \in [ClusterPolicies -> Seq(StatusSet)]
        /\ \A p \in ClusterPolicies : objects'[p] = IF p = q THEN Append(objects[p], s) ELSE objects[p]
    BY <1>5, <2>2, <2>4, Zenon
  <2>6. History(objects[q], seen[q]) BY <2>1, Zenon DEF StatusIInv
  <2>7. History(Append(objects[q], s), seen[q]) BY <2>1, <2>6, HistoryGrows
  <2>8. \A p \in ClusterPolicies : History(objects'[p], seen'[p])
    BY <1>1, <2>5, <2>7, Zenon DEF StatusIInv
  <2>9. \A p \in ClusterPolicies : objects'[p][seen'[p]] = objects[p][seen[p]]
    <3> TAKE p \in ClusterPolicies
    <3>1. CASE p # q BY <1>1, <2>5, <3>1
    <3>2. CASE p = q
      <4>1. seen[q] \in 1..Len(objects[q]) BY <2>6 DEF History
      <4>2. Append(objects[q], s)[seen[q]] = objects[q][seen[q]] BY <2>2, <2>3, <4>1
      <4> QED BY <1>1, <2>1, <2>5, <3>2, <4>2, Zenon
    <3> QED BY <3>1, <3>2
  <2>10. \A u : Going(objects, seen, u) => Going(objects', seen', u)
    BY <2>9, Zenon DEF Going, OnItsWay
  <2>11. /\ update' = [k \in Callers |-> update'[k]]
         /\ \A k \in Callers : update'[k] = IF k = c THEN next ELSE update[k]
    <3>1. update = [k \in Callers |-> update[k]] BY DEF StatusIInv
    <3> QED BY <1>1, <3>1
  <2>12. \A k \in Callers : Going(objects', seen', update'[k])
    BY <1>3, <2>10, <2>11, Zenon DEF StatusIInv
  <2>13. seen' \in [ClusterPolicies -> Nat] BY <1>1 DEF StatusIInv
  <2>14. StatusIInv' BY <1>1, <1>3, <2>5, <2>8, <2>11, <2>12, <2>13, Zenon DEF StatusIInv
  <2>15. Append(objects[q], s)[Len(Append(objects[q], s))] = s BY <2>2, <2>3
  <2> QED BY <1>2, <2>1, <2>5, <2>14, <2>15, Zenon
<1> QED BY <1>1, <1>4, <1>5, Zenon

(* CopyPolicy: no caller has a status on its way.                          *)
LEMMA CopyPolicyKeeps ==
  ASSUME StatusIInv, NEW p \in ClusterPolicies, CopyPolicy(p)
  PROVE  StatusIInv' /\ objects' = objects
<1>1. PICK v \in (seen[p] + 1)..Len(objects[p]) : seen' = [seen EXCEPT ![p] = v]
  BY Zenon DEF CopyPolicy
<1>2. /\ objects' = objects /\ update' = update /\ reports' = reports
      /\ \A c \in Callers : update[c].pc \notin {"computed", "got"}
  BY DEF CopyPolicy, HasLock
<1>3. /\ seen \in [ClusterPolicies -> Nat] /\ History(objects[p], seen[p])
      /\ objects[p] \in Seq(StatusSet)
  BY DEF StatusIInv
<1>4. v \in Nat BY <1>3
<1>5. /\ seen' \in [ClusterPolicies -> Nat]
      /\ \A k \in ClusterPolicies : seen'[k] = IF k = p THEN v ELSE seen[k]
  BY <1>1, <1>3, <1>4
<1>6. History(objects[p], v) BY <1>3, HistorySeen
<1>7. \A k \in ClusterPolicies : History(objects'[k], seen'[k])
  BY <1>2, <1>5, <1>6, Zenon DEF StatusIInv
<1>8. \A c \in Callers : Going(objects', seen', update'[c])
  BY <1>2, Zenon DEF StatusIInv, Going
<1> QED BY <1>2, <1>5, <1>7, <1>8, Zenon DEF StatusIInv

(* UpdatePolicyStatuses and CopyPolicy (engine.go:62-68, 155-216), for any *)
(* number of callers, reports and policies, any limit of the list and any  *)
(* lag of the informer: StatusIsRight.                                     *)
THEOREM StatusIsRightHolds == StatusSpec => StatusIsRight
<1>1. StatusInit => StatusIInv
  <2> SUFFICES ASSUME StatusInit PROVE StatusIInv OBVIOUS
  <2>1. NoStatus \in StatusSet /\ Good(NoStatus)
    BY RecentAssumption DEF NoStatus, StatusSet, Good, Consistent
  <2>2. NoStatus.total = 0 BY DEF NoStatus
  <2> HIDE DEF NoStatus
  <2>3. <<NoStatus>> \in Seq(StatusSet) /\ Len(<<NoStatus>>) = 1 /\ <<NoStatus>>[1] = NoStatus
    BY <2>1
  <2>4. History(<<NoStatus>>, 1) BY <2>1, <2>2, <2>3 DEF History
  <2>5. Going(objects, seen, NoUpdate) BY DEF Going, NoUpdate, Update
  <2> QED BY <2>3, <2>4, <2>5 DEF StatusInit, StatusIInv
<1>2. ASSUME StatusIInv, [StatusNext]_statusVars
      PROVE  /\ StatusIInv'
             /\ \A p \in ClusterPolicies : objects'[p] # objects[p] =>
                   \E c \in Callers :
                     LET s == objects'[p][Len(objects'[p])]
                     IN  HasLock(c) /\ s.recent[Len(s.recent)] = update[c].now
  <2>1. CASE \E c \in Callers : UpdateStatus(c) BY <1>2, <2>1, UpdateStatusKeeps, Zenon
  <2>2. CASE \E p \in ClusterPolicies : CopyPolicy(p)
    BY <1>2, <2>2, CopyPolicyKeeps, Zenon
  <2>3. ASSUME NEW c \in Callers,
               \/ \E violated \in SUBSET ClusterPolicies : UpdatePolicyStatuses(c, violated)
               \/ \E p \in ClusterPolicies : ComputeStatus(c, p)
               \/ RLock(c) \/ GetPolicy(c) \/ RUnlock(c)
        PROVE  StatusIInv' /\ objects' = objects
    <3>1. objects' = objects
      BY <2>3, Zenon DEF UpdatePolicyStatuses, ComputeStatus, RLock, GetPolicy, RUnlock
    <3>2. StatusIInv' BY <1>2, <2>3, CallerKeeps, Zenon
    <3> QED BY <3>1, <3>2
  <2>4. CASE UNCHANGED statusVars BY <1>2, <2>4 DEF statusVars, StatusIInv
  <2> QED BY <1>2, <2>1, <2>2, <2>3, <2>4, Zenon DEF StatusNext
<1>3. StatusIInv => \A p \in ClusterPolicies :
        NeverGoesBack(p) /\ \A i \in 1..Len(objects[p]) : Consistent(objects[p][i])
  BY Zenon DEF StatusIInv, History, NeverGoesBack, Good
<1> QED BY <1>1, <1>2, <1>3, PTL DEF StatusSpec, StatusIsRight, WrittenIsRecent
=============================================================================
