----------------------------- MODULE MqttRunner -----------------------------
(***************************************************************************)
(* The loops that connect one handler of the MQTT server to the broker     *)
(* (wotpy/protocols/mqtt/runner.py).                                       *)
(*                                                                         *)
(* start() connects and spawns a generation of three loops, which deliver  *)
(* messages from the broker into a bounded buffer, hand buffered messages  *)
(* to the handler, and publish what the handler has queued.  The loops     *)
(* test one stop event at the top of each iteration; stop() sets it and    *)
(* disconnects without waiting for them, and the start() that follows      *)
(* clears it.  start and stop calls do not overlap: MQTTServer makes them  *)
(* under its lock.  The delivery loop reconnects when the connection       *)
(* fails, under the lock start and stop connect and disconnect with.       *)
(*                                                                         *)
(* Inbound messages are told apart; outbound ones are numbered in the      *)
(* order the handler queues them.  External: the broker may refuse a       *)
(* connection, the connection may be lost at any time, and then calls on   *)
(* the client raise; whether a publication that raised had reached the     *)
(* broker is open.  A call pending on a client that is being replaced is   *)
(* taken to go on with its successor.                                      *)
(***************************************************************************)
EXTENDS Naturals, FiniteSets, Sequences

CONSTANTS
  Inbound,      \* messages the broker holds for the topics of the handler
  MaxOutbound,  \* bound: the messages the handler queues
  BufferSize,   \* capacity of _messages_buffer
  Generations,  \* bound: the calls of start(), each naming the loops it spawns
  MaxLosses,    \* bound: the times the connection is lost
  Owner,        \* the start or stop call in progress, as holder of _lock_conn
  Nobody        \* no holder

ASSUME RunnerAssumption ==
  /\ MaxOutbound \in Nat /\ MaxLosses \in Nat
  /\ BufferSize \in Nat \ {0}
  /\ Owner \notin Generations /\ Nobody \notin Generations \cup {Owner}

VARIABLES
  control,        \* the start or stop call in progress, or the last one
  stopRequested,  \* _event_stop_request
  client,         \* _client
  lockConn,       \* the task that holds _lock_conn
  losses,         \* connections lost so far
  deliver,        \* the delivery loop of each generation
  carried,        \* the message each delivery loop has in hand (at most one)
  handle,         \* the handling loop of each generation
  publish,        \* the publishing loop of each generation
  inHand,         \* the message each publishing loop has in hand (at most one)
  broker,         \* inbound messages still at the broker
  buffer,         \* _messages_buffer
  handled,        \* messages given to the handler
  emitted,        \* outbound messages queued so far
  queue,          \* the queue of the handler
  published       \* what the broker has received from each publishing loop,
                  \* repetitions in a row left out

controlVars == <<control, stopRequested>>
connVars == <<client, lockConn, losses>>
deliverVars == <<deliver, carried, broker>>
handleVars == <<handle, handled>>
publishVars == <<publish, inHand, emitted, queue, published>>
vars == <<controlVars, connVars, deliverVars, buffer, handleVars, publishVars>>

Tasks == Generations \cup {Owner}

TypeOK ==
  /\ control \in {"stopped", "failed", "starting", "running", "stopping"}
  /\ stopRequested \in BOOLEAN
  /\ client \in {"none", "up", "down"}
  /\ lockConn \in Tasks \cup {Nobody}
  /\ losses \in 0..MaxLosses
  /\ deliver \in [Generations -> {"none", "deliver", "put", "backoff", "reconnect", "ended"}]
  /\ carried \in [Generations -> SUBSET Inbound]
  /\ handle \in [Generations -> {"none", "get", "ended"}]
  /\ publish \in [Generations -> {"none", "get", "publish", "acking", "backoff", "ended"}]
  /\ inHand \in [Generations -> SUBSET (1..MaxOutbound)]
  /\ broker \in SUBSET Inbound
  /\ buffer \in SUBSET Inbound /\ Cardinality(buffer) <= BufferSize
  /\ handled \in SUBSET Inbound
  /\ emitted \in 0..MaxOutbound
  /\ queue \in Seq(1..MaxOutbound)
  /\ published \in [Generations -> Seq(1..MaxOutbound)]

Init ==
  /\ control = "stopped" /\ stopRequested = FALSE
  /\ client = "none" /\ lockConn = Nobody /\ losses = 0
  /\ deliver = [g \in Generations |-> "none"]
  /\ carried = [g \in Generations |-> {}]
  /\ handle = [g \in Generations |-> "none"]
  /\ publish = [g \in Generations |-> "none"]
  /\ inHand = [g \in Generations |-> {}]
  /\ broker = Inbound /\ buffer = {} /\ handled = {}
  /\ emitted = 0 /\ queue = <<>>
  /\ published = [g \in Generations |-> <<>>]

Running(g) ==
  \/ deliver[g] \notin {"none", "ended"}
  \/ handle[g] = "get"
  \/ publish[g] \notin {"none", "ended"}

-----------------------------------------------------------------------------
(* connect(force_reconnect=True) and disconnect(), by task k.              *)

Connecting(k) ==
  IF k = Owner THEN control \in {"starting", "stopping"} ELSE deliver[k] = "reconnect"

AcquireConn(k) ==
  /\ Connecting(k)
  /\ lockConn = Nobody
  /\ lockConn' = k
  /\ UNCHANGED <<controlVars, client, losses, deliverVars, buffer, handleVars, publishVars>>

(* _disconnect.                                                            *)
DropClient(k) ==
  /\ lockConn = k
  /\ client # "none"
  /\ client' = "none"
  /\ UNCHANGED <<controlVars, lockConn, losses, deliverVars, buffer, handleVars, publishVars>>

(* _connect is reached with no client; up tells how it ended.              *)
EndConnect(k, up) ==
  /\ lockConn = k
  /\ client = "none"
  /\ client' = IF up THEN "up" ELSE "none"
  /\ lockConn' = Nobody
  /\ UNCHANGED losses

-----------------------------------------------------------------------------
(* start and stop.                                                         *)

(* The stop event is set and cleared again without a suspension in between *)
(* (_lock_run is free): no loop sees it.                                   *)
BeginStart ==
  /\ control \in {"stopped", "failed", "running"}
  /\ \E g \in Generations : deliver[g] = "none"
  /\ control' = "starting"
  /\ stopRequested' = FALSE
  /\ UNCHANGED <<connVars, deliverVars, buffer, handleVars, publishVars>>

(* Once connected, the loops are spawned.                                  *)
StartLoops(g) ==
  /\ control = "starting"
  /\ deliver[g] = "none"
  /\ EndConnect(Owner, TRUE)
  /\ control' = "running"
  /\ deliver' = [deliver EXCEPT ![g] = "deliver"]
  /\ handle' = [handle EXCEPT ![g] = "get"]
  /\ publish' = [publish EXCEPT ![g] = "get"]
  /\ UNCHANGED <<stopRequested, carried, broker, buffer, handled, inHand, emitted,
                 queue, published>>

StartFails ==
  /\ control = "starting"
  /\ EndConnect(Owner, FALSE)
  /\ control' = "failed"
  /\ UNCHANGED <<stopRequested, deliverVars, buffer, handleVars, publishVars>>

(* Mutant of RequestStop: the loops are not told.                          *)
RequestNothing == UNCHANGED stopRequested

RequestStop == stopRequested' = TRUE

BeginStop ==
  /\ control \in {"failed", "running"}
  /\ control' = "stopping"
  /\ RequestStop
  /\ UNCHANGED <<connVars, deliverVars, buffer, handleVars, publishVars>>

EndStop ==
  /\ control = "stopping"
  /\ EndConnect(Owner, FALSE)
  /\ control' = "stopped"
  /\ UNCHANGED <<stopRequested, deliverVars, buffer, handleVars, publishVars>>

-----------------------------------------------------------------------------
(* _deliver_messages of generation g.                                      *)

(* The top of the loop: a message in hand is put first.                    *)
DeliverTop(g, message) ==
  deliver' = [deliver EXCEPT ![g] =
    IF stopRequested THEN "ended" ELSE IF message = {} THEN "deliver" ELSE "put"]

DeliverMessage(g) ==
  /\ deliver[g] = "deliver"
  /\ client = "up"
  /\ \E m \in broker :
       /\ broker' = broker \ {m}
       /\ carried' = [carried EXCEPT ![g] = {m}]
  /\ deliver' = [deliver EXCEPT ![g] = "put"]
  /\ UNCHANGED <<controlVars, connVars, buffer, handleVars, publishVars>>

DeliverTimeout(g) ==
  /\ deliver[g] = "deliver"
  /\ client = "up"
  /\ DeliverTop(g, {})
  /\ UNCHANGED <<controlVars, connVars, carried, broker, buffer, handleVars, publishVars>>

(* With no client, or one that has lost its connection, the call raises.   *)
DeliverError(g) ==
  /\ deliver[g] = "deliver"
  /\ client # "up"
  /\ deliver' = [deliver EXCEPT ![g] = "backoff"]
  /\ UNCHANGED <<controlVars, connVars, carried, broker, buffer, handleVars, publishVars>>

(* The stop event is not tested between the sleep and the reconnection.    *)
DeliverRetries(g) ==
  /\ deliver[g] = "backoff"
  /\ deliver' = [deliver EXCEPT ![g] = "reconnect"]
  /\ UNCHANGED <<controlVars, connVars, carried, broker, buffer, handleVars, publishVars>>

Reconnected(g, up) ==
  /\ deliver[g] = "reconnect"
  /\ EndConnect(g, up)
  /\ DeliverTop(g, {})
  /\ UNCHANGED <<controlVars, carried, broker, buffer, handleVars, publishVars>>

(* Mutant of Full: the buffer is built without its maximum size.           *)
NeverFull == FALSE

Full == Cardinality(buffer) >= BufferSize

(* Mutant of AfterPut: the message stays in hand and is put again.         *)
AfterPutKept(g) == carried[g]

(* What is in hand once the message has been put.                          *)
AfterPut(g) == {}

Put(g) ==
  /\ deliver[g] = "put"
  /\ ~Full
  /\ buffer' = buffer \cup carried[g]
  /\ carried' = [carried EXCEPT ![g] = AfterPut(g)]
  /\ DeliverTop(g, AfterPut(g))
  /\ UNCHANGED <<controlVars, connVars, broker, handleVars, publishVars>>

(* The buffer has been full for the whole timeout.                         *)
PutTimeout(g) ==
  /\ deliver[g] = "put"
  /\ Full
  /\ DeliverTop(g, carried[g])
  /\ UNCHANGED <<controlVars, connVars, carried, broker, buffer, handleVars, publishVars>>

-----------------------------------------------------------------------------
(* _handle_messages of generation g.                                       *)

HandleTop(g) ==
  handle' = [handle EXCEPT ![g] = IF stopRequested THEN "ended" ELSE "get"]

(* The handler runs in a task of its own.                                  *)
Handle(g) ==
  /\ handle[g] = "get"
  /\ \E m \in buffer :
       /\ buffer' = buffer \ {m}
       /\ handled' = handled \cup {m}
  /\ HandleTop(g)
  /\ UNCHANGED <<controlVars, connVars, deliverVars, publishVars>>

HandleTimeout(g) ==
  /\ handle[g] = "get"
  /\ buffer = {}
  /\ HandleTop(g)
  /\ UNCHANGED <<controlVars, connVars, deliverVars, buffer, handled, publishVars>>

-----------------------------------------------------------------------------
(* _publish_queued_messages of generation g.                               *)

Emit ==
  /\ emitted < MaxOutbound
  /\ emitted' = emitted + 1
  /\ queue' = Append(queue, emitted')
  /\ UNCHANGED <<controlVars, connVars, deliverVars, buffer, handleVars, publish,
                 inHand, published>>

PublishTop(g, message) ==
  publish' = [publish EXCEPT ![g] =
    IF stopRequested THEN "ended" ELSE IF message = {} THEN "get" ELSE "publish"]

PublishGet(g) ==
  /\ publish[g] = "get"
  /\ queue # <<>>
  /\ queue' = Tail(queue)
  /\ inHand' = [inHand EXCEPT ![g] = {Head(queue)}]
  /\ publish' = [publish EXCEPT ![g] = "publish"]
  /\ UNCHANGED <<controlVars, connVars, deliverVars, buffer, handleVars, emitted, published>>

PublishTimeout(g) ==
  /\ publish[g] = "get"
  /\ queue = <<>>
  /\ PublishTop(g, {})
  /\ UNCHANGED <<controlVars, connVars, deliverVars, buffer, handleVars, inHand, emitted,
                 queue, published>>

(* A repetition right after the original is not recorded again.            *)
Received(messages, o) ==
  IF messages # <<>> /\ messages[Len(messages)] = o THEN messages ELSE Append(messages, o)

(* The message reaches the broker.                                         *)
PublishSent(g) ==
  /\ publish[g] = "publish"
  /\ client = "up"
  /\ \E o \in inHand[g] : published' = [published EXCEPT ![g] = Received(@, o)]
  /\ publish' = [publish EXCEPT ![g] = "acking"]
  /\ UNCHANGED <<controlVars, connVars, deliverVars, buffer, handleVars, inHand, emitted, queue>>

PublishDone(g) ==
  /\ publish[g] = "acking"
  /\ client = "up"
  /\ inHand' = [inHand EXCEPT ![g] = {}]
  /\ PublishTop(g, {})
  /\ UNCHANGED <<controlVars, connVars, deliverVars, buffer, handleVars, emitted, queue, published>>

(* The message stays in hand and is published again after a while.         *)
PublishFails(g) ==
  /\ publish[g] \in {"publish", "acking"}
  /\ client # "up"
  /\ publish' = [publish EXCEPT ![g] = "backoff"]
  /\ UNCHANGED <<controlVars, connVars, deliverVars, buffer, handleVars, inHand, emitted,
                 queue, published>>

(* Mutant of Retried: a message that could not be published goes back to   *)
(* the end of the queue.                                                   *)
Requeued(g) ==
  /\ \E o \in inHand[g] : queue' = Append(queue, o)
  /\ inHand' = [inHand EXCEPT ![g] = {}]
  /\ PublishTop(g, {})

(* Mutant of Retried: a message that could not be published is dropped.    *)
Dropped(g) ==
  /\ inHand' = [inHand EXCEPT ![g] = {}]
  /\ PublishTop(g, {})
  /\ UNCHANGED queue

(* The next iteration publishes the message in hand before taking another. *)
Retried(g) ==
  /\ PublishTop(g, inHand[g])
  /\ UNCHANGED <<inHand, queue>>

PublishBackoffEnds(g) ==
  /\ publish[g] = "backoff"
  /\ Retried(g)
  /\ UNCHANGED <<controlVars, connVars, deliverVars, buffer, handleVars, emitted, published>>

-----------------------------------------------------------------------------
LoseConnection ==
  /\ client = "up"
  /\ losses < MaxLosses
  /\ client' = "down"
  /\ losses' = losses + 1
  /\ UNCHANGED <<controlVars, lockConn, deliverVars, buffer, handleVars, publishVars>>

(* A runner that is stopped, its loops ended, may stay so for good.        *)
Idle ==
  /\ control = "stopped"
  /\ \A g \in Generations : ~Running(g)
  /\ UNCHANGED vars

DeliverLoop(g) ==
  \/ DeliverMessage(g) \/ DeliverTimeout(g) \/ DeliverError(g) \/ DeliverRetries(g)
  \/ Reconnected(g, TRUE) \/ Reconnected(g, FALSE)
  \/ Put(g) \/ PutTimeout(g)

HandleLoop(g) == Handle(g) \/ HandleTimeout(g)

PublishLoop(g) ==
  \/ PublishGet(g) \/ PublishTimeout(g) \/ PublishSent(g) \/ PublishDone(g)
  \/ PublishFails(g) \/ PublishBackoffEnds(g)

Conn(k) == AcquireConn(k) \/ DropClient(k)

Next ==
  \/ BeginStart \/ StartFails \/ BeginStop \/ EndStop
  \/ \E g \in Generations :
       StartLoops(g) \/ DeliverLoop(g) \/ HandleLoop(g) \/ PublishLoop(g)
  \/ \E k \in Tasks : Conn(k)
  \/ Emit
  \/ LoseConnection
  \/ Idle

Spec == Init /\ [][Next]_vars

(* Tasks run, sleeps and timeouts end, a start or stop in progress goes    *)
(* on, and a broker that is asked again and again accepts in the end.      *)
FairSpec ==
  /\ Spec
  /\ WF_vars(EndStop)
  /\ \A k \in Tasks : SF_vars(AcquireConn(k)) /\ WF_vars(DropClient(k))
  /\ \A g \in Generations :
       /\ WF_vars(DeliverLoop(g)) /\ SF_vars(Reconnected(g, TRUE))
       /\ WF_vars(HandleLoop(g))
       /\ WF_vars(PublishLoop(g)) /\ SF_vars(PublishSent(g))

-----------------------------------------------------------------------------
(* An inbound message is in one place at any time, at the broker, in the   *)
(* hand of one loop, in the buffer or with the handler, however many       *)
(* generations of loops share the buffer: no request is handled twice, and *)
(* none is lost but with the hand of a loop that ends.                     *)
InOnePlace ==
  /\ Inbound = broker \cup buffer \cup handled \cup UNION {carried[g] : g \in Generations}
  /\ broker \cap (buffer \cup handled) = {}
  /\ buffer \cap handled = {}
  /\ \A g \in Generations :
       /\ carried[g] \cap (broker \cup buffer \cup handled) = {}
       /\ \A h \in Generations : carried[g] \cap carried[h] # {} => g = h

(* Each publishing loop gives the broker its messages in the order the     *)
(* handler queued them, a repetition only right after the original, and no *)
(* two loops publish the same message, although publications fail, are     *)
(* retried and are cut short, and generations of loops overlap.            *)
PublishedInOrder ==
  \A g \in Generations : \A i \in 1..Len(published[g]) :
    /\ \A j \in 1..Len(published[g]) : i < j => published[g][i] < published[g][j]
    /\ \A h \in Generations : \A j \in 1..Len(published[h]) :
         published[g][i] = published[h][j] => g = h

(* stop() "stops listening for published messages" (runner.py:281): once   *)
(* it has returned, the runner holds no connection to the broker.          *)
StoppedIsDisconnected == control = "stopped" => client = "none"

(* Loops that have been told to stop do end, unless start comes first.     *)
StoppedLoopsEnd ==
  control = "stopped" ~> control # "stopped" \/ \A g \in Generations : ~Running(g)

(* A queued message is published as long as the runner keeps running,      *)
(* whatever happens to the connection.                                     *)
QueuedIsPublished ==
  \A o \in 1..MaxOutbound :
    control = "running" /\ (\E i \in 1..Len(queue) : queue[i] = o)
      ~> \/ control # "running"
         \/ \E g \in Generations : \E i \in 1..Len(published[g]) : published[g][i] = o
=============================================================================
