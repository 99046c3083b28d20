----------------------------- MODULE MqttClient -----------------------------
(***************************************************************************)
(* The MQTT client (wotpy/protocols/mqtt/client.py).  Calls share one      *)
(* connection, counted and opened and closed under one lock, and a loop    *)
(* that moves messages from the broker to the table and reconnects and     *)
(* resubscribes when the connection fails.  A call suspends while it       *)
(* waits for the lock, for the broker, and for a message.                  *)
(*                                                                         *)
(* The client object is in _clients from before it is connected ("new").   *)
(* A loop is named by the call that started it, and keeps the stop event   *)
(* it was given; the event in _deliver_stop_events may be another loop's.  *)
(* The wait for a message ends when its time is up as well as when it is   *)
(* notified, so a call may look at the table at any time.                  *)
(*                                                                         *)
(* External: the connection may be refused, and be lost at any time; the   *)
(* broker may then forget the subscriptions.  Any call on the client may   *)
(* raise, and raises on one that has lost its connection; one that never   *)
(* had any may make a subscription wait for ever.                          *)
(***************************************************************************)
EXTENDS TopicClient

CONSTANTS
  StopMayTimeOut,  \* whether a reconnection may outlast stop_loop_timeout_secs
  Nobody           \* no call

ASSUME MqttClientAssumption ==
  StopMayTimeOut \in BOOLEAN /\ Nobody \notin Calls

VARIABLES
  lock,        \* the call that holds _lock_client
  refs,        \* _ref_counter
  client,      \* the object in _clients
  stopEvent,   \* the loop whose event is in _deliver_stop_events
  told,        \* the loops whose stop event is set
  loop,        \* where the loop each call started is
  subscribed,  \* the topics the broker has subscriptions for
  failures     \* bound: the times the connection or the broker will still fail

connVars == <<lock, refs, client, stopEvent>>
loopVars == <<told, loop>>
brokerVars == <<subscribed, failures>>
mqttVars == <<connVars, loopVars, brokerVars>>

MqttTypeOK ==
  /\ ThingTypeOK
  /\ pc \in [Calls -> {"idle", "init", "connecting", "subscribe", "subscribing",
                       "publish", "wait", "leave", "stopping",
                       "disconnecting", "done"}]
  /\ stream \in Seq(Message) /\ messages \in Seq(Entry) /\ topics \subseteq Topics
  /\ lock \in Calls \cup {Nobody} /\ refs \subseteq Calls
  /\ client \in {"none", "new", "up", "down"}
  /\ stopEvent \in Calls \cup {Nobody} /\ told \subseteq Calls
  /\ loop \in [Calls -> {"none", "deliver", "reconnect", "resubscribe", "ended"}]
  /\ subscribed \subseteq Topics /\ failures \in Nat

MqttInit ==
  /\ lock = Nobody /\ refs = {} /\ client = "none" /\ stopEvent = Nobody
  /\ told = {} /\ loop = [c \in Calls |-> "none"]
  /\ subscribed = {}

Goto(c, place) == pc' = [pc EXCEPT ![c] = place]

Raise(c) == Fail(c) /\ Goto(c, "leave")

-----------------------------------------------------------------------------
(* The steps of a call.                                                    *)

StartMqtt(c) ==
  /\ Start(c)
  /\ Goto(c, "init")
  /\ UNCHANGED <<thingVars, stream, tableVars, mqttVars>>

(* _init_client: a broker in _clients is taken to be connected.            *)
AcquireInit(c) ==
  /\ pc[c] = "init" /\ lock = Nobody
  /\ refs' = refs \cup {c}
  /\ IF client # "none" THEN Goto(c, "subscribe") /\ UNCHANGED <<lock, client>>
     ELSE lock' = c /\ client' = "new" /\ Goto(c, "connecting")
  /\ UNCHANGED <<thingVars, callerVars, stream, tableVars, stopEvent, loopVars, brokerVars>>

(* _start_deliver_loop asserts that there is no stop event.                *)
Connected(c) ==
  /\ pc[c] = "connecting"
  /\ client' = "up" /\ lock' = Nobody
  /\ IF stopEvent = Nobody
     THEN /\ stopEvent' = c /\ loop' = [loop EXCEPT ![c] = "deliver"]
          /\ Goto(c, "subscribe") /\ UNCHANGED outcomeVars
     ELSE Raise(c) /\ UNCHANGED <<stopEvent, loop>>
  /\ UNCHANGED <<thingVars, floor, stream, tableVars, refs, told, brokerVars>>

ConnectFails(c) ==
  /\ pc[c] = "connecting" /\ failures > 0
  /\ lock' = Nobody /\ failures' = failures - 1
  /\ Raise(c)
  /\ UNCHANGED <<thingVars, floor, stream, tableVars, refs, client, stopEvent, loopVars,
                 subscribed>>

(* _subscribe and _publish return at once if the broker is unknown, which  *)
(* InUseIsOpen excludes.                                                   *)
AcquireSubscribe(c) ==
  /\ pc[c] = "subscribe" /\ lock = Nobody /\ client # "none"
  /\ lock' = c /\ topics' = topics \cup {TopicOf(c)}
  /\ Goto(c, "subscribing")
  /\ UNCHANGED <<thingVars, callerVars, stream, messages, refs, client, stopEvent, loopVars,
                 brokerVars>>

Subscribed(c) ==
  /\ pc[c] = "subscribing" /\ client = "up"
  /\ subscribed' = subscribed \cup {TopicOf(c)}
  /\ lock' = Nobody
  /\ Goto(c, "publish")
  /\ UNCHANGED <<thingVars, callerVars, stream, tableVars, refs, client, stopEvent, loopVars,
                 failures>>

(* _publish; the lock is held for one call of the broker.                  *)
Published(c) ==
  /\ pc[c] = "publish" /\ lock = Nobody /\ client = "up"
  /\ requests' = requests \cup {c}
  /\ IF c \in Unawaited THEN ReturnAtOnce(c) /\ Goto(c, "leave")
     ELSE Goto(c, "wait") /\ UNCHANGED outcomeVars
  /\ UNCHANGED <<active, version, served, written, answerVars, floor, stream, tableVars, mqttVars>>

(* A client that is not connected raises, or, which is a failure more, the *)
(* broker does.                                                            *)
Raises ==
  /\ client # "none"
  /\ IF client = "up" THEN failures > 0 /\ failures' = failures - 1 ELSE UNCHANGED failures

(* A publication that raised may have reached the thing all the same.      *)
PublishFails(c) ==
  /\ pc[c] = "publish" /\ lock = Nobody /\ Raises
  /\ requests' \in {requests, requests \cup {c}}
  /\ Raise(c)
  /\ UNCHANGED <<active, version, served, written, answerVars, floor, stream, tableVars, connVars,
                 loopVars, subscribed>>

(* On a client that never connected it may fail; nothing says that it will *)
(* (SubscribesInVain).                                                     *)
SubscribeFails(c) ==
  /\ pc[c] = "subscribing" /\ Raises
  /\ lock' = Nobody
  /\ Raise(c)
  /\ UNCHANGED <<thingVars, floor, stream, tableVars, refs, client, stopEvent, loopVars,
                 subscribed>>

Take(c) ==
  /\ pc[c] = "wait"
  /\ TakeAnswer(c)
  /\ Goto(c, "leave")
  /\ UNCHANGED <<thingVars, floor, stream, tableVars, mqttVars>>

(* Mutant of TimeOut: a call waits for its answer for ever.                *)
NoTimeOut(c) == FALSE

(* The time is tested before the table is searched.                        *)
TimeOut(c) ==
  /\ pc[c] = "wait"
  /\ Raise(c)
  /\ UNCHANGED <<thingVars, floor, stream, tableVars, mqttVars>>

(* Mutant of HasAny: the counter is ignored.                               *)
HasNone(c) == FALSE

HasAny(c) == refs \ {c} # {}

(* Mutant of TellLoop: the loop is not told.                               *)
TellNobody(l) == told' = told

TellLoop(l) == told' = told \cup {l}

(* _disconnect_client; _stop_deliver_loop asserts that there is an event   *)
(* and that it is not set, and what it raises is only logged.              *)
AcquireLeave(c) ==
  /\ pc[c] = "leave" /\ lock = Nobody
  /\ refs' = refs \ {c}
  /\ IF HasAny(c) THEN Goto(c, "done") /\ UNCHANGED <<lock, told>>
     ELSE /\ lock' = c
          /\ IF stopEvent \in told \cup {Nobody}
             THEN Goto(c, "disconnecting") /\ UNCHANGED told
             ELSE Goto(c, "stopping") /\ TellLoop(stopEvent)
  /\ UNCHANGED <<thingVars, callerVars, stream, tableVars, client, stopEvent, loop, brokerVars>>

LoopStopped(c) ==
  /\ pc[c] = "stopping" /\ stopEvent \notin told
  /\ stopEvent' = Nobody
  /\ Goto(c, "disconnecting")
  /\ UNCHANGED <<thingVars, callerVars, stream, tableVars, lock, refs, client, loopVars,
                 brokerVars>>

(* Only a loop that is reconnecting, or has ended, can take that long.     *)
StopTimesOut(c) ==
  /\ StopMayTimeOut
  /\ pc[c] = "stopping" /\ stopEvent \in told /\ loop[stopEvent] # "deliver"
  /\ Goto(c, "disconnecting")
  /\ UNCHANGED <<thingVars, callerVars, stream, tableVars, mqttVars>>

Disconnected(c) ==
  /\ pc[c] = "disconnecting"
  /\ client' = "none" /\ messages' = <<>> /\ topics' = {} /\ subscribed' = {}
  /\ lock' = Nobody
  /\ Goto(c, "done")
  /\ UNCHANGED <<thingVars, callerVars, stream, refs, stopEvent, loopVars, failures>>

-----------------------------------------------------------------------------
(* The delivery loop started by call l.                                    *)

(* The top of the loop; a loop that ends clears its event.                 *)
LoopTop(l) ==
  /\ loop' = [loop EXCEPT ![l] = IF l \in told THEN "ended" ELSE "deliver"]
  /\ told' = told \ {l}

DeliverTimesOut(l) ==
  /\ loop[l] = "deliver" /\ client = "up"
  /\ LoopTop(l)
  /\ UNCHANGED <<thingVars, callerVars, stream, tableVars, pc, connVars, brokerVars>>

Asking == {c \in Reads : pc[c] \in {"publish", "wait"}}

DeliverMessage(l) ==
  /\ loop[l] = "deliver" /\ client = "up"
  /\ stream # <<>> /\ Head(stream).topic \in subscribed
  /\ stream' = Tail(stream)
  /\ NewMessage(Head(stream), Asking)
  /\ LoopTop(l)
  /\ UNCHANGED <<thingVars, callerVars, topics, pc, connVars, brokerVars>>

DeliverFails(l) ==
  /\ loop[l] = "deliver" /\ client # "up"
  /\ loop' = [loop EXCEPT ![l] = "reconnect"]
  /\ UNCHANGED <<thingVars, callerVars, stream, tableVars, pc, connVars, told, brokerVars>>

(* Mutant of Resubscribes: the broker is trusted to remember.              *)
NeverResubscribes == FALSE

Resubscribes == topics # {}

(* _reconnect_client: nothing to subscribe again if no call has subscribed. *)
Reconnected(l) ==
  /\ loop[l] = "reconnect" /\ client = "down"
  /\ client' = "up"
  /\ IF Resubscribes THEN loop' = [loop EXCEPT ![l] = "resubscribe"] /\ UNCHANGED told
     ELSE LoopTop(l)
  /\ UNCHANGED <<thingVars, callerVars, stream, tableVars, pc, lock, refs, stopEvent, brokerVars>>

Resubscribed(l) ==
  /\ loop[l] = "resubscribe" /\ client = "up"
  /\ subscribed' = subscribed \cup topics
  /\ LoopTop(l)
  /\ UNCHANGED <<thingVars, callerVars, stream, tableVars, pc, connVars, failures>>

ReconnectFails(l) ==
  /\ \/ loop[l] = "reconnect"
     \/ loop[l] = "resubscribe" /\ client # "up"
  /\ LoopTop(l)
  /\ UNCHANGED <<thingVars, callerVars, stream, tableVars, pc, connVars, brokerVars>>

-----------------------------------------------------------------------------
(* The environment.                                                        *)

ConnectionLost ==
  /\ client = "up" /\ failures > 0
  /\ client' = "down" /\ failures' = failures - 1
  /\ subscribed' \in {{}, subscribed}
  /\ UNCHANGED <<thingVars, callerVars, stream, tableVars, pc, lock, refs, stopEvent, loopVars>>

(* A message is lost if nobody is connected or subscribes to its topic.    *)
Lost ==
  /\ stream # <<>> /\ (client = "up" => Head(stream).topic \notin subscribed)
  /\ stream' = Tail(stream)
  /\ UNCHANGED <<thingVars, callerVars, tableVars, pc, mqttVars>>

HandleMqtt(c) == Handle(c, 1) /\ UNCHANGED <<stream, tableVars, pc, mqttVars>>

ServeMqtt(op) == Serve(op) /\ UNCHANGED <<tableVars, pc, mqttVars>>

MqttCallStep(c) ==
  \/ AcquireInit(c) \/ Connected(c) \/ ConnectFails(c) \/ AcquireSubscribe(c)
  \/ Subscribed(c) \/ SubscribeFails(c) \/ Published(c) \/ PublishFails(c)
  \/ Take(c) \/ TimeOut(c) \/ AcquireLeave(c) \/ LoopStopped(c) \/ StopTimesOut(c)
  \/ Disconnected(c)

(* The client was left in _clients by a call that failed to connect, and   *)
(* the subscription waits for a connection, with the lock held.            *)
SubscribesInVain(c) == pc[c] = "subscribing" /\ client = "new"

(* The steps that are taken in time.                                       *)
MqttTask(c) == MqttCallStep(c) /\ ~SubscribesInVain(c)

LoopStep(l) ==
  \/ DeliverTimesOut(l) \/ DeliverMessage(l) \/ DeliverFails(l)
  \/ Reconnected(l) \/ Resubscribed(l) \/ ReconnectFails(l)

MqttNext ==
  \/ \E c \in Calls : StartMqtt(c) \/ MqttCallStep(c) \/ LoopStep(c) \/ HandleMqtt(c)
  \/ \E op \in running : ServeMqtt(op)
  \/ ConnectionLost \/ Lost

-----------------------------------------------------------------------------
(* Properties.                                                             *)

Alive(l) == loop[l] \in {"deliver", "reconnect", "resubscribe"}

(* No call finds its connection closed, or the topic of its answer gone,   *)
(* because another call has finished: the steps between _init_client and   *)
(* _disconnect_client count on it without testing it.                      *)
InUseIsOpen ==
  \A c \in Calls :
    /\ pc[c] \in {"connecting", "subscribe", "subscribing", "publish", "wait"}
         => c \in refs /\ client # "none"
    /\ pc[c] \in {"subscribing", "publish", "wait"} => TopicOf(c) \in topics

(* A client that is connected is served by one loop, the one that will be  *)
(* told to stop when it is closed; only a loop that outlived its time to   *)
(* stop leaves an event behind that stands in the way of the next.         *)
LoopServesClient ==
  /\ \A l \in Calls : Alive(l) /\ l \notin told => l = stopEvent /\ client \in {"up", "down"}
  /\ client \in {"up", "down"} =>
       \/ stopEvent # Nobody
       \/ \E c \in Calls : pc[c] = "disconnecting"

(* While the loop listens on a connection that is up, the broker has the   *)
(* subscription of every call that waits: reconnecting restores them all.  *)
AnswersCanArrive ==
  \A c, l \in Calls :
    /\ pc[c] \in {"publish", "wait"}
    /\ client = "up" /\ loop[l] = "deliver" /\ l \notin told
    => TopicOf(c) \in subscribed
=============================================================================
