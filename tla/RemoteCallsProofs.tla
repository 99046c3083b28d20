-------------------------- MODULE RemoteCallsProofs --------------------------
(***************************************************************************)
(* Proofs about the protocol clients: that calls which share a connection  *)
(* leave it alone while others use it and forget it when nobody does, and  *)
(* that the MQTT client is a pool of counted connections, for any number   *)
(* of calls.                                                               *)
(***************************************************************************)
EXTENDS RemoteCalls, TLAPS

-----------------------------------------------------------------------------
(* The connection of the MQTT client.                                      *)

Using == {"connecting", "subscribe", "subscribing", "publish", "wait"}
Holding == {"connecting", "subscribing", "stopping", "disconnecting"}
Closing == {"stopping", "disconnecting"}

PcInv ==
  /\ binding \in {"mqtt", "zenoh", "direct"}
  /\ binding = "mqtt" => pc \in [Calls -> {"idle", "init", "leave", "done"} \cup Using \cup Closing]
  /\ binding = "zenoh" => pc \in [Calls -> {"idle", "init", "listen", "done"}]
  /\ binding = "direct" => pc \in [Calls -> {"idle"}]

(* Only the call that has the lock is at a place where it is held.         *)
LockHeld == \A c \in Calls : pc[c] \in Holding => lock = c

(* The counter counts the calls that have entered and not left, and a      *)
(* closing call has found it empty.                                        *)
RefsCounted ==
  /\ \A c \in Calls : pc[c] \in Using \cup {"leave"} => c \in refs
  /\ \A c \in Calls : pc[c] \in Closing => refs = {}
  /\ refs # {} => client # "none"

TopicsKept == \A c \in Calls : pc[c] \in {"subscribing", "publish", "wait"} => TopicOf(c) \in topics

Unstarted ==
  /\ phase \in [Calls -> {"new", "begun", "returned", "failed"}]
  /\ \A c \in Calls : phase[c] = "new" => pc[c] = "idle"

ConnInv == PcInv /\ Unstarted /\ LockHeld /\ RefsCounted /\ TopicsKept

(* At the beginning nobody uses a connection.                              *)
LEMMA ConnInit == Init => ConnInv
  BY CallsAssumption, ScenariosAssumption
     DEF Init, ThingInit, ConnInv, PcInv, Unstarted, LockHeld, RefsCounted, TopicsKept, Using,
         Holding, Closing, MqttInit, TableInit

(* Every step of the MQTT client keeps the lock with one holder and a      *)
(* reference for each call.                                                *)
LEMMA ConnMqtt == ConnInv /\ Mqtt => ConnInv'
<1> SUFFICES ASSUME ConnInv, Mqtt PROVE ConnInv'
  OBVIOUS
<1> USE MqttClientAssumption
       DEF ConnInv, PcInv, Unstarted, LockHeld, RefsCounted, TopicsKept, Using, Holding, Closing,
           Goto, Raise, Start, Return, ReturnAtOnce, Fail, TakeAnswer, Serve, Handle, Answer,
           callerVars,
           outcomeVars, mqttVars, connVars, loopVars, brokerVars, tableVars
<1>0. binding = "mqtt" /\ binding' = binding /\ MqttNext
  BY DEF Mqtt
<1>1. ASSUME NEW c \in Calls, StartMqtt(c) PROVE ConnInv'
  BY <1>0, <1>1 DEF StartMqtt
<1>2. ASSUME NEW c \in Calls, AcquireInit(c) PROVE ConnInv'
  BY <1>0, <1>2 DEF AcquireInit
<1>3. ASSUME NEW c \in Calls, Connected(c) PROVE ConnInv'
  BY <1>0, <1>3 DEF Connected
<1>4. ASSUME NEW c \in Calls, ConnectFails(c) PROVE ConnInv'
  BY <1>0, <1>4 DEF ConnectFails
<1>5. ASSUME NEW c \in Calls, AcquireSubscribe(c) PROVE ConnInv'
  BY <1>0, <1>5 DEF AcquireSubscribe
<1>6. ASSUME NEW c \in Calls, Subscribed(c) PROVE ConnInv'
  BY <1>0, <1>6 DEF Subscribed
<1>7. ASSUME NEW c \in Calls, SubscribeFails(c) PROVE ConnInv'
  BY <1>0, <1>7 DEF SubscribeFails, Raises
<1>8. ASSUME NEW c \in Calls, Published(c) PROVE ConnInv'
  BY <1>0, <1>8 DEF Published
<1>9. ASSUME NEW c \in Calls, PublishFails(c) PROVE ConnInv'
  BY <1>0, <1>9 DEF PublishFails, Raises
<1>10. ASSUME NEW c \in Calls, Take(c) \/ TimeOut(c) PROVE ConnInv'
  BY <1>0, <1>10 DEF Take, TimeOut
<1>11. ASSUME NEW c \in Calls, AcquireLeave(c) PROVE ConnInv'
  BY <1>0, <1>11 DEF AcquireLeave, HasAny
<1>12. ASSUME NEW c \in Calls, LoopStopped(c) \/ StopTimesOut(c) PROVE ConnInv'
  BY <1>0, <1>12 DEF LoopStopped, StopTimesOut
<1>13. ASSUME NEW c \in Calls, Disconnected(c) PROVE ConnInv'
  BY <1>0, <1>13 DEF Disconnected
<1>14. ASSUME NEW l \in Calls, LoopStep(l) PROVE ConnInv'
  BY <1>0, <1>14
     DEF LoopStep, DeliverTimesOut, DeliverMessage, DeliverFails, Reconnected, Resubscribed,
         ReconnectFails
<1>15. ASSUME NEW c \in Calls, HandleMqtt(c) PROVE ConnInv'
  BY <1>0, <1>15 DEF HandleMqtt
<1>16. ASSUME ConnectionLost \/ Lost PROVE ConnInv'
  BY <1>0, <1>16 DEF ConnectionLost, Lost
<1>17. ASSUME NEW op \in running, ServeMqtt(op) PROVE ConnInv'
  BY <1>0, <1>17 DEF ServeMqtt
<1> QED
  BY <1>0, <1>1, <1>2, <1>3, <1>4, <1>5, <1>6, <1>7, <1>8, <1>9, <1>10, <1>11, <1>12, <1>13, <1>14,
     <1>15, <1>16, <1>17
     DEF MqttNext, MqttCallStep

(* The Zenoh client touches neither the lock nor the references.           *)
LEMMA ConnZenoh == ConnInv /\ Zenoh => ConnInv'
<1> SUFFICES ASSUME ConnInv, Zenoh PROVE ConnInv'
  OBVIOUS
<1> USE DEF ConnInv, PcInv, Unstarted, LockHeld, RefsCounted, TopicsKept, Using, Holding, Closing,
           Move, Start, Return, ReturnAtOnce, Fail, TakeAnswer, Serve, Handle, Answer, callerVars,
           outcomeVars, mqttVars, connVars, loopVars, brokerVars, tableVars, zenohVars
<1>0. /\ binding = "zenoh" /\ binding' = binding /\ ZenohNext
      /\ refs' = refs /\ client' = client
  BY DEF Zenoh
<1>1. pc' \in [Calls -> {"idle", "init", "listen", "done"}]
  BY <1>0
     DEF ZenohNext, StartZenoh, ZenohCallStep, Request, OpenFails, TakeZenoh, GiveUp, End,
         HandleZenoh, ServeZenoh, Receive, Deliver, LostByRouter
<1>2. Unstarted'
  BY <1>0
     DEF ZenohNext, StartZenoh, ZenohCallStep, Request, OpenFails, TakeZenoh, GiveUp, End,
         HandleZenoh, ServeZenoh, Receive, Deliver, LostByRouter
<1> QED
  BY <1>0, <1>1, <1>2

(* Nor do the clients without connections, nor a step in which nothing     *)
(* happens.                                                                *)
LEMMA ConnOther == ConnInv /\ (Direct \/ Done \/ UNCHANGED vars) => ConnInv'
  BY DEF DirectNext, DirectCallStep, StartDirect, Send, SignFails, Respond, RequestFails,
         HandleDirect, ServeDirect, AttemptFails, Start, Return, Fail, Handle, Answer, callerVars,
         outcomeVars, ConnInv, PcInv, Unstarted, LockHeld, RefsCounted, TopicsKept, Using, Holding,
         Closing, Direct, Done, vars, mqttVars, connVars, loopVars, brokerVars, tableVars

-----------------------------------------------------------------------------
(* The loop of the MQTT client.                                            *)

(* There is one loop, and the stop event is its own.                       *)
OneLoop == \A l \in Calls : Alive(l) => l = stopEvent

LoopUntold == \A l \in Calls : Alive(l) /\ l \notin told => client \in {"up", "down"}

EventStays ==
  /\ client \in {"up", "down"} => stopEvent # Nobody \/ \E c \in Calls : pc[c] = "disconnecting"
  /\ \A c \in Calls : pc[c] = "connecting" => client = "new"
  /\ \A c \in Calls : pc[c] = "stopping" => stopEvent \in told \/ ~Alive(stopEvent)
  /\ \A c, l \in Calls : pc[c] = "disconnecting" /\ Alive(l) => l \in told

(* Nobody waits on a client that has not been connected.                   *)
NewIsIdle == client = "new" => \A c \in Calls : pc[c] \notin {"publish", "wait"}

Reconnecting == \A l \in Calls : loop[l] = "reconnect" /\ l \notin told => client = "down"

LoopInv ==
  /\ loop \in [Calls -> {"none", "deliver", "reconnect", "resubscribe", "ended"}]
  /\ ConnInv /\ OneLoop /\ LoopUntold /\ EventStays /\ NewIsIdle /\ Reconnecting /\ AnswersCanArrive

(* At the beginning there is no loop.                                      *)
LEMMA LoopInit == Init => LoopInv
  BY ConnInit, MqttClientAssumption
     DEF Init, LoopInv, OneLoop, LoopUntold, EventStays, NewIsIdle, Reconnecting, AnswersCanArrive,
         MqttInit, Alive

(* Every step of the MQTT client leaves at most one loop per connection    *)
(* that has not been told to stop.                                         *)
LEMMA LoopMqtt == LoopInv /\ Mqtt => LoopInv'
<1> SUFFICES ASSUME LoopInv, Mqtt PROVE LoopInv'
  OBVIOUS
<1>0. binding = "mqtt" /\ binding' = binding /\ MqttNext /\ ConnInv'
  BY ConnMqtt DEF Mqtt, LoopInv
<1> USE MqttClientAssumption, <1>0
       DEF LoopInv, OneLoop, LoopUntold, EventStays, NewIsIdle, Reconnecting, AnswersCanArrive,
           Alive, ConnInv, PcInv, Unstarted, LockHeld, RefsCounted, TopicsKept, Using, Holding,
           Closing, Goto, Raise, Start, Return, ReturnAtOnce, Fail, TakeAnswer, Serve, Handle,
           Answer,
           callerVars, outcomeVars, LoopTop, mqttVars, connVars, loopVars, brokerVars, tableVars
<1>1. ASSUME NEW c \in Calls, StartMqtt(c) PROVE LoopInv'
  BY <1>1 DEF StartMqtt
<1>2. ASSUME NEW c \in Calls, AcquireInit(c) PROVE LoopInv'
  BY <1>2 DEF AcquireInit
<1>3. ASSUME NEW c \in Calls, Connected(c) PROVE LoopInv'
  BY <1>3 DEF Connected
<1>4. ASSUME NEW c \in Calls, ConnectFails(c) PROVE LoopInv'
  BY <1>4 DEF ConnectFails
<1>5. ASSUME NEW c \in Calls, AcquireSubscribe(c) PROVE LoopInv'
  BY <1>5 DEF AcquireSubscribe
<1>6. ASSUME NEW c \in Calls, Subscribed(c) PROVE LoopInv'
  BY <1>6 DEF Subscribed
<1>7. ASSUME NEW c \in Calls, SubscribeFails(c) PROVE LoopInv'
  BY <1>7 DEF SubscribeFails, Raises
<1>8. ASSUME NEW c \in Calls, Published(c) PROVE LoopInv'
  BY <1>8 DEF Published
<1>9. ASSUME NEW c \in Calls, PublishFails(c) PROVE LoopInv'
  BY <1>9 DEF PublishFails, Raises
<1>10. ASSUME NEW c \in Calls, Take(c) \/ TimeOut(c) PROVE LoopInv'
  BY <1>10 DEF Take, TimeOut
<1>11. ASSUME NEW c \in Calls, AcquireLeave(c) PROVE LoopInv'
  BY <1>11 DEF AcquireLeave, HasAny, TellLoop
<1>12. ASSUME NEW c \in Calls, LoopStopped(c) \/ StopTimesOut(c) PROVE LoopInv'
  BY <1>12 DEF LoopStopped, StopTimesOut
<1>13. ASSUME NEW c \in Calls, Disconnected(c) PROVE LoopInv'
  BY <1>13 DEF Disconnected
<1>14. ASSUME NEW l \in Calls, DeliverTimesOut(l) \/ DeliverMessage(l) \/ DeliverFails(l) PROVE LoopInv'
  BY <1>14 DEF DeliverTimesOut, DeliverMessage, DeliverFails
<1>15. ASSUME NEW l \in Calls, Reconnected(l) PROVE LoopInv'
  BY <1>15 DEF Reconnected, Resubscribes
<1>16. ASSUME NEW l \in Calls, Resubscribed(l) \/ ReconnectFails(l) PROVE LoopInv'
  BY <1>16 DEF Resubscribed, ReconnectFails
<1>17. ASSUME NEW c \in Calls, HandleMqtt(c) PROVE LoopInv'
  BY <1>17 DEF HandleMqtt
<1>18. ASSUME ConnectionLost \/ Lost PROVE LoopInv'
  BY <1>18 DEF ConnectionLost, Lost
<1>19. ASSUME NEW op \in running, ServeMqtt(op) PROVE LoopInv'
  BY <1>19 DEF ServeMqtt
<1> QED
  BY <1>1, <1>2, <1>3, <1>4, <1>5, <1>6, <1>7, <1>8, <1>9, <1>10, <1>11, <1>12, <1>13, <1>14,
     <1>15, <1>16, <1>17, <1>18, <1>19
     DEF MqttNext, MqttCallStep, LoopStep

(* The other clients have no loops.                                        *)
LEMMA LoopOther == LoopInv /\ (Zenoh \/ Direct \/ Done \/ UNCHANGED vars) => LoopInv'
<1> SUFFICES ASSUME LoopInv, Zenoh \/ Direct \/ Done \/ UNCHANGED vars PROVE LoopInv'
  OBVIOUS
<1> USE DEF LoopInv, OneLoop, LoopUntold, EventStays, NewIsIdle, Reconnecting, AnswersCanArrive,
           Alive, mqttVars, connVars, loopVars, brokerVars, tableVars
<1>1. CASE Zenoh
  <2>1. ConnInv'
    BY <1>1, ConnZenoh
  <2>2. binding = "zenoh" /\ binding' = binding
    BY <1>1 DEF Zenoh
  <2>3. UNCHANGED mqttVars
    BY <1>1 DEF Zenoh
  <2> QED
    BY <2>1, <2>2, <2>3 DEF ConnInv, PcInv
<1>2. CASE Direct \/ Done \/ UNCHANGED vars
  <2>1. ConnInv'
    BY <1>2, ConnOther
  <2>2. UNCHANGED <<mqttVars, pc, topics>>
    BY <1>2 DEF Direct, Done, vars
  <2> QED
    BY <2>1, <2>2
<1> QED
  BY <1>1, <1>2

(* In every state the loops and the connections of the MQTT client fit     *)
(* together.                                                               *)
THEOREM LoopInvariance == Spec => []LoopInv
<1>1. LoopInv /\ [Next]_vars => LoopInv'
  BY LoopMqtt, LoopOther DEF Next
<1> QED
  BY LoopInit, <1>1, PTL DEF Spec

(* No call finds its connection closed, or the topic of its answer gone,   *)
(* because another has finished.                                           *)
THEOREM InUseIsOpenTheorem == Spec => []InUseIsOpen
<1>1. LoopInv => InUseIsOpen
  BY DEF LoopInv, ConnInv, RefsCounted, TopicsKept, Using, InUseIsOpen
<1> QED
  BY LoopInvariance, <1>1, PTL

(* A connected client is served by the loop that can be told to stop.      *)
THEOREM LoopServesClientTheorem == Spec => []LoopServesClient
<1>1. LoopInv => LoopServesClient
  BY DEF LoopInv, OneLoop, LoopUntold, EventStays, LoopServesClient
<1> QED
  BY LoopInvariance, <1>1, PTL

(* The loop of a connection that is up has the subscriptions of all calls  *)
(* that wait.                                                              *)
THEOREM AnswersCanArriveTheorem == Spec => []AnswersCanArrive
<1>1. LoopInv => AnswersCanArrive
  BY DEF LoopInv
<1> QED
  BY LoopInvariance, <1>1, PTL

-----------------------------------------------------------------------------
(* What follows for the connection of the MQTT client.                     *)

(* ConnPool with the broker as its one connection, which is up as long as  *)
(* it is not being closed: a connection that is lost is one the loop is to *)
(* restore, and counts as held.                                            *)
Broker == "broker"

ConnIsUp == client \in {"up", "down"} /\ \A c \in Calls : pc[c] \notin Closing

Pool ==
  INSTANCE ConnPool
    WITH Conns <- {Broker}, Users <- Calls,
         users <- [b \in {Broker} |-> refs],
         up <- {b \in {Broker} : ConnIsUp}

(* A call that closes the connection is alone.                             *)
LEMMA OneCloses ==
  ASSUME LoopInv, NEW c \in Calls, NEW d \in Calls, pc[c] \in Holding, pc[d] \in Holding
  PROVE  c = d
  BY DEF LoopInv, ConnInv, LockHeld

(* Counting a reference, connecting and leaving are the steps of ConnPool; *)
(* everything else leaves the pool as it is.                               *)
LEMMA PoolMqtt == LoopInv /\ Mqtt => [Pool!Next]_(Pool!vars)
<1> SUFFICES ASSUME LoopInv, Mqtt PROVE [Pool!Next]_(Pool!vars)
  OBVIOUS
<1>0. /\ MqttNext /\ LoopInv'
      /\ pc \in [Calls -> {"idle", "init", "leave", "done"} \cup Using \cup Closing]
      /\ pc' \in [Calls -> {"idle", "init", "leave", "done"} \cup Using \cup Closing]
  BY LoopMqtt DEF Mqtt, LoopInv, ConnInv, PcInv
<1>1. ASSUME NEW c \in Calls, AcquireInit(c) PROVE Pool!Enter(Broker, c)
  <2>1. refs' = refs \cup {c}
    BY <1>1 DEF AcquireInit
  <2>2. ConnIsUp' = ConnIsUp
    BY <1>0, <1>1 DEF AcquireInit, Goto, ConnIsUp, Using, Closing
  <2> QED
    BY <2>1, <2>2 DEF Pool!Enter, Pool!Increase
<1>2. ASSUME NEW c \in Calls, Connected(c) PROVE Pool!Open(Broker)
  <2>1. refs' = refs /\ c \in refs
    BY <1>2 DEF Connected, LoopInv, ConnInv, RefsCounted, Using
  <2>2. ConnIsUp'
    BY <1>0, <1>2, OneCloses DEF Connected, Raise, Goto, ConnIsUp, Using, Closing, Holding
  <2> QED
    BY <2>1, <2>2 DEF Pool!Open
<1>3. ASSUME NEW c \in Calls, AcquireLeave(c) PROVE Pool!Leave(Broker, c)
  <2>1. refs' = refs \ {c} /\ client' = client
    BY <1>3 DEF AcquireLeave
  <2>2. CASE HasAny(c)
    <3>1. refs' # {} /\ ConnIsUp' = ConnIsUp
      BY <1>0, <1>3, <2>1, <2>2 DEF AcquireLeave, HasAny, Goto, ConnIsUp, Using, Closing
    <3> QED
      BY <2>1, <3>1 DEF Pool!Leave, Pool!Decrease
  <2>3. CASE ~HasAny(c)
    <3>1. refs' = {} /\ ~ConnIsUp'
      BY <1>0, <1>3, <2>1, <2>3 DEF AcquireLeave, HasAny, Goto, ConnIsUp, Closing
    <3> QED
      BY <2>1, <3>1 DEF Pool!Leave, Pool!Decrease
  <2> QED
    BY <2>2, <2>3
<1>4. ASSUME NEW c \in Calls, Disconnected(c) PROVE UNCHANGED Pool!vars
  <2>1. refs' = refs /\ ~ConnIsUp /\ ~ConnIsUp'
    BY <1>4 DEF Disconnected, ConnIsUp, Closing
  <2> QED
    BY <2>1 DEF Pool!vars
<1>5. ASSUME NEW c \in Calls, LoopStopped(c) \/ StopTimesOut(c) PROVE UNCHANGED Pool!vars
  <2>1. refs' = refs /\ ~ConnIsUp /\ ~ConnIsUp'
    BY <1>0, <1>5 DEF LoopStopped, StopTimesOut, Goto, ConnIsUp, Closing, mqttVars, connVars
  <2> QED
    BY <2>1 DEF Pool!vars
<1>6. ASSUME NEW c \in Calls,
             \/ StartMqtt(c) \/ ConnectFails(c) \/ AcquireSubscribe(c) \/ Subscribed(c)
             \/ SubscribeFails(c) \/ Published(c) \/ PublishFails(c) \/ Take(c) \/ TimeOut(c)
      PROVE  UNCHANGED Pool!vars
  <2>1. /\ UNCHANGED <<refs, client>>
        /\ pc[c] \notin Closing
        /\ \E p \in {"init", "leave"} \cup Using : pc' = [pc EXCEPT ![c] = p]
    BY <1>0, <1>6
       DEF StartMqtt, Start, ConnectFails, AcquireSubscribe, Subscribed, SubscribeFails, Raises, Published,
           PublishFails, Take, TimeOut, Raise, Goto, mqttVars, connVars, Using, Closing, LoopInv,
           ConnInv, Unstarted
  <2>2. ConnIsUp' = ConnIsUp
    BY <1>0, <2>1 DEF ConnIsUp, Using, Closing
  <2> QED
    BY <2>1, <2>2 DEF Pool!vars
<1>7. CASE \/ \E c \in Calls : LoopStep(c) \/ HandleMqtt(c)
         \/ \E op \in running : ServeMqtt(op)
  <2>1. /\ UNCHANGED <<refs, pc>>
        /\ client' # client => client = "down" /\ client' = "up"
    <3>1. CASE \E l \in Calls : Reconnected(l)
      BY <3>1 DEF Reconnected
    <3>2. CASE ~\E l \in Calls : Reconnected(l)
      BY <1>7, <3>2
         DEF LoopStep, DeliverTimesOut, DeliverMessage, DeliverFails, Resubscribed, ReconnectFails,
             HandleMqtt, ServeMqtt, mqttVars, connVars
    <3> QED
      BY <3>1, <3>2
  <2>2. ConnIsUp' = ConnIsUp
    BY <2>1 DEF ConnIsUp
  <2> QED
    BY <2>1, <2>2 DEF Pool!vars
<1>8. CASE ConnectionLost \/ Lost
  <2>1. /\ UNCHANGED <<refs, pc>>
        /\ client' # client => client = "up" /\ client' = "down"
    BY <1>8 DEF ConnectionLost, Lost, mqttVars, connVars
  <2>2. ConnIsUp' = ConnIsUp
    BY <2>1 DEF ConnIsUp
  <2> QED
    BY <2>1, <2>2 DEF Pool!vars
<1> QED
  BY <1>0, <1>1, <1>2, <1>3, <1>4, <1>5, <1>6, <1>7, <1>8 DEF MqttNext, MqttCallStep, Pool!Next

(* The MQTT client uses its connection as ConnPool promises: brought up    *)
(* only for a call that is counted, kept as long as any is, and given up   *)
(* with the last (_init_client, _disconnect_client).                       *)
THEOREM MqttIsPool == Spec => Pool!Spec
<1>1. Init => Pool!Init
  BY DEF Init, MqttInit, Pool!Init, ConnIsUp
<1>2. LoopInv /\ [Next]_vars => [Pool!Next]_(Pool!vars)
  <2> SUFFICES ASSUME LoopInv, [Next]_vars PROVE [Pool!Next]_(Pool!vars)
    OBVIOUS
  <2>1. CASE Mqtt
    BY <2>1, PoolMqtt
  <2>2. CASE Zenoh
    <3>1. /\ UNCHANGED <<refs, client>> /\ LoopInv'
          /\ binding = "zenoh" /\ binding' = "zenoh"
      BY <2>2, LoopOther DEF Zenoh, mqttVars, connVars
    <3>2. \A c \in Calls : pc[c] \notin Closing /\ pc'[c] \notin Closing
      BY <3>1 DEF LoopInv, ConnInv, PcInv, Closing
    <3> QED
      BY <3>1, <3>2 DEF Pool!vars, ConnIsUp
  <2>3. CASE Direct \/ Done \/ UNCHANGED vars
    <3>1. UNCHANGED <<refs, client, pc>>
      BY <2>3 DEF Direct, Done, vars, mqttVars, connVars
    <3> QED
      BY <3>1 DEF Pool!vars, ConnIsUp
  <2> QED
    BY <2>1, <2>2, <2>3 DEF Next
<1> QED
  BY <1>1, <1>2, LoopInvariance, PTL DEF Spec, Pool!Spec

(* What is kept for the connection belongs to calls that are counted, or   *)
(* to the one that closes it.                                              *)
KeptForCalls ==
  /\ refs \subseteq {c \in Calls : pc[c] \in Using \cup {"leave"}}
  /\ client # "none" => refs # {} \/ \E c \in Calls : pc[c] \in Closing
  /\ client = "none" => messages = <<>> /\ topics = {} /\ subscribed = {}

(* If no loop outlasts the time it is given to stop, an event that is set  *)
(* is that of a live loop somebody waits for, and no event is left behind. *)
EventsAreLive ==
  ~StopMayTimeOut =>
    /\ \A l \in told : l = stopEvent /\ Alive(l) /\ \E c \in Calls : pc[c] = "stopping"
    /\ stopEvent # Nobody =>
         /\ stopEvent \in Calls /\ client \in {"up", "down"}
         /\ Alive(stopEvent) \/ \E c \in Calls : pc[c] = "stopping"
    /\ \A c \in Calls : pc[c] = "disconnecting" => stopEvent = Nobody

ClosedInv == binding = "mqtt" => KeptForCalls /\ EventsAreLive

(* A call that moves on stays counted.                                     *)
LEMMA CallMoves ==
  ASSUME LoopInv, KeptForCalls, binding = "mqtt",
         NEW c \in Calls, pc[c] \in Using, NEW p \in Using \cup {"leave"},
         pc' = [pc EXCEPT ![c] = p], refs' = refs, client' # "none"
  PROVE  KeptForCalls'
<1>1. pc \in [Calls -> {"idle", "init", "leave", "done"} \cup Using \cup Closing] /\ c \in refs
  BY DEF LoopInv, ConnInv, PcInv, RefsCounted
<1>2. \A d \in Calls : pc'[d] = IF d = c THEN p ELSE pc[d]
  BY <1>1
<1>3. \A d \in refs : d \in Calls /\ pc'[d] \in Using \cup {"leave"}
  BY <1>2 DEF KeptForCalls
<1> QED
  BY <1>1, <1>3 DEF KeptForCalls

(* Every step of the MQTT client keeps what it keeps for its calls.        *)
LEMMA KeptMqtt == LoopInv /\ KeptForCalls /\ Mqtt => KeptForCalls'
<1> SUFFICES ASSUME LoopInv, KeptForCalls, Mqtt PROVE KeptForCalls'
  OBVIOUS
<1>0. /\ binding = "mqtt" /\ MqttNext
      /\ pc \in [Calls -> {"idle", "init", "leave", "done"} \cup Using \cup Closing]
      /\ \A c \in Calls : pc[c] \in Using => client # "none"
  BY DEF Mqtt, LoopInv, ConnInv, PcInv, RefsCounted
<1>1. ASSUME NEW c \in Calls,
             \/ Connected(c) \/ ConnectFails(c) \/ AcquireSubscribe(c) \/ Subscribed(c)
             \/ SubscribeFails(c) \/ Published(c) \/ PublishFails(c) \/ Take(c) \/ TimeOut(c)
      PROVE  KeptForCalls'
  <2>1. /\ pc[c] \in Using /\ refs' = refs
        /\ \E p \in Using \cup {"leave"} : pc' = [pc EXCEPT ![c] = p]
    BY <1>1
       DEF Connected, ConnectFails, AcquireSubscribe, Subscribed, SubscribeFails, Raises, Published,
           PublishFails, Take, TimeOut, Raise, Goto, mqttVars, connVars, Using
  <2>2. client' \in {client, "up"}
    BY <1>1
       DEF Connected, ConnectFails, AcquireSubscribe, Subscribed, SubscribeFails, Raises, Published,
           PublishFails, Take, TimeOut, mqttVars, connVars
  <2> QED
    BY <1>0, <2>1, <2>2, CallMoves
<1>2. ASSUME NEW c \in Calls, StartMqtt(c) PROVE KeptForCalls'
  <2>1. pc[c] = "idle" /\ pc' = [pc EXCEPT ![c] = "init"] /\ UNCHANGED <<tableVars, mqttVars>>
    BY <1>2 DEF StartMqtt, Start, Goto, LoopInv, ConnInv, Unstarted
  <2> QED
    BY <1>0, <2>1 DEF KeptForCalls, Using, Closing, tableVars, mqttVars, connVars, brokerVars
<1>3. ASSUME NEW c \in Calls, AcquireInit(c) PROVE KeptForCalls'
  <2>1. /\ pc[c] = "init" /\ refs' = refs \cup {c} /\ client' # "none"
        /\ \E p \in Using : pc' = [pc EXCEPT ![c] = p]
    BY <1>3 DEF AcquireInit, Goto, Using
  <2> QED
    BY <1>0, <2>1 DEF KeptForCalls, Closing
<1>4. ASSUME NEW c \in Calls, AcquireLeave(c) PROVE KeptForCalls'
  <2>1. /\ pc[c] = "leave" /\ refs' = refs \ {c} /\ UNCHANGED <<client, tableVars, brokerVars>>
        /\ \/ pc' = [pc EXCEPT ![c] = "done"] /\ refs' # {}
           \/ \E p \in Closing : pc' = [pc EXCEPT ![c] = p]
    BY <1>4 DEF AcquireLeave, HasAny, Goto, Closing
  <2>2. refs' \subseteq {d \in Calls : pc'[d] \in Using \cup {"leave"}}
    BY <1>0, <2>1 DEF KeptForCalls
  <2>3. refs' # {} \/ \E d \in Calls : pc'[d] \in Closing
    BY <1>0, <2>1
  <2> QED
    BY <2>1, <2>2, <2>3 DEF KeptForCalls, tableVars, brokerVars
<1>5. ASSUME NEW c \in Calls, LoopStopped(c) \/ StopTimesOut(c) PROVE KeptForCalls'
  BY <1>0, <1>5
     DEF LoopStopped, StopTimesOut, Goto, KeptForCalls, Using, Closing, tableVars, mqttVars,
         connVars, brokerVars
<1>6. ASSUME NEW c \in Calls, Disconnected(c) PROVE KeptForCalls'
  BY <1>0, <1>6 DEF Disconnected, Goto, KeptForCalls, Using, Closing
<1>7. ASSUME NEW l \in Calls, LoopStep(l) PROVE KeptForCalls'
  BY <1>7
     DEF LoopStep, DeliverTimesOut, DeliverMessage, DeliverFails, Reconnected, Resubscribed,
         ReconnectFails, KeptForCalls, tableVars, mqttVars, connVars, brokerVars
<1>8. CASE (\E c \in Calls : HandleMqtt(c)) \/ (\E op \in running : ServeMqtt(op))
  BY <1>8 DEF HandleMqtt, ServeMqtt, KeptForCalls, tableVars, mqttVars, connVars, brokerVars
<1>9. CASE ConnectionLost \/ Lost
  BY <1>9 DEF ConnectionLost, Lost, KeptForCalls, tableVars, mqttVars, connVars, brokerVars
<1> QED
  BY <1>0, <1>1, <1>2, <1>3, <1>4, <1>5, <1>6, <1>7, <1>8, <1>9 DEF MqttNext, MqttCallStep

(* Every step of the MQTT client clears an event with its loop.            *)
LEMMA EventsMqtt == LoopInv /\ EventsAreLive /\ Mqtt => EventsAreLive'
<1> SUFFICES ASSUME LoopInv, EventsAreLive, Mqtt PROVE EventsAreLive'
  OBVIOUS
<1>0. binding = "mqtt" /\ MqttNext
  BY DEF Mqtt
<1> USE MqttClientAssumption, <1>0
       DEF EventsAreLive, LoopInv, OneLoop, EventStays, Alive, ConnInv, PcInv, Unstarted, LockHeld,
           Holding, Closing, Using, Goto, Raise, Start, Serve, Handle, Answer, LoopTop, mqttVars,
           connVars,
           loopVars, brokerVars, tableVars
<1>1. ASSUME NEW c \in Calls, StartMqtt(c) PROVE EventsAreLive'
  BY <1>1 DEF StartMqtt
<1>2. ASSUME NEW c \in Calls, AcquireInit(c) PROVE EventsAreLive'
  BY <1>2 DEF AcquireInit
<1>3. ASSUME NEW c \in Calls, Connected(c) PROVE EventsAreLive'
  BY <1>3 DEF Connected
<1>4. ASSUME NEW c \in Calls, ConnectFails(c) PROVE EventsAreLive'
  BY <1>4 DEF ConnectFails
<1>5. ASSUME NEW c \in Calls, AcquireSubscribe(c) PROVE EventsAreLive'
  BY <1>5 DEF AcquireSubscribe
<1>6. ASSUME NEW c \in Calls, Subscribed(c) \/ SubscribeFails(c) PROVE EventsAreLive'
  BY <1>6 DEF Subscribed, SubscribeFails, Raises
<1>7. ASSUME NEW c \in Calls, Published(c) \/ PublishFails(c) PROVE EventsAreLive'
  BY <1>7 DEF Published, PublishFails, Raises
<1>8. ASSUME NEW c \in Calls, Take(c) \/ TimeOut(c) PROVE EventsAreLive'
  BY <1>8 DEF Take, TimeOut
<1>9. ASSUME NEW c \in Calls, AcquireLeave(c) PROVE EventsAreLive'
  BY <1>9 DEF AcquireLeave, HasAny, TellLoop
<1>10. ASSUME NEW c \in Calls, LoopStopped(c) PROVE EventsAreLive'
  BY <1>10 DEF LoopStopped
<1>11. ASSUME NEW c \in Calls, StopTimesOut(c) PROVE EventsAreLive'
  BY <1>11 DEF StopTimesOut
<1>12. ASSUME NEW c \in Calls, Disconnected(c) PROVE EventsAreLive'
  BY <1>12 DEF Disconnected
<1>13. ASSUME NEW l \in Calls, DeliverTimesOut(l) \/ DeliverFails(l) PROVE EventsAreLive'
  BY <1>13 DEF DeliverTimesOut, DeliverFails
<1>14. ASSUME NEW l \in Calls, DeliverMessage(l) PROVE EventsAreLive'
  BY <1>14 DEF DeliverMessage, NewMessage
<1>15. ASSUME NEW l \in Calls, Reconnected(l) PROVE EventsAreLive'
  BY <1>15 DEF Reconnected, Resubscribes
<1>16. ASSUME NEW l \in Calls, Resubscribed(l) \/ ReconnectFails(l) PROVE EventsAreLive'
  BY <1>16 DEF Resubscribed, ReconnectFails
<1>17. CASE (\E c \in Calls : HandleMqtt(c)) \/ (\E op \in running : ServeMqtt(op))
  BY <1>17 DEF HandleMqtt, ServeMqtt
<1>18. ASSUME ConnectionLost \/ Lost PROVE EventsAreLive'
  BY <1>18 DEF ConnectionLost, Lost
<1> QED
  BY <1>1, <1>2, <1>3, <1>4, <1>5, <1>6, <1>7, <1>8, <1>9, <1>10, <1>11, <1>12, <1>13, <1>14,
     <1>15, <1>16, <1>17, <1>18
     DEF MqttNext, MqttCallStep, LoopStep

(* Whenever the lock is free and no call is counted, the client has        *)
(* forgotten its connection and what arrived over it; and if no loop has   *)
(* outlasted the time it is given to stop, a client that is about to       *)
(* connect has neither a loop nor the event of one, so the assertion of    *)
(* _start_deliver_loop holds, and a stop awaits a loop that is alive.      *)
ClosedIsForgotten ==
  binding = "mqtt" =>
    /\ refs = {} /\ lock = Nobody => client = "none"
    /\ client = "none" => messages = <<>> /\ topics = {} /\ subscribed = {}
    /\ ~StopMayTimeOut =>
         /\ client \in {"none", "new"} => stopEvent = Nobody /\ \A l \in Calls : ~Alive(l)
         /\ \A c \in Calls : pc[c] = "stopping" /\ stopEvent \in told => Alive(stopEvent)

(* A client that no call uses has forgotten everything.                    *)
THEOREM ClosedIsForgottenTheorem == Spec => []ClosedIsForgotten
<1>1. Init => ClosedInv
  BY CallsAssumption
     DEF Init, MqttInit, TableInit, ClosedInv, KeptForCalls, EventsAreLive, Alive
<1>2. LoopInv /\ ClosedInv /\ [Next]_vars => ClosedInv'
  <2> SUFFICES ASSUME LoopInv, ClosedInv, [Next]_vars PROVE ClosedInv'
    OBVIOUS
  <2>1. CASE Mqtt
    BY <2>1, KeptMqtt, EventsMqtt DEF Mqtt, ClosedInv
  <2>2. CASE Zenoh \/ Direct
    BY <2>2 DEF Zenoh, Direct, ClosedInv
  <2>3. CASE Done \/ UNCHANGED vars
    BY <2>3
       DEF Done, vars, tableVars, mqttVars, connVars, loopVars, brokerVars, ClosedInv,
           KeptForCalls, EventsAreLive, Alive
  <2> QED
    BY <2>1, <2>2, <2>3 DEF Next
<1>3. LoopInv /\ ClosedInv => ClosedIsForgotten
  <2> SUFFICES ASSUME LoopInv, ClosedInv, binding = "mqtt" PROVE ClosedIsForgotten
    BY DEF ClosedIsForgotten
  <2>1. refs = {} /\ lock = Nobody => client = "none"
    BY MqttClientAssumption
       DEF ClosedInv, KeptForCalls, LoopInv, ConnInv, LockHeld, Holding, Closing
  <2> QED
    BY <2>1, MqttClientAssumption
       DEF ClosedIsForgotten, ClosedInv, KeptForCalls, EventsAreLive, LoopInv, OneLoop
<1> QED
  BY <1>1, <1>2, <1>3, LoopInvariance, PTL DEF Spec

-----------------------------------------------------------------------------
(* The session of the Zenoh client.                                        *)

OthersInv == ConnInv /\ OthersDoNotDisturb

(* A call over Zenoh takes down only its own topic, and the session only   *)
(* when it holds no topic any more.                                        *)
LEMMA OthersZenoh == OthersInv /\ Zenoh => OthersDoNotDisturb'
<1> SUFFICES ASSUME OthersInv, Zenoh PROVE OthersDoNotDisturb'
  OBVIOUS
<1>0. binding = "zenoh" /\ ZenohNext /\ pc \in [Calls -> {"idle", "init", "listen", "done"}]
  BY DEF OthersInv, ConnInv, PcInv, Zenoh
<1> USE <1>0 DEF OthersInv, OthersDoNotDisturb, Move, tableVars, zenohVars, Disconnect, WithTopic
<1>1. ASSUME NEW c \in Calls, StartZenoh(c) PROVE OthersDoNotDisturb'
  BY <1>1 DEF StartZenoh, Start, ConnInv, Unstarted
<1>2. ASSUME NEW c \in Calls, Request(c) PROVE OthersDoNotDisturb'
  <2>1. c \in Unawaited => TopicOf(c) = "ack"
    BY CallsAssumption DEF TopicOf
  <2> QED
    BY <1>2, <2>1 DEF Request
<1>3. ASSUME NEW c \in Calls, OpenFails(c) PROVE OthersDoNotDisturb'
  BY <1>3 DEF OpenFails
<1>4. ASSUME NEW c \in Calls, TakeZenoh(c) \/ GiveUp(c) PROVE OthersDoNotDisturb'
  BY <1>4 DEF TakeZenoh, GiveUp, End
<1>5. CASE (\E c \in Calls : HandleZenoh(c)) \/ (\E op \in running : ServeZenoh(op))
  BY <1>5 DEF HandleZenoh, ServeZenoh
<1>6. ASSUME Receive \/ Deliver \/ LostByRouter PROVE OthersDoNotDisturb'
  BY <1>6 DEF Receive, Deliver, LostByRouter
<1> QED
  BY <1>1, <1>2, <1>3, <1>4, <1>5, <1>6 DEF ZenohNext, ZenohCallStep

(* Calls over Zenoh disturb only calls of their own topic.                 *)
THEOREM OthersDoNotDisturbTheorem == Spec => []OthersDoNotDisturb
<1>1. Init => OthersInv
  BY ConnInit DEF Init, OthersInv, OthersDoNotDisturb
<1>2. OthersInv /\ [Next]_vars => OthersInv'
  <2> SUFFICES ASSUME OthersInv, [Next]_vars PROVE OthersInv'
    OBVIOUS
  <2>1. ConnInv'
    BY ConnMqtt, ConnZenoh, ConnOther DEF Next, OthersInv
  <2>2. CASE Zenoh
    BY <2>1, <2>2, OthersZenoh DEF OthersInv
  <2>3. CASE Mqtt
    <3>1. pc' \in [Calls -> {"idle", "init", "leave", "done"} \cup Using \cup Closing]
      BY <2>1, <2>3 DEF Mqtt, ConnInv, PcInv
    <3> QED
      BY <2>1, <3>1 DEF OthersInv, OthersDoNotDisturb, Using, Closing
  <2>4. CASE Direct \/ Done \/ UNCHANGED vars
    BY <2>1, <2>4 DEF OthersInv, OthersDoNotDisturb, Direct, Done, vars, tableVars, zenohVars
  <2> QED
    BY <2>2, <2>3, <2>4 DEF Next
<1> QED
  BY <1>1, <1>2, PTL DEF Spec, OthersInv

(* At most one call at a time is made on a topic.                          *)
OneAtATime ==
  \A c, d \in Calls :
    c # d /\ TopicOf(c) = TopicOf(d) => ~(pc[c] = "listen" /\ pc[d] \in {"init", "listen"})

ListensKnown == \A c \in Calls : pc[c] = "listen" => TopicOf(c) \in declared \cap topics

(* Only calls on the same topic take a call's topic away.                  *)
LEMMA ListensZenoh ==
  ConnInv /\ OneAtATime /\ ListensKnown /\ Zenoh => ListensKnown'
<1> SUFFICES ASSUME ConnInv, OneAtATime, ListensKnown, Zenoh PROVE ListensKnown'
  OBVIOUS
<1>0. binding = "zenoh" /\ ZenohNext /\ pc \in [Calls -> {"idle", "init", "listen", "done"}]
  BY DEF ConnInv, PcInv, Zenoh
<1> USE <1>0 DEF ListensKnown, Move, tableVars, zenohVars, Disconnect, WithTopic
<1>1. ASSUME NEW c \in Calls, StartZenoh(c) PROVE ListensKnown'
  BY <1>1 DEF StartZenoh, Start, ConnInv, Unstarted
<1>2. ASSUME NEW c \in Calls, Request(c) PROVE ListensKnown'
  <2>1. c \in Unawaited => TopicOf(c) = "ack"
    BY CallsAssumption DEF TopicOf
  <2> QED
    BY <1>2, <2>1 DEF Request, OneAtATime
<1>3. ASSUME NEW c \in Calls, OpenFails(c) PROVE ListensKnown'
  BY <1>3 DEF OpenFails
<1>4. ASSUME NEW c \in Calls, TakeZenoh(c) \/ GiveUp(c) PROVE ListensKnown'
  BY <1>4 DEF TakeZenoh, GiveUp, End, OneAtATime
<1>5. CASE (\E c \in Calls : HandleZenoh(c)) \/ (\E op \in running : ServeZenoh(op))
  BY <1>5 DEF HandleZenoh, ServeZenoh
<1>6. ASSUME Receive \/ Deliver \/ LostByRouter PROVE ListensKnown'
  BY <1>6 DEF Receive, Deliver, LostByRouter
<1> QED
  BY <1>1, <1>2, <1>3, <1>4, <1>5, <1>6 DEF ZenohNext, ZenohCallStep

(* The assertion of _wait_on_message that the router and the topic are     *)
(* known (wotpy/protocols/zenoh/client.py:259) holds for an application    *)
(* that makes one write, one read and one invocation at a time: calls that *)
(* overlap on a topic are all that can make it fail.                       *)
THEOREM WaitsOnKnownTopicTheorem == Spec /\ []OneAtATime => []WaitsOnKnownTopic
<1>1. Init => ConnInv /\ ListensKnown
  BY ConnInit DEF Init, ListensKnown
<1>2. ConnInv /\ [Next]_vars => ConnInv'
  BY ConnMqtt, ConnZenoh, ConnOther DEF Next
<1>3. ConnInv /\ OneAtATime /\ ListensKnown /\ [Next]_vars => ListensKnown'
  <2> SUFFICES ASSUME ConnInv, OneAtATime, ListensKnown, [Next]_vars PROVE ListensKnown'
    OBVIOUS
  <2>1. CASE Zenoh
    BY <2>1, ListensZenoh
  <2>2. CASE Mqtt
    <3>1. pc' \in [Calls -> {"idle", "init", "leave", "done"} \cup Using \cup Closing]
      BY <1>2, <2>2 DEF Next, Mqtt, ConnInv, PcInv
    <3> QED
      BY <3>1 DEF ListensKnown, Using, Closing
  <2>3. CASE Direct \/ Done \/ UNCHANGED vars
    BY <2>3 DEF ListensKnown, Direct, Done, vars, tableVars, zenohVars
  <2> QED
    BY <2>1, <2>2, <2>3 DEF Next
<1>4. ListensKnown => WaitsOnKnownTopic
  BY DEF ListensKnown, WaitsOnKnownTopic
<1> QED
  BY <1>1, <1>2, <1>3, <1>4, PTL DEF Spec
=============================================================================
