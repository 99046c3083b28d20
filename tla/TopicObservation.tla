-------------------------- MODULE TopicObservation --------------------------
(***************************************************************************)
(* Observation over MQTT and Zenoh: the handlers of the servers            *)
(* (wotpy/protocols/mqtt/handlers and wotpy/protocols/zenoh/handlers, the  *)
(* same code), and the publishing loops of their runners                   *)
(* (wotpy/protocols/mqtt/runner.py and wotpy/protocols/zenoh/runner.py).   *)
(* The handler does not know who observes: it subscribes to every          *)
(* interaction of every thing of the server, looks for new ones now and    *)
(* then, and queues what is emitted for its runner to publish.  Requests   *)
(* to read and write the property arrive in the buffer of the runner, and  *)
(* are handled in tasks of their own; the answer to a read is an update    *)
(* for everybody.                                                          *)
(*                                                                         *)
(* A publishing loop holds a message until it is published, and looks at   *)
(* the stop event in between: a stop makes it drop what it holds, unless a *)
(* start has come first, whose loop then works beside it.                  *)
(*                                                                         *)
(* start is not repeated on a runner that runs (that would leave a task    *)
(* behind which refreshes the subscriptions for ever), and is one step; so *)
(* is stop, and the loop that takes requests ends with it.  MqttRunner     *)
(* takes them apart.  The handler of a read may suspend before and after   *)
(* it has found the value.                                                 *)
(* External: the broker passes messages to those who listen, in order.     *)
(***************************************************************************)
EXTENDS ObservedThing

CONSTANTS
  BufferSize,  \* messages_buffer_size
  MaxStarts,   \* bound: the starts of the runner
  MayDrop      \* the runner is Zenoh's, and gives up a sample that does not fit

ASSUME TopicObservationAssumption ==
  BufferSize \in Nat \ {0} /\ MaxStarts \in Nat /\ MayDrop \in BOOLEAN

VARIABLES
  starts,     \* bound: the starts still to come
  running,    \* between start and stop of the runner
  topicSub,   \* whether the handler is subscribed to the thing
  queue,      \* the queue of the handler
  loops,      \* _publish_queued_messages of each start, and what it holds
  held,       \* updates a loop held while another took one, or dropped
  published,  \* the number of the newest update published
  arrivals,   \* requests handed to the event loop, not yet in the buffer
  buffer,     \* _messages_buffer
  writing,    \* whether the write under way was requests on the topic
  reading,    \* the reads whose handler has not found the value
  found,      \* of each value, the reads that found it and have not returned
  stale,      \* updates queued by a read when they were no longer the value
  requests,   \* bound: the requests of clients still to come
  listening,  \* observers subscribed at the broker
  inbox       \* items on their way to each observer

runnerVars == <<starts, running, topicSub>>
requestVars == <<arrivals, buffer, writing, requests>>
readVars == <<reading, found, stale>>
loopVars == <<loops, held>>
brokerVars == <<published, listening, inbox>>
topicVars == <<runnerVars, queue, requestVars, readVars, loopVars, brokerVars>>

(* owed: the write of this ACK was emitted to the handler.                 *)
QueueItem == [topic : {"update"}, version : 0..MaxVersion]
               \cup [topic : {"ack"}, version : 0..MaxVersion, owed : BOOLEAN]

Loops == 1..MaxStarts
LoopState == [at : {"ended", "get"}] \cup [at : {"publish", "sleep"}, item : QueueItem]

TopicTypeOK ==
  /\ {running, topicSub, writing} \subseteq BOOLEAN
  /\ queue \in Seq(QueueItem) /\ loops \in [Loops -> LoopState]
  /\ held \cup stale \subseteq 0..MaxVersion
  /\ published \in 0..MaxVersion /\ requests \in Nat /\ starts \in 0..MaxStarts
  /\ reading \in Nat /\ found \in [0..MaxVersion -> Nat]
  /\ arrivals \in Seq({"read", "write"})
  /\ buffer \in Seq({"read", "write"}) /\ Len(buffer) <= BufferSize
  /\ listening \subseteq Observers /\ inbox \in [Observers -> Seq(0..MaxVersion)]

TopicInit ==
  /\ running = FALSE /\ topicSub = FALSE /\ queue = <<>> /\ published = 0
  /\ loops = [g \in Loops |-> [at |-> "ended"]] /\ held = {}
  /\ arrivals = <<>> /\ buffer = <<>> /\ writing = FALSE
  /\ reading = 0 /\ found = [v \in 0..MaxVersion |-> 0] /\ stale = {}
  /\ listening = {} /\ inbox = [o \in Observers |-> <<>>]

Update(v) == [topic |-> "update", version |-> v]
Ack(v) == [topic |-> "ack", version |-> v, owed |-> topicSub]

-----------------------------------------------------------------------------
(* The runner starts and stops the handler: init and teardown.             *)

(* Mutant of Refreshed: things that are gone are forgotten, not disposed.  *)
RefreshedNew == topicSub' = (topicSub \/ served)

Refreshed == topicSub' = served

TopicStart ==
  /\ ~running /\ running' = TRUE /\ Refreshed
  /\ starts > 0 /\ starts' = starts - 1 /\ loops' = [loops EXCEPT ![starts] = [at |-> "get"]]
  /\ UNCHANGED <<sourceVars, since, losses, observerVars, queue, requestVars, readVars, held,
                 brokerVars>>

(* refresh_subs.                                                           *)
Refresh ==
  /\ running /\ Refreshed
  /\ UNCHANGED <<sourceVars, since, losses, observerVars, starts, running, queue, requestVars,
                 readVars, loopVars, brokerVars>>

TopicStop ==
  /\ running /\ running' = FALSE /\ topicSub' = FALSE
  /\ UNCHANGED <<sourceVars, since, losses, observerVars, starts, queue, requestVars, readVars,
                 loopVars, brokerVars>>

-----------------------------------------------------------------------------
(* Requests.                                                               *)

TopicRequest ==
  /\ running /\ kind = "property" /\ requests > 0
  /\ requests' = requests - 1
  /\ \E r \in {"read", "write"} : arrivals' = Append(arrivals, r)
  /\ UNCHANGED <<sourceVars, since, losses, observerVars, runnerVars, queue, buffer, writing,
                 readVars, loopVars, brokerVars>>

(* Mutant of Fits: the buffer is not bounded.                              *)
AlwaysFits == TRUE

Fits == Len(buffer) < BufferSize

(* _deliver_messages; a sample may come when the runner has stopped.       *)
Buffered ==
  /\ arrivals # <<>> /\ arrivals' = Tail(arrivals)
  /\ IF Fits THEN buffer' = Append(buffer, Head(arrivals))
     ELSE MayDrop /\ UNCHANGED buffer
  /\ UNCHANGED <<sourceVars, since, losses, observerVars, runnerVars, queue, writing, requests,
                 readVars, loopVars, brokerVars>>

(* handle_message looks the thing up among those of the server.            *)
HandleRead ==
  /\ running /\ buffer # <<>> /\ Head(buffer) = "read" /\ buffer' = Tail(buffer)
  /\ reading' = IF served THEN reading + 1 ELSE reading
  /\ UNCHANGED <<sourceVars, since, losses, observerVars, runnerVars, queue, arrivals, writing,
                 requests, found, stale, loopVars, brokerVars>>

FindValue ==
  /\ reading > 0 /\ reading' = reading - 1
  /\ found' = [found EXCEPT ![version] = @ + 1]
  /\ UNCHANGED <<sourceVars, since, losses, observerVars, runnerVars, queue, requestVars, stale,
                 loopVars, brokerVars>>

(* The read returns to handle_message.                                     *)
AnswerRead(v) ==
  /\ found[v] > 0 /\ found' = [found EXCEPT ![v] = @ - 1]
  /\ queue' = Append(queue, Update(v))
  /\ stale' = IF v < version THEN stale \cup {v} ELSE stale
  /\ UNCHANGED <<sourceVars, since, losses, observerVars, runnerVars, requestVars, reading,
                 loopVars, brokerVars>>

HandleWrite ==
  /\ running /\ buffer # <<>> /\ Head(buffer) = "write" /\ buffer' = Tail(buffer)
  /\ IF served THEN Store /\ writing' = TRUE
     ELSE UNCHANGED <<version, writing>>
  /\ UNCHANGED <<active, kind, served, emitted, since, losses, observerVars, runnerVars, queue,
                 arrivals, requests, readVars, loopVars, brokerVars>>

(* Mutant of Queued: the ACK goes out before the change is emitted.        *)
AckFirst(updates, acks) == queue \o acks \o updates

Queued(updates, acks) == queue \o updates \o acks

(* The change event reaches on_next, and then the write returns to         *)
(* handle_message, which publishes the ACK.                                *)
TopicEmission ==
  /\ Emission
  /\ queue' = Queued(IF topicSub THEN <<Update(emitted')>> ELSE <<>>,
                     IF writing THEN <<Ack(emitted')>> ELSE <<>>)
  /\ writing' = FALSE
  /\ UNCHANGED <<since, losses, observerVars, runnerVars, arrivals, buffer, requests, readVars,
                 loopVars, brokerVars>>

-----------------------------------------------------------------------------
(* Publication: the loop waits at the queue, publishes what it got, and    *)
(* sleeps before it tries again.                                           *)

Holders == {g \in Loops : loops[g].at \in {"publish", "sleep"}}

Holds(m) == \E g \in Holders : loops[g].item = m

UpdatesHeld(by) == {v \in 0..MaxVersion : \E g \in by : loops[g].item = Update(v)}

Take(g) ==
  /\ loops[g].at = "get" /\ queue # <<>> /\ queue' = Tail(queue)
  /\ loops' = [loops EXCEPT ![g] = [at |-> "publish", item |-> Head(queue)]]
  /\ held' = held \cup UpdatesHeld(Holders)
  /\ UNCHANGED <<sourceVars, since, losses, observerVars, runnerVars, requestVars, readVars,
                 brokerVars>>

Sent(m) ==
  IF m.topic # "update" THEN UNCHANGED <<published, inbox>>
  ELSE /\ published' = IF published < m.version THEN m.version ELSE published
       /\ inbox' = [o \in Observers |-> IF o \in listening THEN Append(inbox[o], m.version)
                                        ELSE inbox[o]]

Publish(g) ==
  /\ loops[g].at = "publish" /\ Sent(loops[g].item)
  /\ loops' = [loops EXCEPT ![g] = [at |-> IF running THEN "get" ELSE "ended"]]
  /\ UNCHANGED <<sourceVars, since, losses, observerVars, runnerVars, queue, requestVars, readVars,
                 held, listening>>

(* Mutant of Kept: the message is forgotten before it is published.        *)
Forgotten(m) == [at |-> "get"]

Kept(m) == [at |-> "sleep", item |-> m]

(* The connection fails, before or after the broker has the message; a     *)
(* runner that has stopped has none.                                       *)
PublishFails(g) ==
  /\ loops[g].at = "publish" /\ loops' = [loops EXCEPT ![g] = Kept(loops[g].item)]
  /\ \/ losses > 0 /\ losses' = losses - 1 /\ Sent(loops[g].item)
     \/ losses > 0 /\ losses' = losses - 1 /\ UNCHANGED <<published, inbox>>
     \/ ~running /\ UNCHANGED <<losses, published, inbox>>
  /\ UNCHANGED <<sourceVars, since, observerVars, runnerVars, queue, requestVars, readVars, held,
                 listening>>

(* The loop looks at the stop event.                                       *)
TryAgain(g) ==
  /\ loops[g].at = "sleep" /\ running
  /\ loops' = [loops EXCEPT ![g].at = "publish"]
  /\ UNCHANGED <<sourceVars, since, losses, observerVars, runnerVars, queue, requestVars, readVars,
                 held, brokerVars>>

LoopEnds(g) ==
  /\ loops[g].at \in {"get", "sleep"} /\ ~running
  /\ loops' = [loops EXCEPT ![g] = [at |-> "ended"]]
  /\ held' = held \cup UpdatesHeld(Holders \cap {g})
  /\ UNCHANGED <<sourceVars, since, losses, observerVars, runnerVars, queue, requestVars, readVars,
                 brokerVars>>

LoopTask(g) == Take(g) \/ Publish(g) \/ TryAgain(g) \/ LoopEnds(g)

-----------------------------------------------------------------------------
(* The observers.                                                          *)

TopicSubscribe(o) ==
  /\ Observe(o)
  /\ UNCHANGED <<sourceVars, since, losses, topicVars>>

Listens(o) ==
  /\ status[o] = "on" /\ o \notin listening
  /\ listening' = listening \cup {o}
  /\ UNCHANGED <<sourceVars, since, losses, observerVars, runnerVars, queue, requestVars, readVars,
                 loopVars, published, inbox>>

TopicRead(o) ==
  /\ status[o] = "on" /\ inbox[o] # <<>>
  /\ inbox' = [inbox EXCEPT ![o] = Tail(@)]
  /\ Show(o, Head(inbox[o]))
  /\ UNCHANGED <<sourceVars, since, losses, runnerVars, queue, requestVars, readVars, loopVars,
                 published, listening>>

(* unsubscribe, or an error of the client's callback.                      *)
TopicUnsubscribe(o) ==
  /\ Leave(o)
  /\ listening' = listening \ {o} /\ inbox' = [inbox EXCEPT ![o] = <<>>]
  /\ UNCHANGED <<sourceVars, since, losses, runnerVars, queue, requestVars, readVars, loopVars,
                 published>>

TopicServerTask ==
  \/ Refresh \/ Buffered \/ HandleRead \/ FindValue \/ HandleWrite
  \/ \E v \in 0..MaxVersion : AnswerRead(v)
  \/ \E g \in Loops : LoopTask(g) \/ PublishFails(g)

TopicClientTask(o) == Listens(o) \/ TopicRead(o)

(* No write is acknowledged before the update with its value is published, *)
(* as RemoteThing takes for granted, unless the update is held by a loop   *)
(* that has met with a stop: by one that another loop works beside, or by  *)
(* one that ended with it.                                                 *)
UpdateBeforeAck ==
  \A g \in Holders :
    LET m == loops[g].item
    IN  m.topic = "ack" /\ m.owed => published >= m.version \/ m.version \in held
=============================================================================
