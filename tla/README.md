# A TLA+ development for WoTPy

WoTPy is an implementation of the W3C Web of Things in Python on one asyncio
event loop. A *servient* owns *exposed things*, attaches one *server* per
protocol (HTTP, WebSockets, CoAP, MQTT, Zenoh) to serve them, and one *client*
per protocol to consume remote things. This directory models the parts of it
whose correctness depends on the order of things: tasks that interleave at
their awaits, connections that are shared and lost, operations that stop half
way. `PROJECT.json` lists the runs, the theorems, the mutants, the hazards and,
for every definition, the lines it models. Paths below are relative to
`src/wotpy/`.

## Inventory

| Component | State | Operations | Interacts with | What makes it correct |
|---|---|---|---|---|
| Shared connections (`protocols/refs.py`) | reference ids per connection id | increase, decrease, has_any | used by the WebSockets and MQTT clients | a connection is up only while somebody holds a reference, and never goes down under a holder |
| WebSockets client (`protocols/ws/client.py`) | sockets, counter, one lock, stop events, message tables, conditions | invoke, write, read; receive loop; subscriptions | server by messages; its own loop by condition and stop event | one receive loop per URL; answers reach their call; nothing left over; calls with a timeout end |
| Servient (`wot/servient.py`, `start`/`stop` of `protocols/*/server.py`) | servers, running flag, lock; handle and socket of each server | start, shutdown, add and remove servers and clients | calls the servers one after another | is_running tells the truth; shutdown silences everything, whatever failed half way before |
| Things (`wot/servient.py`, `wot/exposed/thing_set.py`) | the servient's collection, one per server, enabled titles, forms | produce, expose, disable, destroy, refresh of forms | servient and each server, synchronously | servers serve exactly the enabled things; forms tell the truth; a thing that is removed is gone |
| MQTT runner (`protocols/mqtt/runner.py`) | client, buffer, handler queue, stop event, two locks | start, stop, connect; loops that deliver, handle, publish | broker; handler | order and uniqueness of messages; loops stop; nothing stays connected |
| MQTT client (`protocols/mqtt/client.py`) | clients, counter, lock, message queues with expiry, conditions | invoke, write, read, subscribe; delivery loop | broker | a call takes only its own answer; reconnection keeps the subscriptions |
| MQTT and Zenoh handlers (`protocols/*/handlers`) | subscriptions per interaction, outbound queue, refresh task | handle a message, refresh, init, teardown | runner by queue; exposed thing by calls and events | a write is acknowledged after it took effect; subscriptions follow the things |
| Zenoh runner and client | sessions, subscribers, conditions | as for MQTT, without a counter or a lock | callbacks from another thread | a call is not disturbed by the end of another |
| Exposed thing (`wot/exposed/thing.py`) | handlers, values, event stream | read, write, invoke, emit, observe; add and remove interactions | servers, handlers of the application | events follow the writes they report; handlers that suspend do no harm beyond their own answer |
| WebSockets handler (`protocols/ws/handler.py`) | subscriptions of a connection | requests, dispose, close | exposed thing, client | no subscription survives its connection |
| HTTP and CoAP bindings | long-polling and observation state | requests, observe | exposed thing | every emission is seen or documented as lost |
| Form selection (`protocols/utils.py`, clients, `Servient.select_client`) | none | pick a client, a form, an address | consumed things | the choice is usable and deterministic |
| Scripting API (`wot/wot.py`, `wot/consumed`) | token cache | produce, consume, fetch | servient | no call is left with a token known to be bad |
| Authentication (`credential.py` and `authenticator.py` of HTTP and CoAP) | tokens per address | sign, authenticate, forget a token | HTTP and CoAP clients and servers; holder of credentials | what is signed is admitted; a retry is signed anew |
| Dictionaries, validation, codecs, utilities | records and tables | pure functions | everything | not modelled: data without control |

The hard behaviours are listed one by one under "hazards" in `PROJECT.json`.

## Modules

```
   promise (abstract)        detailed modules                    composition, checked and proved by
   ------------------        ----------------                    ----------------------------------
   ConnPool           <----  WsClient                            WsClientProofs, MCWsClient
   ServientLifecycle  <----  Servient (+ ExposedThingSet)        ServientLifecycleProofs, ServientProofs,
                                                                 MCServient
                             MqttRunner                          MqttRunnerProofs, MCMqttRunner
   RequestResponse    <----  MqttClient, ZenohClient,            RemoteCalls: RemoteCallsProofs,
                             DirectClient                        PromiseProofs, MCRemoteCalls
                             (on RemoteThing, TopicClient, Calls)
   EventStream        <----  WsObservation, HttpObservation,     Observation: ObservationProofs,
                             CoapObservation, TopicObservation   MCObservation
                             (on ObservedThing)
                             Forms, Interactions                 Consumption: ConsumptionProofs,
                                                                 MCConsumption
```

An arrow says that the detailed modules implement the abstract one: a run checks
it, and a theorem proves it for every value of the constants. The `MC` modules
only give constants their values. Definitions introduced as "Mutant of" are
altered forms of the definition that follows them: each property of a passing
run fails when the original is replaced by its mutant.

A binding is modelled in the three compositions from three sides: what a call
may come to (`RemoteCalls`), what an observer gets to see (`Observation`), and
how a call finds its way by clients, forms and addresses (`Consumption`). In the
first two, one scenario of the run names the binding, and the state of the others
stays as it is, so that one promise is checked of all of them.

### ConnPool and WsClient

`ConnPool` is the promise: users enter and leave, a connection is opened only
for a user, and the last to leave takes it down in the same step.

`WsClient` models every invoke, write and read call as a request that moves
through `_init_conn`, `_send_message`, the wait on its condition and
`_stop_conn`; `pc` is the await it stands at. The tables of the client are the
variables (`_conns` with the state of its socket is `conn`, `_messages` is
`messageTables` with `messages`, and so on). Each receive loop is a process of
its own, named by the request that created its task. What the code does between
two awaits is one action: `Receive`, for example, stores the answer, notifies
its condition and tests the stop event. The refinement maps references to users
and sockets that have not been closed by this client to connections that are up.

Abstractions: message contents (an answer is the request it answers; a malformed
or unexpected message is like none); a request, its reference id and message id
are one element, as each is a fresh uuid. `read_message` takes from a queue into
which tornado puts None once, when the connection closes (`noneQueued`): a loop
that has taken it, slept, and reads again waits for ever (`Deaf`), and a
`_stop_conn` that sets the stop event after that polls it for ever with the lock
held (`Hung`); whether answers the peer had sent are read before the None is
open. Cancellation of a caller's task is not modelled. The step in which `wait_for`
starts the wait in a task of its own exists in Python 3.10 and 3.11, which
`pyproject.toml` allows.

### ServientLifecycle, ExposedThingSet and Servient

`ServientLifecycle` is `start`, `shutdown`, `add_server`, `remove_server` and
what the start and stop of each kind of server do to its handle and its socket.
The lock is `phase`. The loop over the dictionary of servers takes one step per
server, so everything that does not take the lock can happen between two; a
dictionary whose size changed ends the iteration with an error. Servers may be
added and removed at any of these awaits, and a start or a stop may fail at any
server: `last` says how the last call ended, or that servers were edited under
it (`disturbed`), and the properties say of which ends they speak. One constant
restricts how the servient is used, `RestartWhileUp` (start is called while an
attached server listens); it is FALSE in the runs. The order in which servers are
visited is left open. For MQTT and Zenoh "listening" means that the loops have
been started; what the loops then do is `MqttRunner`'s subject, including that
a stopped runner may reconnect.

`Servient` adds the things. None of its operations suspends, so each is one
step, but each visits the servers in turn and stops at the first that raises:
`Reached` is the set of servers that were visited. Titles and URL names are
kept apart; `UsedNames` are the names the application passes, `LateServers`
whether servers are attached while things are enabled. A thing's forms are
abstracted to the set of protocols they belong to. Every thing has an
interaction, each object is produced once, and titles do not change.

### MqttRunner

Each call of `start` spawns a *generation* of three loops. The loops share the
buffer, the handler's queue, the client and one stop event, and generations may
overlap: `stop` does not wait for the loops, and `start` sets and clears the stop
event without suspending, so that loops which have not looked at it in between go
on. The broker may refuse a connection, drop one at any time (`MaxLosses`), and
may or may not have received a publication that raised. `published` records what
each loop has published and leaves out repetitions in a row, which makes the
model finite without a bound on retries.

Abstractions: message contents; the handler's own work, which starts in a task
of its own when a message is handed over; a call pending on a client that is
replaced goes on with the new one; `start` and `stop` do not overlap each other,
as `MQTTServer` calls them under its lock.

### RequestResponse and RemoteCalls

`RequestResponse` is what a caller may rely on, whatever the protocol: a write
or an invocation is carried out at most once and has been when its call returns;
a read does not return a value older than what this client had acknowledged
before the read began. There is one exception, which the code makes: a handler of
the application that suspends may come to its end with a value after a newer
write was answered (`overtaken`), and over a broker everyone sees it, the read of
another call included. `mqtt/client.py:509-512` and `zenoh/client.py:380-382` warn
that a write does not wait for a handler that yields. Over HTTP and CoAP an answer goes to its
caller alone, and there is no exception (`DirectReadsTheorem`). A call may fail
at any time, and then nothing is said.

`RemoteThing` is the far end. The handlers of the property and of the action may
suspend: that one finds or sets the value (`Handle`) is one step, its return,
which gives the answer, another (`Answer`), and any number of other requests are
handled in between. It also records the history of the calls that the promise is
about.
`TopicClient` has what the MQTT and the Zenoh client have in common, a table of
messages that calls search for theirs: a write by its acknowledgement, an
invocation by its result, a read by the first update that arrived after it
asked. `MqttClient` is the counted connection under one lock, the delivery loop
with its stop event, reconnection and subscriptions, and the expiry of messages;
`pc` is the await a call stands at. `ZenohClient` has no count and no lock, and
samples that come from another thread. `DirectClient` is the HTTP and the CoAP
client, whose calls get a response of their own and of which one, the HTTP read
with an OIDC4VP credential (`Renewing`), asks twice, whether its request failed
or could not be signed. `Signed` are the calls that sign, `Timed` those that have
a time limit: over CoAP a call has none unless its caller gives one.

Assumed: a broker keeps the order of messages and delivers none twice; calls on
a connection that is lost raise. On a client that was left in the tables by a call
that failed to connect, a subscription may raise or wait for ever with the lock
held (`SubscribesInVain`). `StopMayTimeOut` lets `_stop_conn` give up
waiting for a loop, after which the code cannot use that broker again (its
assertion that there is no stop event fails), and the calls to it fail.

### EventStream and Observation

`EventStream` is what an observer may rely on: it is shown what happened, in
order, nothing from before it subscribed or after it left, never something older
than before, but for what was held back (`late`). It may miss something and see
something twice. Held back are, over a broker only, the update in the hand of a
publishing loop when another loop takes one or when it ends at a stop (`held`),
and the value that a read found and that was overwritten before its handler
returned (`stale`). Each binding adds what it owes beyond that: WebSockets skip nothing, a poll gets the first item
after it was subscribed, a CoAP observer gets the last one, MQTT and Zenoh publish
what was queued, and an acknowledgement comes after the update of its write.

`ObservedThing` is a thing with one event or one observable property; a write
stores its value, may suspend, and emits the change afterwards. `WsObservation`
has the handler with its tasks and the client with a connection per
subscription; `HttpObservation` the polls, which the server keeps when the client
gives them up; `CoapObservation` the notifications, which are rendered later than
they are triggered, after a read that may suspend; `TopicObservation` the handlers of
the brokers, which subscribe to everything their server has, refresh that now and
then, and answer reads with an update for everybody, fed by the runner's bounded
buffer. Each start of the runner has a publishing loop, which holds the message it
took while it publishes, fails, sleeps and tries again, and loses it if it meets
with a stop; a start that comes soon enough leaves the old loop working beside
the new one. Reads suspend before and after they find the value, any number of
them at a time.

Assumed: writes of one property do not overlap here (of two that do, the one stored
first may be emitted last, and no document promises otherwise; in `RemoteCalls`
they do overlap); `start` and `stop` of a topic runner are single steps, and `start`
is not repeated while it runs (`MqttRunner` takes them apart); messages of one
connection arrive in order. aiocoap renders the notifications of one observation
in one task, one after the other.

### Forms, Interactions and Consumption

`Forms` is data: the forms each server lists, the operation each client asks for,
and the routes of each server. An address is abstracted to its *area*, the part
that does not depend on names. `Interactions` is the part of an exposed thing
that decides what a name means: interactions are added and removed at any time,
and names are compared with their URL names. `Consumption` follows a call from
the description to the server: `select_client`, the form, signing and tokens, the
look-up by address, and the retry of an HTTP read with a new token. The retry
follows whatever failed, a request that was refused or a holder that gave no
token, and drops the token of the address, which may be one that another read has
just stored.

Assumed: one server per protocol, whose addresses are complete; descriptions
declare no forms of their own; tokens expire in the order in which they were
issued. The proxy in front of an HTTP server that checks tokens, and the holder
that issues them, are external.

## Runs

| Run | Question | Bounds |
|---|---|---|
| `ws_client` | Is a connection shared, closed and reopened correctly by concurrent calls, as `ConnPool` promises, and does a call with a timeout always return but for the one way to hang? | three calls on one URL, one of them without a timeout |
| `ws_client_notify` (violation) | Is a call always woken by its answer? | two calls on one URL |
| `ws_client_timeout` (violation) | Does a call that ran into its timeout return? | two calls on one URL, one with a timeout |
| `servient` | Do forms, is_running and shutdown stay right when operations, starts and stops stop half way and servers are edited at any time? | three servers, two of one protocol; two things whose titles share a URL name, named by either kind |
| `servient_removed` (violation) | Does removing a thing by either name stop serving it? | two servers, two things |
| `mqtt_runner` | Is every message in one place only, and published in order? | two overlapping generations, two messages each way, a buffer of one, one loss |
| `mqtt_runner_liveness` | Do loops end when told, and are messages published? | one generation, two messages each way, a buffer of one, one loss |
| `mqtt_runner_stopped` (violation) | Is a stopped runner disconnected? | one generation, one loss |
| `remote_calls` | Does every client keep the promise of `RequestResponse`, with what a call needs there while it waits, and does every call end that has a time limit? | scenarios of two to four calls out of two writes, two reads and an invocation; up to two failures over MQTT |
| `remote_calls_zenoh` (violation) | Does a Zenoh call find its topic known when it waits? | the same scenarios |
| `observation` | Do all bindings show the stream in order, with only the losses they admit, and leave no subscription behind? | one or two observers, two emissions, three polls, a buffer of one, two starts, two requests, one loss |
| `consumption` | Does a call reach the interaction and the verb that were meant, find a form if there is one, and retry with a new token? | three names, two with one URL name; two interactions; one or two calls; up to four edits; three tokens |

Why these bounds are enough: the interference in the client is between a call
that closes, one that uses and one that waits for the lock, hence three calls;
the proofs cover any number of calls and URLs. Replacing a server needs two of
one protocol, changing the size of the dictionary a second protocol, stopping
half way two attached servers. The order of messages needs two messages and a
place where one may be lost; a full buffer needs one place and two messages;
overlap needs two generations. A stale read needs a write and two reads, of which
one leaves its answer to the other; recovery of a connection needs a loss, one
call that closes and one that opens. Observers meet where one connection
disturbs the emission to another and where they share the last event, hence two;
a publishing loop works beside an older one with two starts;
coalescing and reordering need two emissions, and a poll that is given up and
overtaken needs three polls. A name can change its meaning with two interactions
and an edit between description and call; a token can be refused, dropped by
another call and renewed with two calls and three tokens. Within these scenarios
the mutant of every property is found out.

Bounds named in the modules: `Generations`, `MaxOutbound`, `MaxLosses`;
`Scenarios` with their `failures`, `losses`, `starts`, `requests` and `active`
calls or observers; `MaxVersion`, `MaxPolls`, `MaxStarts`; `MaxIds`, `MaxTokens`
and the edits of a scenario. Nothing else is capped. The proofs do not depend on
any of them. `mqtt_runner` uses the symmetry of inbound messages and of
generations, `servient` that of servers of one protocol. Deadlock is checked in
every run but `ws_client` and `ws_client_timeout`: `Done` and `Idle` mark the
states in which the system may rest, and `ToggleThing` of `Observation` is never
disabled. The WebSockets client stops for good when it has hung, which is the
subject of the second of the two, and when all its calls have returned.

`RunningMeansStarted` and `FormsMatchServers` speak of a servient whose servers
were left alone under its start and none of whose stops has raised since;
`ShutdownSilences` of a shutdown under which they were left alone. An edit under a
start is in the model, and the properties begin again with the next call: a server
that takes the place of another of its protocol while start awaits is reported as
started, as the running flag that `_stopped_servient_only` tests is set last. With
`RestartWhileUp` TRUE `ShutdownSilences` fails, as TLC shows within seconds: start
repeated on a listening HTTP or WebSockets server replaces the handle of its
socket before it fails on the port, and no shutdown closes that socket any more.
Overlapping generations of MQTT loops may also keep reconnecting each other
without ever publishing, which is why the liveness of the runner is checked for
one generation.

`TimedRequestsEnd` and `CallsEnd` name what they leave out. The first allows the
hang of finding 2 and says that there is no other. The second allows a
subscription on a client that never connected (`mqtt/client.py:262,320`), which
may wait for ever with the lock held, and a CoAP call without a timeout
(`coap/client.py:204,259,287`), and says that calls end in all other states.

### Fairness

`WsClient!FairSpec`: weak fairness of every request and every receive loop. The
event loop runs each task that can run, and sleeps and timeouts elapse; nothing
is assumed of the server or the network. Tasks that wait for the asyncio lock
are served in turn, which weak fairness of a request provides as soon as the
lock is not taken again and again without end: each request takes it twice.

`MqttRunner!FairSpec`: weak fairness of each loop; strong fairness of taking the
connection lock (asyncio locks queue their waiters), of a reconnection that
succeeds and of a publication that reaches the broker (a broker that is asked
again and again accepts in the end; a runner that never gets through cannot
publish). `start`, `stop` and losses may always fail to happen; a `stop` that
has begun goes on.

`RemoteCalls!FairSpec`: weak fairness of the steps of calls that are taken in time
together and of the delivery loops together, which is weaker than fairness of
each: some task that can run runs. It is enough since every such wait ends, by an answer or by its timeout, one
way or the other; a wait without a time limit is not assumed to end. Nothing is
assumed of the thing, the broker or the network.

`Observation!FairSpec`: weak fairness of the tasks of each observer's connection,
at the server and at the client (the read that renders a CoAP notification
returns), of each publishing loop, and of the refresh and the handlers of the
runner. A publication succeeds if it is repeated often enough; that it fails is
bounded. Writing, emitting, starting, stopping, leaving, losing and the reads that
answer a request are never required.

## What the violations show

1. `_send_message` registers the condition after awaiting the write, and
   `wait_for` may start the wait a step later: an answer read in between is
   stored and wakes nobody. A call without a timeout then never returns.
2. A WebSockets connection is lost, the receive loop takes its one None, sleeps
   and reads again, which does not return. The last call then runs into its
   timeout and leaves: `_stop_conn` sets the stop event and polls it for ever, with
   the lock of all URLs held, so that neither this call nor any other raises
   `ClientRequestTimeout`.
3. `remove_exposed_thing` looks its argument up among the enabled titles: with a
   URL name it does not disable the thing, and the servers keep it.
4. A delivery loop in its back-off reconnects after `stop` has returned.
5. A Zenoh call that ends undeclares the subscriber and the condition of its
   topic under another call, which then fails on the assertion that the topic is
   known. That it fails is within the promise of `RequestResponse`.

Noticed while reading, and not the subject of a run because no document promises
otherwise: writes over HTTP are not signed; the authenticator for tokens returns
nothing, so that tokens are admitted by a proxy only; a token that was refused is
forgotten by reads alone, not by invocations, long polls or the fetch of a
description; `emit_event` by a URL name is accepted and reaches
nobody, as observers compare names.

## Proofs

All theorems hold for any values of the constants that satisfy the named
assumptions of the modules.

* `WsClientProofs`: `Invariance` proves the inductive invariant `IInv`. The
  properties are not inductive by themselves: that a loop has a connection
  depends on who holds references (`RefsCounted`), that a closing call finds its
  connection closed and nobody else on it depends on the lock (`LockHeld`,
  `ConnOwned`), and that no loop is orphaned depends on the stop event existing
  as long as the connection (`EventFollowsConn`, `ReceiverOwned`). From it follow
  the type invariant, the four safety properties, and, step by step, that every
  behaviour is one of `ConnPool` (`Refinement`).
  `LockIsReleasedTheorem` delimits finding 2: as long as no loop has gone back to
  read a socket the peer has closed (`DeadIsNoticed`), the request that holds the
  lock of all URLs awaits a connect, or a receive loop that has answered or will
  look at its stop event. It needs that an event which is set has a loop to see it
  (`EventHasReceiver`) and that the None of a socket which `_stop_conn` closes is
  taken by a loop that then ends (`ClosedIsNoticed`).
  `ResponseNotifiesTheorem` delimits finding 1: when no response overtakes the
  end of its request's write or the start of its wait (`NotOvertaken`), every
  stored response has woken its request (`AnswersWritten`).
* `ServientLifecycleProofs`: `RunningInv` relates the servers still to be visited
  to those that listen, needs no restriction on the use of the servient, and gives
  `RunningMeansStartedTheorem`; `OrderlyInv` relates handles and sockets and gives
  `ShutdownSilencesTheorem`, for a start that is not repeated over listening
  servers (`Orderly`).
* `ServientProofs`: `ServientImplementsLifecycle` shows that adding the things
  leaves the life cycle as it is, so the theorems above hold of `Servient`.
  `TypeCorrect` and `FormsMatchServersTheorem` hold of every use, half-way stops
  and edits under a start included: from start's refresh on, forms are right
  (`FormsInv`), as the servers an operation reached rebuild exactly the forms
  that changed, each having a protocol of its own (`RegeneratedRight`).
  `ServesEnabledTheorem` is about a discipline (`ClearNames`: things are named by
  title, titles and URL names are not confused, servers are attached first): under
  it operations reach all servers or none, and every server serves exactly the
  enabled things. Half-way stops do not occur then, so no run is spent on it.
  `RemovedNotServedTheorem` delimits finding 3: under `ClearNames` no server
  keeps a thing that was removed.
* `MqttRunnerProofs`, for any number of overlapping generations:
  `InOnePlaceTheorem` and `TypeCorrect`, as a delivery loop takes a message only
  with empty hands (`EmptyHands`) and holds at most one (`OneInHand`), so that a
  put takes one place in the buffer (`BufferFits`) and what a loop drops it has
  passed on; an inbound message is lost only in the hand of a loop that ends.
  `NoneForgottenTheorem`: a message of the handler is in the queue, in the hand
  of a loop, or published, since a loop acknowledges only what it has published
  (`AckedIsSent`). `PublishedInOrderTheorem`,
  as outbound messages rise on their way: what a loop has published is not
  beyond its hand (`SentInOrder`), and hands are ahead of the queue
  (`HeldInOrder`, `QueuedInOrder`).
* `RemoteCallsProofs`: who holds the lock and who is counted (`ConnInv`) keeps
  the connection open under its users (`InUseIsOpenTheorem`); whose stop event
  the client keeps (`LoopInv`) shows that the loop that runs serves the client
  there is (`LoopServesClientTheorem`), and both that answers can arrive
  (`AnswersCanArriveTheorem`). `MqttIsPool`: with the abstract state read off the
  client, every step of the MQTT client is one of `ConnPool` or none, so the two
  clients that count references share one specification. `ClosedIsForgottenTheorem`: a
  client that no call uses has forgotten its messages, topics and subscriptions
  (`KeptForCalls`), and unless a loop outlasts the time it is given to stop,
  nothing is left of a loop when the next one starts, as
  `_start_deliver_loop` asserts, and a stop awaits a loop that is alive
  (`EventsAreLive`). `OthersDoNotDisturbTheorem` is an action property of the
  calls that end beside others, and `WaitsOnKnownTopicTheorem` delimits finding
  5: the assertion holds when calls on one topic do not overlap (`OneAtATime`).
* `PromiseProofs`: `KeepsPromiseTheorem`, every behaviour of `RemoteCalls` is one
  of `RequestResponse`. A request is sent and served once (`FlowInv`); every
  message on its way or in a table is one that an operation of the thing gave
  when its handler returned, and of the updates all but the overtaken ones are
  not older than the writes completed before them (`DataInv`), so that the first
  update after a read asked is overtaken or not older than what had been
  acknowledged. `PromisedTheorem` draws from it
  what an application sees, whatever the client: the property was changed as
  often as writes were carried out, each write giving it a number of its own
  (`WritesCounted`); what has returned was carried out; and a read returns a value
  between what was acknowledged when it began and the current one, or an overtaken
  one. `DirectReadsTheorem`: over HTTP and CoAP it is never overtaken.
* `ObservationProofs`: `ObservesStreamTheorem`, every behaviour of `Observation`
  is one of `EventStream`: along each path from the thing to an observer the
  numbers of the items rise, and lie between what the observer was shown and
  what was emitted (`DataInv` with one part per binding). Over topics an update may
  be out of turn only if it is held or stale: those that are not come in order in
  the queue, the hands of the loops and the inboxes (`InOrder`), and a loop that
  holds one is ahead of the queue (`AheadInv`). `NoSubscriptionLeft` and
  `LastIsOnItsWay` are part of that invariant, since it depends on them, and
  `PollGetsNext` follows from it. `UpdateBeforeAckTheorem` needs where the update
  of an acknowledgement is as long as it is not published: ahead of it in the
  queue, or in a hand (`AcksFollow`, `Settled`). `WsSkipsNothingTheorem`
  needs an invariant of its own (`WsComplete`): what is on its way to an observer
  is all items once it knows its id, and before that the id ahead of them, and
  with what was shown they are as many as were emitted since it subscribed.
  `OwedStaysTheorem` is the step behind `EmittedIsSeen` over MQTT and Zenoh: an
  update that was queued while an observer listens stays in the queue, in the hand
  of a loop or in the observer's inbox until it, or a newer one, is shown; it is
  given up by the observer that leaves, or by a loop that holds it and ends at a
  stop, as `mqtt/runner.py:226-247` has it.
* `ConsumptionProofs`: `ReachesWhatWasMeantTheorem` combines three facts: URL
  names are distinct at any time (`NamesDistinctTheorem`), an object keeps its
  name and kind for life (`Known`), and every request is routed as the verb that
  was meant (`RoutedAsMeant`, a case analysis over forms and routes).
  `RetryIsFreshTheorem` bounds every token in sight by the tokens issued, and that
  of the first attempt by those issued when it failed (`before`), refused or not
  signed;
  `SelectedCanDoTheorem` shows that the selected client has a form if any has,
  and that every server has one for each verb (`AllCanPick`).

Only model-checked: liveness (`TimedRequestsEnd`, `StoppedLoopsEnd`,
`QueuedIsPublished`, `CallsEnd`, `EmittedIsSeen`, `SubscriptionsFollow`), since
leads-to under fairness is beyond the prover. Every invariant and every action
property of the runs is proved; of liveness the proofs have what the fair
schedule starts from: who is awaited is alive (`LockIsReleased`,
`ClosedIsForgotten`), and what is owed is not dropped (`NoneForgotten`,
`OwedStays`). The theorems that delimit a finding are conditional on an
assumption about the environment (a schedule, a discipline of the caller), which
the program does not enforce: that is the finding.

## Not modelled

* Dictionaries, JSON schemas, `wot/validation.py` and codecs: data without
  control. What a definition of theirs decides (a slug, an operation of a form)
  appears as a constant or a table.
* The secrets themselves: comparing them, and the exchange with an OAuth2 or
  OIDC4VP server, is one outcome each. The token with which a description itself
  is fetched.
* In a servient: its clients and credentials, the URLs of its servers, things
  that are renamed, discovery, the rendering of the catalogue.
* Overlapping writes of an observed property, properties that are not writable, and
  the events of a changed description.
* The callback for errors of the handlers' subscriptions (`subs.py:104`): nothing in
  a stream of a thing raises it but a filter that fails.
* Over WebSockets, the parameters of requests and the wording of errors; the ping
  handlers of MQTT and Zenoh, which echo; secure variants of the schemes, which
  differ in the address only.
* Utilities, logging, examples, and the bytes of every protocol.

Two hazards have no property: a token with which a description was refused stays
in the cache, of which no document promises anything, and an error of a
subscription (`subs.py:104`) is outside the model. That a message in the hand of a
loop is lost when the loop is stopped is by design; `InOnePlace` and
`NoneForgotten` show that no other message is.
