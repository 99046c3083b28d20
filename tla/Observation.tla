---------------------------- MODULE Observation ----------------------------
(***************************************************************************)
(* The observers of a thing behind any one of the bindings: binding is the *)
(* protocol of the form they use.  However different the bindings are,     *)
(* each implements EventStream.                                            *)
(***************************************************************************)
EXTENDS WsObservation, HttpObservation, CoapObservation, TopicObservation, FiniteSets

CONSTANT Scenarios  \* bound: the binding, what is observed, and the faults

ASSUME ScenariosAssumption ==
  \A s \in Scenarios :
    /\ s.binding \in {"ws", "http", "coap", "topic"} /\ s.kind \in {"event", "property"}
    /\ s.active \subseteq Observers /\ s.losses \in Nat /\ s.starts \in 0..MaxStarts /\ s.requests \in Nat

VARIABLE binding

vars == <<binding, sourceVars, since, losses, observerVars, wsVars, httpVars, coapVars, topicVars>>

Init ==
  /\ \E s \in Scenarios :
       /\ binding = s.binding /\ kind = s.kind /\ active = s.active
       /\ losses = s.losses /\ starts = s.starts /\ requests = s.requests
  /\ SourceInit /\ WsInit /\ HttpInit /\ CoapInit /\ TopicInit

WsOnly == binding = "ws" /\ UNCHANGED <<binding, httpVars, coapVars, topicVars>>
HttpOnly == binding = "http" /\ UNCHANGED <<binding, wsVars, coapVars, topicVars>>
CoapOnly == binding = "coap" /\ UNCHANGED <<binding, wsVars, httpVars, topicVars>>
TopicOnly == binding = "topic" /\ UNCHANGED <<binding, wsVars, httpVars, coapVars>>

StoreLocally ==
  /\ Store
  /\ UNCHANGED <<binding, active, kind, served, emitted, since, losses, observerVars, wsVars, httpVars,
                 coapVars, topicVars>>

ToggleThing ==
  /\ Toggle
  /\ UNCHANGED <<binding, since, losses, observerVars, wsVars, httpVars, coapVars, topicVars>>

Emit ==
  \/ WsEmission /\ WsOnly
  \/ HttpEmission /\ HttpOnly
  \/ CoapEmission /\ CoapOnly
  \/ TopicEmission /\ TopicOnly

(* The tasks of the server and of the clients that an event loop runs.     *)
Task ==
  \/ TopicServerTask /\ TopicOnly
  \/ \E o \in Observers :
       \/ (WsServerTask(o) \/ WsClientTask(o)) /\ WsOnly
       \/ (HttpServerTask(o) \/ HttpClientTask(o)) /\ HttpOnly
       \/ (CoapServerTask(o) \/ CoapClientTask(o)) /\ CoapOnly
       \/ TopicClientTask(o) /\ TopicOnly

Other ==
  \/ (TopicStart \/ TopicStop \/ TopicRequest) /\ TopicOnly
  \/ \E o \in Observers :
       \/ WsOther(o) /\ WsOnly
       \/ HttpOther(o) /\ HttpOnly
       \/ CoapOther(o) /\ CoapOnly
       \/ (TopicSubscribe(o) \/ TopicUnsubscribe(o)) /\ TopicOnly

Next == StoreLocally \/ ToggleThing \/ Emit \/ Task \/ Other

Spec == Init /\ [][Next]_vars

(* The event loops run every task that can run, and the network passes on  *)
(* what it does not lose.  Nothing is assumed of the thing, of those who   *)
(* start and stop servers, or of the observers.                            *)
FairSpec ==
  /\ Spec
  /\ WF_vars((Refresh \/ HandleRead \/ HandleWrite) /\ TopicOnly)
  /\ \A g \in Loops : WF_vars(LoopTask(g) /\ TopicOnly)
  /\ \A o \in Observers :
       /\ WF_vars(WsServerTask(o) /\ WsOnly) /\ WF_vars(WsClientTask(o) /\ WsOnly)
       /\ WF_vars(CoapServerTask(o) /\ CoapOnly) /\ WF_vars(CoapClientTask(o) /\ CoapOnly)
       /\ WF_vars(TopicClientTask(o) /\ TopicOnly)

TypeOK ==
  /\ SourceTypeOK
  /\ binding = "ws" => WsTypeOK
  /\ binding = "http" => HttpTypeOK
  /\ binding = "coap" => CoapTypeOK
  /\ binding = "topic" => TopicTypeOK

-----------------------------------------------------------------------------
(* Properties.                                                             *)

(* Held back are, over topics only, an update that one publishing loop     *)
(* held while another took one, or that a loop ended with, and the value   *)
(* of a read that was no longer that of the property when the read was     *)
(* done.                                                                   *)
Stream == INSTANCE EventStream WITH late <- held \cup stale

(* Whatever the binding, an observer is shown only what happened, while it *)
(* observes, and in the order it happened, but for what was held back.     *)
ObservesStream == Stream!StreamSpec

(* No subscription to the thing outlives what it is for: a connection that *)
(* is closed has none, even if its request was handled after on_close, and *)
(* a handler whose runner has stopped has none.                            *)
NoSubscriptionLeft ==
  /\ \A o \in wsSubs : link[o] \in {"open", "closing"}
  /\ topicSub => running

(* Over WebSockets no item is skipped: those an observer was shown and     *)
(* those on their way to it are all that were emitted since it subscribed, *)
(* unless another connection that was closing cut an emission short.       *)
WsSkipsNothing ==
  \A o \in wsSubs :
    ~disturbed /\ status[o] = "on" /\ link[o] = "open" =>
      since[o] + views[o] + Cardinality({i \in DOMAIN pipe[o] : pipe[o][i] # Id}) = emitted

(* A poll is answered with the first item after it was subscribed, however *)
(* many are emitted before its handler goes on.                            *)
PollGetsNext ==
  \A o \in Observers, n \in 1..MaxPolls :
    polls[o][n].at \in {"ready", "answered"} => polls[o][n].item = polls[o][n].since + 1

(* Items that were emitted to the subscription of o and are not shown yet, *)
(* for the bindings that owe them.                                         *)
Owed(o, v) ==
  \/ o \in wsSubs /\ link[o] = "open" /\ since[o] < v /\ v <= emitted
  \/ o \in coapSubs /\ since[o] < v /\ v <= emitted
  \/ o \in listening /\ (Holds(Update(v)) \/ \E i \in DOMAIN queue : queue[i] = Update(v))

(* What was emitted to an observer reaches it, or something newer does,    *)
(* unless it leaves, its connection is lost, or the server stops.          *)
EmittedIsSeen ==
  \A o \in Observers : \A v \in 1..MaxVersion :
    Owed(o, v) ~> \/ seen[o] >= v \/ status[o] = "left" \/ disturbed
                  \/ binding = "topic" /\ ~running

(* Subscriptions follow: those of observers that left are disposed of, and *)
(* a runner that runs comes to be subscribed to what its server has, and   *)
(* to nothing else.                                                        *)
SubscriptionsFollow ==
  /\ \A o \in Observers : status[o] = "left" ~> o \notin wsSubs \cup coapSubs
  /\ <>[](binding = "topic" /\ running /\ served) => <>[]topicSub
  /\ <>[](binding = "topic" /\ ~served) => <>[]~topicSub
=============================================================================
