--------------------------- MODULE WsObservation ---------------------------
(***************************************************************************)
(* Observation over WebSockets: the handler of the server                  *)
(* (wotpy/protocols/ws/handler.py) and the subscriptions of the client     *)
(* (wotpy/protocols/ws/client.py), each with a connection of its own.  The *)
(* handler takes every request to a task; the one of a subscription sends  *)
(* the id, subscribes, and from then on each item goes out in the step     *)
(* that emits it.                                                          *)
(*                                                                         *)
(* External: messages of a connection arrive in order or the connection is *)
(* lost.  Between its end and on_close the connection is "closing": then   *)
(* write_message raises, which ends the handling of a request, but out of  *)
(* the stream it keeps the item from the subscribers that come after and   *)
(* raises in whoever emitted it.                                           *)
(***************************************************************************)
EXTENDS ObservedThing

VARIABLES
  stage,      \* of each observer's request
  link,       \* the server's end of each connection
  wsSubs,     \* observers whose subscription is active
  pipe,       \* messages to each observer, not yet read
  knowsId,    \* observers whose future_sub_id is done
  views,      \* history: how often each observer was shown an item
  disturbed   \* history: some emission was cut short

wsVars == <<stage, link, wsSubs, pipe, knowsId, views, disturbed>>

Id == 0  \* the response with the subscription id; items are numbered from 1

WsTypeOK ==
  /\ stage \in [Observers -> {"none", "connecting", "sent", "task", "answered"}]
  /\ link \in [Observers -> {"none", "open", "closing", "closed"}]
  /\ wsSubs \subseteq Observers /\ knowsId \subseteq Observers
  /\ pipe \in [Observers -> Seq(0..MaxVersion)] /\ views \in [Observers -> Nat] /\ disturbed \in BOOLEAN

WsInit ==
  /\ stage = [o \in Observers |-> "none"] /\ link = [o \in Observers |-> "none"]
  /\ wsSubs = {} /\ pipe = [o \in Observers |-> <<>>] /\ knowsId = {}
  /\ views = [o \in Observers |-> 0] /\ disturbed = FALSE

Advance(o, from, to) == stage[o] = from /\ stage' = [stage EXCEPT ![o] = to]

CloseLink(o) == link' = [link EXCEPT ![o] = IF @ = "open" THEN "closing" ELSE @]

WsSubscribe(o) ==
  /\ Observe(o) /\ Advance(o, "none", "connecting")
  /\ UNCHANGED <<sourceVars, since, losses, link, wsSubs, pipe, knowsId, views, disturbed>>

(* open() closes the connection if the thing is unknown.                   *)
WsConnected(o) ==
  /\ status[o] = "on" /\ Advance(o, "connecting", "sent")
  /\ link' = [link EXCEPT ![o] = IF served THEN "open" ELSE "closing"]
  /\ UNCHANGED <<sourceVars, since, losses, observerVars, wsSubs, pipe, knowsId, views, disturbed>>

WsConnectFails(o) ==
  /\ stage[o] = "connecting" /\ Leave(o)
  /\ UNCHANGED <<sourceVars, since, losses, wsVars>>

WsOnMessage(o) ==
  /\ link[o] = "open" /\ Advance(o, "sent", "task")
  /\ UNCHANGED <<sourceVars, since, losses, observerVars, link, wsSubs, pipe, knowsId, views, disturbed>>

(* Mutant of Subscribed: the response is awaited before it is known that   *)
(* the connection still takes it.                                          *)
SubscribedAnyway(o) ==
  IF served THEN wsSubs' = wsSubs \cup {o} /\ UNCHANGED link
  ELSE CloseLink(o) /\ UNCHANGED wsSubs

Subscribed(o) ==
  IF link[o] = "open" /\ served THEN wsSubs' = wsSubs \cup {o} /\ UNCHANGED link
  ELSE CloseLink(o) /\ UNCHANGED wsSubs

(* Mutant of WsHandle: the id is sent in a later step than it is used.     *)
WsHandleIdLate(o) ==
  /\ stage[o] = "task" /\ link[o] = "open"
  /\ IF o \in wsSubs
     THEN /\ pipe' = [pipe EXCEPT ![o] = Append(@, Id)] /\ Advance(o, "task", "answered")
          /\ UNCHANGED <<wsSubs, link, since>>
     ELSE Subscribed(o) /\ since' = [since EXCEPT ![o] = emitted] /\ UNCHANGED <<pipe, stage>>
  /\ UNCHANGED <<sourceVars, losses, observerVars, knowsId, views, disturbed>>

(* _handle_on_event and its like.                                          *)
WsHandle(o) ==
  /\ Advance(o, "task", "answered")
  /\ pipe' = [pipe EXCEPT ![o] = IF link[o] = "open" THEN Append(@, Id) ELSE @]
  /\ Subscribed(o)
  /\ since' = [since EXCEPT ![o] = emitted]
  /\ UNCHANGED <<sourceVars, losses, observerVars, knowsId, views, disturbed>>

(* A client of another make may dispose of its subscription.               *)
WsDispose(o) ==
  /\ o \in knowsId /\ link[o] = "open" /\ Leave(o)
  /\ wsSubs' = wsSubs \ {o}
  /\ UNCHANGED <<sourceVars, since, losses, stage, link, pipe, knowsId, views, disturbed>>

WsOnClose(o) ==
  /\ link[o] = "closing"
  /\ link' = [link EXCEPT ![o] = "closed"]
  /\ wsSubs' = wsSubs \ {o}
  /\ UNCHANGED <<sourceVars, since, losses, observerVars, stage, pipe, knowsId, views, disturbed>>

Given(o) == pipe' = [pipe EXCEPT ![o] = Tail(@)]

(* Before the id is known, anything else is ignored.                       *)
WsRead(o) ==
  /\ status[o] = "on" /\ pipe[o] # <<>> /\ Given(o)
  /\ IF Head(pipe[o]) # Id /\ o \in knowsId
     THEN Show(o, Head(pipe[o])) /\ views' = [views EXCEPT ![o] = @ + 1] /\ UNCHANGED knowsId
     ELSE /\ knowsId' = IF Head(pipe[o]) = Id THEN knowsId \cup {o} ELSE knowsId
          /\ UNCHANGED <<observerVars, views>>
  /\ UNCHANGED <<sourceVars, since, losses, stage, link, wsSubs, disturbed>>

WsReadNone(o) ==
  /\ link[o] \in {"closing", "closed"} /\ pipe[o] = <<>> /\ Leave(o)
  /\ UNCHANGED <<sourceVars, since, losses, wsVars>>

WsUnsubscribe(o) ==
  /\ Leave(o) /\ CloseLink(o)
  /\ UNCHANGED <<sourceVars, since, losses, stage, wsSubs, pipe, knowsId, views, disturbed>>

WsLost(o) ==
  /\ link[o] = "open" /\ losses > 0 /\ losses' = losses - 1
  /\ CloseLink(o) /\ pipe' = [pipe EXCEPT ![o] = <<>>]
  /\ UNCHANGED <<sourceVars, since, observerVars, stage, wsSubs, knowsId, views, disturbed>>

(* The subscribers are called in turn, up to the first that raises.        *)
WsEmission ==
  LET open == {o \in wsSubs : link[o] = "open"}
  IN /\ Emission
     /\ \E reached \in SUBSET open :
          /\ IF open = wsSubs THEN reached = open /\ UNCHANGED wsSubs
             ELSE \E o \in wsSubs \ open : wsSubs' = wsSubs \ {o}
          /\ disturbed' = (disturbed \/ reached # open)
          /\ pipe' = [o \in Observers |-> IF o \in reached THEN Append(pipe[o], emitted')
                                          ELSE pipe[o]]
     /\ UNCHANGED <<since, losses, observerVars, stage, link, knowsId, views>>

WsServerTask(o) == WsOnMessage(o) \/ WsHandle(o) \/ WsOnClose(o)

WsClientTask(o) == WsConnected(o) \/ WsConnectFails(o) \/ WsRead(o) \/ WsReadNone(o)

WsOther(o) == WsSubscribe(o) \/ WsDispose(o) \/ WsUnsubscribe(o) \/ WsLost(o)
=============================================================================
