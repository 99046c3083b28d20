-------------------------- MODULE CoapObservation --------------------------
(***************************************************************************)
(* Observation over CoAP (wotpy/protocols/coap/client.py and the resources *)
(* of wotpy/protocols/coap/resources).  The subscription of an observer    *)
(* does not carry its items: it triggers a notification, which is rendered *)
(* later, from the stored value of the property or from the last event any *)
(* observer's subscription has noted.  Quick emissions coalesce, and the   *)
(* first response to the observer of an event may show an old one.  The    *)
(* read handler of the property may suspend before and after it has found  *)
(* the value, while other requests are served and values are emitted.      *)
(*                                                                         *)
(* External: aiocoap serves an observation in a task of its own.  The task *)
(* adds the observation and renders the first response, then waits until   *)
(* it is triggered and renders again, once after any number of triggers.   *)
(* The order of notifications is kept, and an observation ends when it is  *)
(* cancelled or answered by an error.                                      *)
(***************************************************************************)
EXTENDS ObservedThing

VARIABLES
  asked,      \* whether each observer's request is "none", "sent" or "taken"
  coapSubs,   \* observers with a subscription at the server
  triggered,  \* observers whose notification is due
  lastEvent,  \* _last_events of the event, 0 if there is none
  rendering,  \* of each observer's task, whether its read has found a value
  rendered,   \* what was last found for each observer
  notes       \* responses and notifications on their way

coapVars == <<asked, coapSubs, triggered, lastEvent, rendering, rendered, notes>>

Gone == MaxVersion + 1  \* an unsuccessful response

CoapTypeOK ==
  /\ asked \in [Observers -> {"none", "sent", "taken"}]
  /\ coapSubs \subseteq Observers /\ triggered \subseteq coapSubs
  /\ rendering \in [Observers -> {"no", "reads", "found"}]
  /\ lastEvent \in 0..MaxVersion /\ rendered \in [Observers -> 0..Gone]
  /\ notes \in [Observers -> Seq(0..Gone)]

CoapInit ==
  /\ asked = [o \in Observers |-> "none"]
  /\ coapSubs = {} /\ triggered = {} /\ lastEvent = 0
  /\ rendering = [o \in Observers |-> "no"]
  /\ rendered = [o \in Observers |-> 0] /\ notes = [o \in Observers |-> <<>>]

(* render_get of the two resources: the property has to be read, while an  *)
(* event is at hand; one that never happened is an empty payload.          *)
Render(o) ==
  IF served /\ kind = "property"
  THEN rendering' = [rendering EXCEPT ![o] = "reads"] /\ UNCHANGED <<rendered, notes>>
  ELSE LET shown == IF served THEN lastEvent ELSE Gone
       IN  /\ rendered' = [rendered EXCEPT ![o] = shown]
           /\ notes' = [notes EXCEPT ![o] = Append(@, shown)]
           /\ UNCHANGED rendering

CoapSubscribe(o) ==
  /\ Observe(o) /\ asked' = [asked EXCEPT ![o] = "sent"]
  /\ UNCHANGED <<sourceVars, since, losses, coapSubs, triggered, lastEvent, rendering, rendered, notes>>

(* add_observation does not accept what render_get will refuse.            *)
CoapGet(o) ==
  /\ asked[o] = "sent" /\ asked' = [asked EXCEPT ![o] = "taken"]
  /\ coapSubs' = IF served THEN coapSubs \cup {o} ELSE coapSubs
  /\ since' = [since EXCEPT ![o] = emitted]
  /\ Render(o)
  /\ UNCHANGED <<sourceVars, losses, observerVars, triggered, lastEvent>>

(* Mutant of Triggers: nothing is triggered while a notification travels.  *)
TriggersOnce == triggered' = triggered \cup {o \in coapSubs : notes[o] = <<>>}

Triggers == triggered' = coapSubs

CoapEmission ==
  /\ Emission /\ Triggers
  /\ lastEvent' = IF kind = "event" /\ coapSubs # {} THEN emitted' ELSE lastEvent
  /\ UNCHANGED <<since, losses, observerVars, asked, coapSubs, rendering, rendered, notes>>

CoapRender(o) ==
  /\ o \in triggered /\ rendering[o] = "no" /\ triggered' = triggered \ {o}
  /\ coapSubs' = IF served THEN coapSubs ELSE coapSubs \ {o}
  /\ Render(o)
  /\ UNCHANGED <<sourceVars, since, losses, observerVars, asked, lastEvent>>

CoapFind(o) ==
  /\ rendering[o] = "reads" /\ rendering' = [rendering EXCEPT ![o] = "found"]
  /\ rendered' = [rendered EXCEPT ![o] = version]
  /\ UNCHANGED <<sourceVars, since, losses, observerVars, asked, coapSubs, triggered, lastEvent, notes>>

CoapRespond(o) ==
  /\ rendering[o] = "found" /\ rendering' = [rendering EXCEPT ![o] = "no"]
  /\ notes' = [notes EXCEPT ![o] = Append(@, rendered[o])]
  /\ UNCHANGED <<sourceVars, since, losses, observerVars, asked, coapSubs, triggered, lastEvent,
                 rendered>>

(* A callback of the client with nothing in its payload shows nothing.     *)
CoapRead(o) ==
  /\ status[o] = "on" /\ notes[o] # <<>>
  /\ notes' = [notes EXCEPT ![o] = Tail(@)]
  /\ LET v == Head(notes[o]) IN
       \/ v = Gone /\ Leave(o)
       \/ v # Gone /\ (kind = "event" => v # 0) /\ Show(o, v)
       \/ kind = "event" /\ v = 0 /\ UNCHANGED observerVars
  /\ UNCHANGED <<sourceVars, since, losses, asked, coapSubs, triggered, lastEvent, rendering,
                 rendered>>

CoapUnsubscribe(o) ==
  Leave(o) /\ UNCHANGED <<sourceVars, since, losses, coapVars>>

(* The server learns of it; cancellation_cb.                               *)
CoapCancelled(o) ==
  /\ status[o] = "left" /\ o \in coapSubs
  /\ coapSubs' = coapSubs \ {o} /\ triggered' = triggered \ {o}
  /\ rendering' = [rendering EXCEPT ![o] = "no"]
  /\ UNCHANGED <<sourceVars, since, losses, observerVars, asked, lastEvent, rendered, notes>>

CoapServerTask(o) ==
  CoapGet(o) \/ CoapRender(o) \/ CoapFind(o) \/ CoapRespond(o) \/ CoapCancelled(o)

CoapClientTask(o) == CoapRead(o)

CoapOther(o) == CoapSubscribe(o) \/ CoapUnsubscribe(o)

(* The value found last for an observer that is subscribed is as new as    *)
(* the last thing emitted since, or a newer one is about to be found, even *)
(* if that was emitted while the handler of a read was suspended.          *)
LastIsOnItsWay ==
  \A o \in coapSubs :
    since[o] < emitted => rendered[o] >= emitted \/ o \in triggered \/ rendering[o] = "reads"
=============================================================================
