---------------------------- MODULE ZenohClient ----------------------------
(***************************************************************************)
(* The Zenoh client (wotpy/protocols/zenoh/client.py).  It does not count  *)
(* or lock: a call opens the session if there is none, subscribes to the   *)
(* topic of its answer in place of whoever subscribed before, and takes    *)
(* both down when it ends.  Nothing it awaits suspends but the wait for a  *)
(* message, so each of these is one step.                                  *)
(*                                                                         *)
(* Samples arrive on a thread of the library, which hands them to the      *)
(* event loop (samples): they may be processed after the subscriber they   *)
(* arrived for is gone, and for a session that was opened later.           *)
(*                                                                         *)
(* External: opening a session may fail; a subscriber that is replaced is  *)
(* undeclared when its object is dropped.                                  *)
(***************************************************************************)
EXTENDS TopicClient

VARIABLES
  declared,  \* the topics in _subscribers; there is a session if there is one
  samples    \* messages handed to the event loop by the thread

zenohVars == <<declared, samples>>

ZenohTypeOK ==
  /\ ThingTypeOK
  /\ pc \in [Calls -> {"idle", "init", "listen", "done"}]
  /\ stream \in Seq(Message) /\ messages \in Seq(Entry) /\ topics \subseteq Topics
  /\ declared \subseteq Topics /\ samples \in Seq(Message)

ZenohInit == declared = {} /\ samples = <<>>

Move(c, place) == pc' = [pc EXCEPT ![c] = place]

-----------------------------------------------------------------------------
(* The steps of a call.                                                    *)

StartZenoh(c) ==
  /\ Start(c)
  /\ Move(c, "init")
  /\ UNCHANGED <<thingVars, stream, tableVars, zenohVars>>

(* Mutant of Disconnect: the session is closed with any topic.             *)
DisconnectAll(t, subs, conds) == declared' = {} /\ topics' = {} /\ messages' = <<>>

(* _disconnect_client of topic t, when the calls subscribed to subs and    *)
(* waited on conds: the session and the tables go with the last topic.     *)
Disconnect(t, subs, conds) ==
  /\ declared' = subs \ {t}
  /\ IF declared' # {} THEN topics' = conds /\ UNCHANGED messages
     ELSE topics' = {} /\ messages' = <<>>

WithTopic(c, set) == set \cup {TopicOf(c)}

(* _init_client, _subscribe and _publish; a write with wait_ack=False ends *)
(* here, and undeclares the topic in the same step.                        *)
Request(c) ==
  /\ pc[c] = "init"
  /\ requests' = requests \cup {c}
  /\ IF c \in Unawaited
     THEN /\ ReturnAtOnce(c) /\ Move(c, "done")
          /\ Disconnect("ack", WithTopic(c, declared), WithTopic(c, topics))
     ELSE /\ declared' = WithTopic(c, declared) /\ topics' = WithTopic(c, topics)
          /\ Move(c, "listen") /\ UNCHANGED <<outcomeVars, messages>>
  /\ UNCHANGED <<active, version, served, written, answerVars, floor, stream, samples>>

(* Without a session the clean-up of the failed call raises, too.          *)
OpenFails(c) ==
  /\ pc[c] = "init" /\ declared = {}
  /\ Fail(c) /\ Move(c, "done")
  /\ UNCHANGED <<thingVars, floor, stream, tableVars, zenohVars>>

(* The end of a call: it undeclares its topic for everybody.  If another   *)
(* call has closed the session there is nothing left to clean up, and      *)
(* looking for it raises.                                                  *)
End(c) ==
  /\ Move(c, "done")
  /\ IF declared # {} THEN Disconnect(TopicOf(c), declared, topics)
     ELSE UNCHANGED <<declared, tableVars>>
  /\ UNCHANGED <<thingVars, floor, stream, samples>>

TakeZenoh(c) == pc[c] = "listen" /\ TakeAnswer(c) /\ End(c)

(* _wait_on_message asserts that the session and the topic are known.      *)
GiveUp(c) == pc[c] = "listen" /\ Fail(c) /\ End(c)

-----------------------------------------------------------------------------
(* Samples.                                                                *)

(* The listener, on its thread, of a topic that is subscribed to.          *)
Receive ==
  /\ stream # <<>> /\ stream' = Tail(stream)
  /\ IF Head(stream).topic \in declared THEN samples' = Append(samples, Head(stream))
     ELSE UNCHANGED samples
  /\ UNCHANGED <<thingVars, callerVars, tableVars, pc, declared>>

(* _deliver asserts that there is a session; a topic nobody waits on is    *)
(* unknown to _new_message.                                                *)
Deliver ==
  /\ samples # <<>> /\ samples' = Tail(samples)
  /\ IF declared = {} THEN UNCHANGED messages
     ELSE NewMessage(Head(samples), {c \in Reads : pc[c] = "listen"})
  /\ UNCHANGED <<thingVars, callerVars, stream, topics, pc, declared>>

LostByRouter ==
  /\ stream # <<>> /\ stream' = Tail(stream)
  /\ UNCHANGED <<thingVars, callerVars, tableVars, pc, zenohVars>>

HandleZenoh(c) == Handle(c, 1) /\ UNCHANGED <<stream, tableVars, pc, zenohVars>>

ServeZenoh(op) == Serve(op) /\ UNCHANGED <<tableVars, pc, zenohVars>>

ZenohCallStep(c) == Request(c) \/ OpenFails(c) \/ TakeZenoh(c) \/ GiveUp(c)

ZenohNext ==
  \/ \E c \in Calls : StartZenoh(c) \/ ZenohCallStep(c) \/ HandleZenoh(c)
  \/ \E op \in running : ServeZenoh(op)
  \/ Receive \/ Deliver \/ LostByRouter

-----------------------------------------------------------------------------
(* Properties.                                                             *)

(* wotpy/protocols/zenoh/client.py:259 asserts that the router and the     *)
(* topic are known whenever a call waits for a message.                    *)
WaitsOnKnownTopic == \A c \in Calls : pc[c] = "listen" => TopicOf(c) \in topics

(* Calls disturb only calls of their own topic: one that waits on a topic  *)
(* on which no other call was made is subscribed, and the session and the  *)
(* tables it needs are there, whoever else ends.                           *)
OthersDoNotDisturb ==
  \A c \in Calls :
    /\ pc[c] = "listen"
    /\ \A d \in Calls \ {c} : TopicOf(d) = TopicOf(c) => pc[d] \in {"idle", "init"}
    => TopicOf(c) \in declared \cap topics
=============================================================================
