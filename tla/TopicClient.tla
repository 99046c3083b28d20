---------------------------- MODULE TopicClient ----------------------------
(***************************************************************************)
(* What the MQTT and the Zenoh client have in common                       *)
(* (wotpy/protocols/mqtt/client.py, wotpy/protocols/zenoh/client.py):      *)
(* requests and answers are published on topics, and the client keeps the  *)
(* messages that arrive in a table which its calls search.  A write is     *)
(* answered on its acknowledgement topic and an invocation on its result   *)
(* topic, under an identifier chosen by the call; a read has no identifier *)
(* and takes the first update of the property that arrived after it asked. *)
(*                                                                         *)
(* One broker (or router) and one property and action: brokers share       *)
(* nothing but the lock of the MQTT client, and the forms of a thing name  *)
(* one broker.  External: the broker keeps the order of messages and       *)
(* delivers none twice.                                                    *)
(***************************************************************************)
EXTENDS RemoteThing, Sequences

CONSTANT MayExpire  \* whether a call may outlast the time messages are kept

ASSUME ExpiryAssumption == MayExpire \in BOOLEAN

VARIABLES
  stream,    \* messages the thing published that have not arrived
  messages,  \* _messages: the messages that arrived, in order
  topics,    \* the topics with a condition: keys of _msg_conditions
  pc         \* where each call is

tableVars == <<messages, topics>>

Topics == {"ack", "result", "update"}
Message == [topic : Topics, of : Calls, version : Nat]

(* asked: the reads that had set read_time when the message arrived.       *)
Entry == [msg : Message, asked : SUBSET Reads]

TopicOf(c) ==
  IF c \in Reads THEN "update" ELSE IF c \in Writes THEN "ack" ELSE "result"

TableInit == stream = <<>> /\ messages = <<>> /\ topics = {}

-----------------------------------------------------------------------------
(* The thing.  A write is published as an update, of the value it set,     *)
(* before its acknowledgement, and a read as an update of what it found.   *)
Answers(op) ==
  LET Published(t) == [topic |-> t, of |-> op.of, version |-> op.version]
  IN IF op.of \in Writes THEN <<Published("update"), Published("ack")>>
     ELSE <<Published(TopicOf(op.of))>>

(* Everyone may see an answer that comes after that of a newer write.      *)
Serve(op) ==
  /\ Answer(op)
  /\ overtaken' = IF op.version < completed THEN overtaken \cup {op.version} ELSE overtaken
  /\ stream' = stream \o Answers(op)

-----------------------------------------------------------------------------
(* The table.                                                              *)

(* _new_message: stored if the topic is known; what has expired is purged. *)
NewMessage(m, asked) ==
  IF m.topic \notin topics THEN UNCHANGED messages
  ELSE \E kept \in {messages} \cup (IF MayExpire THEN {<<>>} ELSE {}) :
         messages' = Append(kept, [msg |-> m, asked |-> asked])

(* Mutant of Mine: a read takes any update, however old.                   *)
MineAtAnyTime(c, entry) ==
  entry.msg.topic = TopicOf(c) /\ (c \in Reads \/ entry.msg.of = c)

Mine(c, entry) ==
  /\ entry.msg.topic = TopicOf(c)
  /\ IF c \in Reads THEN c \in entry.asked ELSE entry.msg.of = c

(* The first match ends the loop of a call.                                *)
TakeAnswer(c) ==
  \E i \in DOMAIN messages :
    /\ Mine(c, messages[i]) /\ \A j \in 1..(i - 1) : ~Mine(c, messages[j])
    /\ Return(c, messages[i].msg.version)
=============================================================================
