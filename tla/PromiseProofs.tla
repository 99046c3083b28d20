---------------------------- MODULE PromiseProofs ----------------------------
(***************************************************************************)
(* Proof that the clients keep their promise: every behaviour of           *)
(* RemoteCalls is one of RequestResponse, for any number of calls, and     *)
(* what follows from the promise for the application.                      *)
(***************************************************************************)
EXTENDS RemoteCallsProofs, SequenceTheorems, FiniteSetTheorems

-----------------------------------------------------------------------------
(* Sequences of messages.                                                  *)

Elems(s) == {s[i] : i \in DOMAIN s}

(* What comes after an acknowledgement is as new, or came to its end late. *)
Follows(x, y, late) == x.topic = "ack" => x.version <= y.version \/ y.version \in late

Sorted(s, late) == \A i, j \in DOMAIN s : i <= j => Follows(s[i], s[j], late)

(* All of s comes before m.                                                *)
Before(s, m, late) == \A x \in Elems(s) : Follows(x, m, late)

(* What is left when the first element of a sequence is taken.             *)
LEMMA TailElems ==
  ASSUME NEW S, NEW s \in Seq(S), NEW late, s # <<>>
  PROVE  /\ Tail(s) \in Seq(S) /\ Head(s) \in S /\ Head(s) \in Elems(s)
         /\ Elems(Tail(s)) \subseteq Elems(s)
         /\ Sorted(s, late) => Sorted(Tail(s), late) /\ \A x \in Elems(Tail(s)) : Follows(Head(s), x, late)
<1>1. /\ Tail(s) \in Seq(S) /\ Head(s) = s[1] /\ 1 \in DOMAIN s /\ DOMAIN s = 1..Len(s) /\ Len(s) \in Nat
      /\ DOMAIN Tail(s) = 1..(Len(s) - 1) /\ \A i \in 1..(Len(s) - 1) : Tail(s)[i] = s[i + 1]
  OBVIOUS
<1>2. Head(s) \in S
  OBVIOUS
<1> QED
  BY <1>1, <1>2 DEF Elems, Sorted

(* What a sequence holds once an element is added.                         *)
LEMMA AppendElems ==
  ASSUME NEW S, NEW s \in Seq(S), NEW m \in S, NEW late
  PROVE  /\ Append(s, m) \in Seq(S)
         /\ Elems(Append(s, m)) = Elems(s) \cup {m}
         /\ Sorted(s, late) /\ Before(s, m, late) /\ Follows(m, m, late) => Sorted(Append(s, m), late)
<1>1. /\ Append(s, m) \in Seq(S) /\ DOMAIN s = 1..Len(s) /\ Len(s) \in Nat
      /\ DOMAIN Append(s, m) = 1..(Len(s) + 1)
      /\ Append(s, m)[Len(s) + 1] = m /\ \A i \in 1..Len(s) : Append(s, m)[i] = s[i]
  OBVIOUS
<1>2. \A i \in 1..(Len(s) + 1) : i \in 1..Len(s) \/ i = Len(s) + 1
  BY <1>1
<1>3. Elems(Append(s, m)) = Elems(s) \cup {m}
  BY <1>1, <1>2 DEF Elems
<1>4. ASSUME Sorted(s, late), Before(s, m, late), Follows(m, m, late),
             NEW i \in DOMAIN Append(s, m), NEW j \in DOMAIN Append(s, m), i <= j
      PROVE  Follows(Append(s, m)[i], Append(s, m)[j], late)
  <2>1. CASE j \in 1..Len(s)
    BY <1>1, <1>4, <2>1 DEF Sorted
  <2>2. CASE j = Len(s) + 1 /\ i = Len(s) + 1
    BY <1>1, <1>4, <2>2
  <2>3. CASE j = Len(s) + 1 /\ i \in 1..Len(s)
    BY <1>1, <1>4, <2>3 DEF Before, Elems
  <2> QED
    BY <1>1, <1>2, <2>1, <2>2, <2>3
<1> QED
  BY <1>1, <1>3, <1>4 DEF Sorted

(* What two sequences hold one after the other.                            *)
LEMMA ConcatElems ==
  ASSUME NEW S, NEW s \in Seq(S), NEW t \in Seq(S), NEW late
  PROVE  /\ Elems(s \o t) = Elems(s) \cup Elems(t)
         /\ Sorted(s, late) /\ Sorted(t, late) /\ (\A m \in Elems(t) : Before(s, m, late))
              => Sorted(s \o t, late)
<1>1. /\ DOMAIN s = 1..Len(s) /\ Len(s) \in Nat /\ DOMAIN t = 1..Len(t) /\ Len(t) \in Nat
      /\ DOMAIN (s \o t) = 1..(Len(s) + Len(t))
      /\ \A i \in 1..(Len(s) + Len(t)) : (s \o t)[i] = IF i <= Len(s) THEN s[i] ELSE t[i - Len(s)]
  OBVIOUS
<1>2. \A i \in 1..(Len(s) + Len(t)) : IF i <= Len(s) THEN i \in 1..Len(s) ELSE i - Len(s) \in 1..Len(t)
  BY <1>1
<1>3. \A i \in 1..Len(s) : i \in 1..(Len(s) + Len(t)) /\ (s \o t)[i] = s[i]
  BY <1>1
<1>4. \A j \in 1..Len(t) : j + Len(s) \in 1..(Len(s) + Len(t)) /\ (s \o t)[j + Len(s)] = t[j]
  <2> TAKE j \in 1..Len(t)
  <2>1. j + Len(s) \in 1..(Len(s) + Len(t)) /\ ~(j + Len(s) <= Len(s)) /\ (j + Len(s)) - Len(s) = j
    BY <1>1
  <2> QED
    BY <1>1, <2>1
<1>5. Elems(s \o t) \subseteq Elems(s) \cup Elems(t)
  BY <1>1, <1>2 DEF Elems
<1>6. Elems(s) \subseteq Elems(s \o t)
  BY <1>1, <1>3 DEF Elems
<1>7. Elems(t) \subseteq Elems(s \o t)
  <2>1. \A j \in 1..Len(t) : \E i \in DOMAIN (s \o t) : (s \o t)[i] = t[j]
    BY <1>1, <1>4
  <2> QED
    BY <1>1, <2>1 DEF Elems
<1>8. ASSUME Sorted(s, late), Sorted(t, late), \A m \in Elems(t) : Before(s, m, late),
             NEW i \in DOMAIN (s \o t), NEW j \in DOMAIN (s \o t), i <= j
      PROVE  Follows((s \o t)[i], (s \o t)[j], late)
  <2>1. CASE j <= Len(s)
    BY <1>1, <1>2, <1>8, <2>1 DEF Sorted
  <2>2. CASE i <= Len(s) /\ ~(j <= Len(s))
    BY <1>1, <1>2, <1>8, <2>2 DEF Before, Elems
  <2>3. CASE ~(i <= Len(s)) /\ ~(j <= Len(s))
    <3>1. /\ (s \o t)[i] = t[i - Len(s)] /\ (s \o t)[j] = t[j - Len(s)]
          /\ i - Len(s) \in DOMAIN t /\ j - Len(s) \in DOMAIN t /\ i - Len(s) <= j - Len(s)
      BY <1>1, <1>2, <1>8, <2>3
    <3> QED
      BY <1>8, <3>1 DEF Sorted
  <2> QED
    BY <1>1, <1>8, <2>1, <2>2, <2>3
<1> QED
  BY <1>5, <1>6, <1>7, <1>8 DEF Sorted

(* The empty sequence holds nothing, and is in order.                      *)
LEMMA EmptyElems == Elems(<<>>) = {} /\ \A late : Sorted(<<>>, late)
  BY DEF Elems, Sorted

-----------------------------------------------------------------------------
(* Types.                                                                  *)

(* The variables of all the clients, whichever is used.                    *)
TypeInv ==
  /\ ThingTypeOK /\ ConnInv
  /\ stream \in Seq(Message) /\ messages \in Seq(Entry) /\ topics \subseteq Topics
  /\ lock \in Calls \cup {Nobody} /\ refs \subseteq Calls
  /\ client \in {"none", "new", "up", "down"}
  /\ stopEvent \in Calls \cup {Nobody} /\ told \subseteq Calls
  /\ loop \in [Calls -> {"none", "deliver", "reconnect", "resubscribe", "ended"}]
  /\ subscribed \subseteq Topics /\ failures \in Nat
  /\ declared \subseteq Topics /\ samples \in Seq(Message)
  /\ place \in [Calls -> {"idle", "sign", "sent", "done"}]
  /\ attempt \in [Calls -> 1..2] /\ replies \subseteq Operation

(* The empty sequence is one of messages and of entries.                   *)
LEMMA NoMessages == <<>> \in Seq(Message) /\ <<>> \in Seq(Entry)
  OBVIOUS

(* The variables have their types at the beginning.                        *)
LEMMA TypeInit == Init => TypeInv
<1> SUFFICES ASSUME Init PROVE TypeInv
  OBVIOUS
<1>1. stream \in Seq(Message) /\ messages \in Seq(Entry) /\ samples \in Seq(Message)
  BY NoMessages DEF Init, TableInit, ZenohInit
<1>2. ThingTypeOK
  BY ScenariosAssumption, CallsAssumption DEF Init, ThingInit, ThingTypeOK
<1>3. requests = {} /\ failures \in Nat /\ ConnInv
  BY ConnInit, ScenariosAssumption DEF Init, ThingInit
<1> QED
  BY <1>1, <1>2, <1>3 DEF Init, TypeInv, TableInit, MqttInit, ZenohInit, DirectInit

(* Every call waits on one of the topics.                                  *)
LEMMA TopicType == \A c \in Calls : TopicOf(c) \in Topics
  BY DEF TopicOf, Topics

(* The answers of the thing are messages.                                  *)
LEMMA AnswersType ==
  ASSUME TypeInv, NEW op \in running
  PROVE  Answers(op) \in Seq(Message)
<1> DEFINE Bearing(t) == [topic |-> t, of |-> op.of, version |-> op.version]
<1>1. op.version \in Nat /\ op.of \in Calls
  BY DEF TypeInv, ThingTypeOK, Operation
<1>2. \A t \in Topics : Bearing(t) \in Message
  BY <1>1 DEF Message
<1>3. {"update", "ack", TopicOf(op.of)} \subseteq Topics
  BY <1>1, TopicType DEF Topics
<1> HIDE DEF Bearing
<1>4. Answers(op) = IF op.of \in Writes THEN <<Bearing("update"), Bearing("ack")>>
                    ELSE <<Bearing(TopicOf(op.of))>>
  BY DEF Answers, Bearing
<1>5. Bearing("update") \in Message /\ Bearing("ack") \in Message /\ Bearing(TopicOf(op.of)) \in Message
  BY <1>2, <1>3
<1> QED
  BY <1>4, <1>5

(* Handling a request keeps the types.                                     *)
LEMMA HandleType ==
  ASSUME TypeInv, NEW c \in Calls, NEW n \in 1..2, Handle(c, n)
  PROVE  ThingTypeOK' /\ requests' \subseteq requests
<1>1. VersionAfter(c) \in Nat
  BY DEF TypeInv, ThingTypeOK, VersionAfter
<1>2. [of |-> c, attempt |-> n, version |-> VersionAfter(c)] \in Operation
  BY <1>1 DEF Operation
<1> QED
  BY <1>1, <1>2, CallsAssumption DEF TypeInv, ThingTypeOK, Handle, callerVars, outcomeVars

(* So does the return of a handler.                                        *)
LEMMA AnswerType ==
  ASSUME TypeInv, NEW op \in running, Answer(op), overtaken' \in {overtaken, overtaken \cup {op.version}}
  PROVE  ThingTypeOK' /\ op \in Operation
<1>1. op \in Operation /\ op.version \in Nat
  BY DEF TypeInv, ThingTypeOK, Operation
<1> QED
  BY <1>1 DEF TypeInv, ThingTypeOK, Answer, callerVars, outcomeVars

(* So does the return of a call.                                           *)
LEMMA ReturnType ==
  ASSUME TypeInv, NEW c \in Calls, NEW v \in Nat, Return(c, v), UNCHANGED <<thingVars, floor>>
  PROVE  ThingTypeOK'
  BY DEF TypeInv, ThingTypeOK, Return, thingVars, answerVars

(* So does taking an answer.                                               *)
LEMMA TakeType ==
  ASSUME TypeInv, NEW c \in Calls, TakeAnswer(c), UNCHANGED <<thingVars, floor>>
  PROVE  ThingTypeOK'
<1>1. PICK i \in DOMAIN messages : Return(c, messages[i].msg.version)
  BY DEF TakeAnswer
<1>2. messages[i] \in Entry
  BY DEF TypeInv
<1>3. messages[i].msg.version \in Nat
  BY <1>2 DEF Entry, Message
<1> QED
  BY <1>1, <1>3, ReturnType

(* So does storing a message that has arrived.                             *)
LEMMA NewMessageType ==
  ASSUME TypeInv, NEW m \in Message, NEW set \in SUBSET Reads, NewMessage(m, set)
  PROVE  messages' \in Seq(Entry)
<1>1. [msg |-> m, asked |-> set] \in Entry
  BY DEF Entry
<1>2. CASE UNCHANGED messages
  BY <1>2 DEF TypeInv
<1>3. ASSUME NEW kept \in {messages, <<>>}, messages' = Append(kept, [msg |-> m, asked |-> set])
      PROVE  messages' \in Seq(Entry)
  <2>1. kept \in Seq(Entry)
    BY <1>3, NoMessages DEF TypeInv
  <2> QED
    BY <1>1, <1>3, <2>1
<1> QED
  BY <1>2, <1>3 DEF NewMessage

(* Every step of the MQTT client keeps the types.                          *)
LEMMA TypeMqtt == TypeInv /\ Mqtt => TypeInv'
<1> SUFFICES ASSUME TypeInv, Mqtt PROVE TypeInv'
  OBVIOUS
<1>0. MqttNext /\ ConnInv' /\ binding = "mqtt" /\ binding' = binding /\ UNCHANGED <<zenohVars, directVars>>
  BY ConnMqtt DEF Mqtt, TypeInv
<1> USE <1>0, MqttClientAssumption
       DEF TypeInv, Raise, Start, ReturnAtOnce, Fail, LoopTop, thingVars, answerVars, callerVars, outcomeVars,
           mqttVars, connVars, loopVars, brokerVars, tableVars, zenohVars, directVars
<1>1. ASSUME NEW c \in Calls, StartMqtt(c) PROVE TypeInv'
  BY <1>1 DEF StartMqtt, ThingTypeOK
<1>2. ASSUME NEW c \in Calls, AcquireInit(c) PROVE TypeInv'
  BY <1>2 DEF AcquireInit, ThingTypeOK
<1>3. ASSUME NEW c \in Calls, Connected(c) PROVE TypeInv'
  BY <1>3 DEF Connected, ThingTypeOK
<1>4. ASSUME NEW c \in Calls, ConnectFails(c) PROVE TypeInv'
  BY <1>4 DEF ConnectFails, ThingTypeOK
<1>5. ASSUME NEW c \in Calls, AcquireSubscribe(c) PROVE TypeInv'
  BY <1>5 DEF AcquireSubscribe, ThingTypeOK, TopicOf, Topics
<1>6. ASSUME NEW c \in Calls, Subscribed(c) PROVE TypeInv'
  BY <1>6 DEF Subscribed, ThingTypeOK, TopicOf, Topics
<1>7. ASSUME NEW c \in Calls, SubscribeFails(c) PROVE TypeInv'
  BY <1>7 DEF SubscribeFails, Raises, ThingTypeOK
<1>8. ASSUME NEW c \in Calls, Published(c) PROVE TypeInv'
  BY <1>8 DEF Published, ThingTypeOK
<1>9. ASSUME NEW c \in Calls, PublishFails(c) PROVE TypeInv'
  BY <1>9 DEF PublishFails, Raises, ThingTypeOK
<1>10. ASSUME NEW c \in Calls, TimeOut(c) PROVE TypeInv'
  BY <1>10 DEF TimeOut, ThingTypeOK
<1>11. ASSUME NEW c \in Calls, AcquireLeave(c) PROVE TypeInv'
  BY <1>11 DEF AcquireLeave, HasAny, TellLoop, ThingTypeOK
<1>12. ASSUME NEW c \in Calls, LoopStopped(c) \/ StopTimesOut(c) PROVE TypeInv'
  BY <1>12 DEF LoopStopped, StopTimesOut, ThingTypeOK
<1>13. ASSUME NEW c \in Calls, Disconnected(c) PROVE TypeInv'
  BY <1>13 DEF Disconnected, ThingTypeOK
<1>14. ASSUME NEW l \in Calls, DeliverTimesOut(l) \/ DeliverFails(l) PROVE TypeInv'
  BY <1>14 DEF DeliverTimesOut, DeliverFails, ThingTypeOK
<1>15. ASSUME NEW l \in Calls, Reconnected(l) PROVE TypeInv'
  BY <1>15 DEF Reconnected, Resubscribes, ThingTypeOK
<1>16. ASSUME NEW l \in Calls, Resubscribed(l) \/ ReconnectFails(l) PROVE TypeInv'
  BY <1>16 DEF Resubscribed, ReconnectFails, ThingTypeOK
<1>17. ASSUME ConnectionLost PROVE TypeInv'
  BY <1>17 DEF ConnectionLost, ThingTypeOK
<1>18. ASSUME NEW c \in Calls, Take(c) PROVE TypeInv'
  <2>1. ThingTypeOK'
    BY <1>18, TakeType DEF Take
  <2> QED
    BY <1>18, <2>1 DEF Take
<1>19. ASSUME NEW op \in running, ServeMqtt(op) PROVE TypeInv'
  <2>1. /\ Answer(op) /\ stream' = stream \o Answers(op) /\ UNCHANGED <<messages, topics, mqttVars>>
        /\ overtaken' \in {overtaken, overtaken \cup {op.version}}
    BY <1>19 DEF ServeMqtt, Serve
  <2>2. ThingTypeOK' /\ stream' \in Seq(Message)
    BY <2>1, AnswerType, AnswersType
  <2> QED
    BY <2>1, <2>2
<1>20. ASSUME NEW l \in Calls, DeliverMessage(l) PROVE TypeInv'
  <2>1. stream # <<>> /\ stream' = Tail(stream) /\ NewMessage(Head(stream), Asking)
    BY <1>20 DEF DeliverMessage
  <2>2. stream' \in Seq(Message) /\ Head(stream) \in Message /\ Asking \in SUBSET Reads
    BY <2>1, TailElems DEF Asking
  <2>3. messages' \in Seq(Entry)
    BY <2>1, <2>2, NewMessageType
  <2> QED
    BY <1>20, <2>2, <2>3 DEF DeliverMessage, ThingTypeOK
<1>21. ASSUME Lost PROVE TypeInv'
  BY <1>21, TailElems DEF Lost, ThingTypeOK
<1>22. ASSUME NEW c \in Calls, HandleMqtt(c) PROVE TypeInv'
  <2>1. ThingTypeOK' /\ UNCHANGED <<stream, messages, topics, mqttVars>>
    BY <1>22, HandleType DEF HandleMqtt
  <2> QED
    BY <2>1
<1> QED
  BY <1>1, <1>2, <1>3, <1>4, <1>5, <1>6, <1>7, <1>8, <1>9, <1>10, <1>11, <1>12, <1>13, <1>14,
     <1>15, <1>16, <1>17, <1>18, <1>19, <1>20, <1>21, <1>22
     DEF MqttNext, MqttCallStep, LoopStep

(* Storing a sample that has arrived keeps the types.                      *)
LEMMA ReceiveType ==
  ASSUME TypeInv, Receive PROVE stream' \in Seq(Message) /\ samples' \in Seq(Message)
<1>1. stream \in Seq(Message) /\ samples \in Seq(Message)
  BY DEF TypeInv
<1>2. stream # <<>> /\ stream' = Tail(stream) /\ samples' \in {samples, Append(samples, Head(stream))}
  BY DEF Receive
<1>3. stream' \in Seq(Message) /\ Head(stream) \in Message
  BY <1>1, <1>2, TailElems
<1> QED
  BY <1>1, <1>2, <1>3

(* Every step of the Zenoh client keeps the types.                         *)
LEMMA TypeZenoh == TypeInv /\ Zenoh => TypeInv'
<1> SUFFICES ASSUME TypeInv, Zenoh PROVE TypeInv'
  OBVIOUS
<1>0. ZenohNext /\ ConnInv' /\ binding = "zenoh" /\ binding' = binding /\ UNCHANGED <<mqttVars, directVars>>
  BY ConnZenoh DEF Zenoh, TypeInv
<1> USE <1>0
       DEF TypeInv, Start, ReturnAtOnce, Fail, thingVars, answerVars, callerVars, outcomeVars, mqttVars,
           connVars, loopVars, brokerVars, tableVars, zenohVars, directVars
<1>1. ASSUME NEW c \in Calls, StartZenoh(c) PROVE TypeInv'
  BY <1>1 DEF StartZenoh, ThingTypeOK
<1>2. ASSUME NEW t \in Topics, NEW d \in SUBSET Topics, NEW k \in SUBSET Topics, Disconnect(t, d, k)
      PROVE  declared' \subseteq Topics /\ topics' \subseteq Topics /\ messages' \in Seq(Entry)
  <2>1. messages' = messages \/ messages' = <<>>
    BY <1>2 DEF Disconnect
  <2>2. declared' \subseteq Topics /\ topics' \subseteq Topics
    BY <1>2 DEF Disconnect
  <2>3. messages' \in Seq(Entry)
    BY <2>1, NoMessages
  <2> QED
    BY <2>2, <2>3
<1>3. ASSUME NEW c \in Calls, Request(c) PROVE TypeInv'
  <2>1. WithTopic(c, declared) \in SUBSET Topics /\ WithTopic(c, topics) \in SUBSET Topics /\ "ack" \in Topics
    BY TopicType DEF WithTopic, Topics
  <2>2. declared' \subseteq Topics /\ topics' \subseteq Topics /\ messages' \in Seq(Entry)
    BY <1>2, <1>3, <2>1 DEF Request
  <2>3. ThingTypeOK' /\ UNCHANGED <<stream, samples>>
    BY <1>3 DEF Request, ThingTypeOK
  <2> QED
    BY <2>2, <2>3
<1>4. ASSUME NEW c \in Calls, OpenFails(c) PROVE TypeInv'
  BY <1>4 DEF OpenFails, ThingTypeOK
<1>5. ASSUME NEW c \in Calls, TakeZenoh(c) \/ GiveUp(c) PROVE TypeInv'
  <2>1. End(c)
    BY <1>5 DEF TakeZenoh, GiveUp
  <2>2. declared' \subseteq Topics /\ topics' \subseteq Topics /\ messages' \in Seq(Entry)
    BY <1>2, <2>1, TopicType DEF End
  <2>3. ThingTypeOK'
    BY <1>5, <2>1, TakeType DEF TakeZenoh, GiveUp, End, ThingTypeOK
  <2> QED
    BY <2>1, <2>2, <2>3 DEF End
<1>6. ASSUME NEW op \in running, ServeZenoh(op) PROVE TypeInv'
  <2>1. /\ Answer(op) /\ stream' = stream \o Answers(op) /\ UNCHANGED <<messages, topics, zenohVars>>
        /\ overtaken' \in {overtaken, overtaken \cup {op.version}}
    BY <1>6 DEF ServeZenoh, Serve
  <2>2. ThingTypeOK' /\ stream' \in Seq(Message)
    BY <2>1, AnswerType, AnswersType
  <2> QED
    BY <2>1, <2>2
<1>7. ASSUME Receive PROVE TypeInv'
  <2>1. stream' \in Seq(Message) /\ samples' \in Seq(Message)
    BY <1>7, ReceiveType
  <2> QED
    BY <1>7, <2>1 DEF Receive, ThingTypeOK
<1>8. ASSUME Deliver PROVE TypeInv'
  <2>1. samples' \in Seq(Message) /\ Head(samples) \in Message
    BY <1>8, TailElems DEF Deliver
  <2>2. {c \in Reads : pc[c] = "listen"} \in SUBSET Reads
    OBVIOUS
  <2>3. messages' \in Seq(Entry)
    BY <1>8, <2>1, <2>2, NewMessageType DEF Deliver
  <2> QED
    BY <1>8, <2>1, <2>3 DEF Deliver, ThingTypeOK
<1>9. ASSUME LostByRouter PROVE TypeInv'
  BY <1>9, TailElems DEF LostByRouter, ThingTypeOK
<1>10. ASSUME NEW c \in Calls, HandleZenoh(c) PROVE TypeInv'
  <2>1. ThingTypeOK' /\ UNCHANGED <<stream, messages, topics, zenohVars>>
    BY <1>10, HandleType DEF HandleZenoh
  <2> QED
    BY <2>1
<1> QED
  BY <1>1, <1>3, <1>4, <1>5, <1>6, <1>7, <1>8, <1>9, <1>10 DEF ZenohNext, ZenohCallStep

(* Every step of a client that is answered directly keeps the types.       *)
LEMMA TypeDirect == TypeInv /\ Direct => TypeInv'
<1> SUFFICES ASSUME TypeInv, Direct PROVE TypeInv'
  OBVIOUS
<1>0. DirectNext /\ ConnInv' /\ binding = "direct" /\ binding' = binding
      /\ UNCHANGED <<stream, tableVars, pc, mqttVars, zenohVars>>
  BY ConnOther DEF Direct, TypeInv
<1> USE <1>0
       DEF TypeInv, Start, Fail, At, thingVars, answerVars, callerVars, outcomeVars, mqttVars, connVars,
           loopVars, brokerVars, tableVars, zenohVars, directVars
<1>1. ASSUME NEW c \in Calls, StartDirect(c) PROVE TypeInv'
  BY <1>1 DEF StartDirect, ThingTypeOK
<1>2. ASSUME NEW c \in Calls, Send(c) PROVE TypeInv'
  BY <1>2 DEF Send, ThingTypeOK
<1>3. ASSUME NEW c \in Calls, NEW from, AttemptFails(c, from) PROVE TypeInv'
  <2>1. CASE AsksAgain(c)
    <3>1. ThingTypeOK' /\ attempt[c] = 1
      BY <1>3, <2>1 DEF AttemptFails, AsksAgain, ThingTypeOK
    <3>2. /\ place' = [place EXCEPT ![c] = "sign"] /\ attempt' = [attempt EXCEPT ![c] = @ + 1]
          /\ UNCHANGED replies
      BY <1>3, <2>1 DEF AttemptFails
    <3> QED
      BY <3>1, <3>2
  <2>2. CASE ~AsksAgain(c)
    <3>1. ThingTypeOK'
      BY <1>3, <2>2 DEF AttemptFails, ThingTypeOK
    <3> QED
      BY <1>3, <2>2, <3>1 DEF AttemptFails
  <2> QED
    BY <2>1, <2>2
<1>4. ASSUME NEW c \in Calls, Respond(c) PROVE TypeInv'
  <2>1. PICK r \in replies : Return(c, r.version)
    BY <1>4 DEF Respond
  <2>2. r.version \in Nat
    BY <2>1 DEF Operation
  <2>3. ThingTypeOK'
    BY <1>4, <2>1, <2>2, ReturnType DEF Respond
  <2> QED
    BY <1>4, <2>3 DEF Respond
<1>5. ASSUME NEW c \in Calls, HandleDirect(c) PROVE TypeInv'
  <2>1. attempt[c] \in 1..2 /\ Handle(c, attempt[c]) /\ UNCHANGED directVars
    BY <1>5 DEF HandleDirect
  <2>2. ThingTypeOK'
    BY <2>1, HandleType
  <2> QED
    BY <2>1, <2>2
<1>6. ASSUME NEW op \in running, ServeDirect(op) PROVE TypeInv'
  <2>1. Answer(op) /\ replies' = replies \cup {op} /\ UNCHANGED <<overtaken, place, attempt>>
    BY <1>6 DEF ServeDirect
  <2>2. ThingTypeOK' /\ op \in Operation
    BY <2>1, AnswerType
  <2> QED
    BY <2>1, <2>2
<1> QED
  BY <1>1, <1>2, <1>3, <1>4, <1>5, <1>6 DEF DirectNext, DirectCallStep, SignFails, RequestFails

(* Every step keeps the types.                                             *)
LEMMA TypeStep == TypeInv /\ [Next]_vars => TypeInv'
<1>1. TypeInv /\ (Done \/ UNCHANGED vars) => TypeInv'
  BY ConnOther
     DEF Done, vars, TypeInv, ThingTypeOK, thingVars, answerVars, callerVars, outcomeVars, mqttVars, connVars,
         loopVars, brokerVars, tableVars, zenohVars, directVars
<1> QED
  BY <1>1, TypeMqtt, TypeZenoh, TypeDirect DEF Next

-----------------------------------------------------------------------------
(* When a request is sent.                                                 *)

Unsent == {"idle", "init", "connecting", "subscribe", "subscribing", "publish"}

Begun ==
  /\ \A c \in Calls : pc[c] \in Using \cup {"init", "listen"} => phase[c] = "begun"
  /\ \A c \in Calls : place[c] \in {"sign", "sent"} => phase[c] = "begun"
  /\ binding # "direct" => place \in [Calls -> {"idle"}]

(* What changes the thing is sent once.                                    *)
SentOnce == \A c \in Calls \ Reads : c \in requests \cup served =>
  /\ binding \in {"mqtt", "zenoh"} => pc[c] \notin Unsent
  /\ binding = "direct" => place[c] \in {"sent", "done"}

ServedOnce == \A c \in requests : phase[c] # "new" /\ (c \notin Reads => c \notin served)

Flowing == TypeInv /\ Begun /\ SentOnce /\ ServedOnce

(* At the beginning no call has been begun, sent or served.                *)
LEMMA FlowingInit == Init => Flowing
  BY TypeInit DEF Init, Flowing, Begun, SentOnce, ServedOnce, ThingInit, DirectInit, Using

(* Every step of the MQTT client serves only what was sent, and once.      *)
LEMMA FlowMqtt == Flowing /\ Mqtt => Flowing'
<1> SUFFICES ASSUME Flowing, Mqtt PROVE Flowing'
  OBVIOUS
<1>0. MqttNext /\ TypeInv' /\ binding = "mqtt" /\ binding' = binding /\ UNCHANGED directVars
  BY TypeMqtt DEF Mqtt, Flowing
<1>a. /\ pc \in [Calls -> {"idle", "init", "leave", "done"} \cup Using \cup Closing]
      /\ phase \in [Calls -> {"new", "begun", "returned", "failed"}]
      /\ \A c \in Calls : phase[c] = "new" => pc[c] = "idle"
      /\ requests \subseteq Calls
  BY <1>0 DEF Flowing, TypeInv, ConnInv, PcInv, Unstarted, ThingTypeOK
<1> USE <1>0, <1>a
       DEF Flowing, Begun, SentOnce, ServedOnce, Unsent, Using, Closing, Goto, Raise, Raises, Start,
           Return, ReturnAtOnce, Fail, TakeAnswer, Serve, Handle, Answer, thingVars, answerVars,
           callerVars,
           outcomeVars, directVars
<1>1. ASSUME NEW c \in Calls, StartMqtt(c) PROVE Flowing'
  BY <1>1 DEF StartMqtt
<1>2. ASSUME NEW c \in Calls, AcquireInit(c) PROVE Flowing'
  BY <1>2 DEF AcquireInit
<1>3. ASSUME NEW c \in Calls, Connected(c) PROVE Flowing'
  BY <1>3 DEF Connected
<1>4. ASSUME NEW c \in Calls, ConnectFails(c) PROVE Flowing'
  BY <1>4 DEF ConnectFails
<1>5. ASSUME NEW c \in Calls, AcquireSubscribe(c) PROVE Flowing'
  BY <1>5 DEF AcquireSubscribe
<1>6. ASSUME NEW c \in Calls, Subscribed(c) PROVE Flowing'
  BY <1>6 DEF Subscribed
<1>7. ASSUME NEW c \in Calls, SubscribeFails(c) PROVE Flowing'
  BY <1>7 DEF SubscribeFails
<1>8. ASSUME NEW c \in Calls, Published(c) PROVE Flowing'
  BY <1>8 DEF Published
<1>9. ASSUME NEW c \in Calls, PublishFails(c) PROVE Flowing'
  BY <1>9 DEF PublishFails
<1>10. ASSUME NEW c \in Calls, Take(c) \/ TimeOut(c) PROVE Flowing'
  BY <1>10 DEF Take, TimeOut
<1>11. ASSUME NEW c \in Calls, AcquireLeave(c) PROVE Flowing'
  BY <1>11 DEF AcquireLeave, HasAny, TellLoop
<1>12. ASSUME NEW c \in Calls, LoopStopped(c) \/ StopTimesOut(c) PROVE Flowing'
  BY <1>12 DEF LoopStopped, StopTimesOut
<1>13. ASSUME NEW c \in Calls, Disconnected(c) PROVE Flowing'
  BY <1>13 DEF Disconnected
<1>14. ASSUME NEW l \in Calls, DeliverTimesOut(l) \/ DeliverMessage(l) \/ DeliverFails(l) PROVE Flowing'
  BY <1>14 DEF DeliverTimesOut, DeliverMessage, DeliverFails
<1>15. ASSUME NEW l \in Calls, Reconnected(l) PROVE Flowing'
  BY <1>15 DEF Reconnected, Resubscribes
<1>16. ASSUME NEW l \in Calls, Resubscribed(l) \/ ReconnectFails(l) PROVE Flowing'
  BY <1>16 DEF Resubscribed, ReconnectFails
<1>17. ASSUME NEW c \in Calls, HandleMqtt(c) PROVE Flowing'
  BY <1>17 DEF HandleMqtt
<1>18. ASSUME ConnectionLost \/ Lost PROVE Flowing'
  BY <1>18 DEF ConnectionLost, Lost
<1>19. ASSUME NEW op \in running, ServeMqtt(op) PROVE Flowing'
  BY <1>19 DEF ServeMqtt
<1> QED
  BY <1>1, <1>2, <1>3, <1>4, <1>5, <1>6, <1>7, <1>8, <1>9, <1>10, <1>11, <1>12, <1>13, <1>14,
     <1>15, <1>16, <1>17, <1>18, <1>19
     DEF MqttNext, MqttCallStep, LoopStep

(* So does every step of the Zenoh client.                                 *)
LEMMA FlowZenoh == Flowing /\ Zenoh => Flowing'
<1> SUFFICES ASSUME Flowing, Zenoh PROVE Flowing'
  OBVIOUS
<1>0. ZenohNext /\ TypeInv' /\ binding = "zenoh" /\ binding' = binding /\ UNCHANGED directVars
  BY TypeZenoh DEF Zenoh, Flowing
<1>a. /\ pc \in [Calls -> {"idle", "init", "listen", "done"}]
      /\ phase \in [Calls -> {"new", "begun", "returned", "failed"}]
      /\ \A c \in Calls : phase[c] = "new" => pc[c] = "idle"
      /\ requests \subseteq Calls
  BY <1>0 DEF Flowing, TypeInv, ConnInv, PcInv, Unstarted, ThingTypeOK
<1> USE <1>0, <1>a
       DEF Flowing, Begun, SentOnce, ServedOnce, Unsent, Using, Move, Start, Return, ReturnAtOnce,
           Fail, TakeAnswer, Serve, Handle, Answer, thingVars, answerVars, callerVars, outcomeVars,
           directVars
<1>1. ASSUME NEW c \in Calls, StartZenoh(c) PROVE Flowing'
  BY <1>1 DEF StartZenoh
<1>2. ASSUME NEW c \in Calls, Request(c) PROVE Flowing'
  BY <1>2 DEF Request
<1>3. ASSUME NEW c \in Calls, OpenFails(c) PROVE Flowing'
  BY <1>3 DEF OpenFails
<1>4. ASSUME NEW c \in Calls, TakeZenoh(c) \/ GiveUp(c) PROVE Flowing'
  BY <1>4 DEF TakeZenoh, GiveUp, End
<1>5. ASSUME NEW c \in Calls, HandleZenoh(c) PROVE Flowing'
  BY <1>5 DEF HandleZenoh
<1>6. ASSUME Receive \/ Deliver \/ LostByRouter PROVE Flowing'
  BY <1>6 DEF Receive, Deliver, LostByRouter
<1>7. ASSUME NEW op \in running, ServeZenoh(op) PROVE Flowing'
  BY <1>7 DEF ServeZenoh
<1> QED
  BY <1>1, <1>2, <1>3, <1>4, <1>5, <1>6, <1>7
     DEF ZenohNext, ZenohCallStep

(* So does every step of a client that is answered directly.               *)
LEMMA FlowDirect == Flowing /\ Direct => Flowing'
<1> SUFFICES ASSUME Flowing, Direct PROVE Flowing'
  OBVIOUS
<1>0. DirectNext /\ TypeInv' /\ binding = "direct" /\ binding' = binding /\ UNCHANGED pc
  BY TypeDirect DEF Direct, Flowing
<1>a. /\ pc \in [Calls -> {"idle"}]
      /\ phase \in [Calls -> {"new", "begun", "returned", "failed"}]
      /\ place \in [Calls -> {"idle", "sign", "sent", "done"}]
      /\ requests \subseteq Calls
  BY <1>0 DEF Flowing, TypeInv, ConnInv, PcInv, Unstarted, ThingTypeOK
<1> USE <1>0, <1>a
       DEF Flowing, Begun, SentOnce, ServedOnce, Using, At, Start, Return, Fail, Handle, Answer, answerVars,
           thingVars, callerVars, outcomeVars
<1>1. ASSUME NEW c \in Calls, StartDirect(c) PROVE Flowing'
  BY <1>1 DEF StartDirect
<1>2. ASSUME NEW c \in Calls, Send(c) PROVE Flowing'
  BY <1>2 DEF Send
<1>3. ASSUME NEW c \in Calls, NEW from \in {"sign", "sent"}, AttemptFails(c, from) PROVE Flowing'
  BY <1>3, CallsAssumption, DirectAssumption DEF AttemptFails, AsksAgain
<1>4. ASSUME NEW c \in Calls, Respond(c) PROVE Flowing'
  BY <1>4 DEF Respond
<1>5. ASSUME NEW c \in Calls, HandleDirect(c) PROVE Flowing'
  BY <1>5 DEF HandleDirect, directVars
<1>6. ASSUME NEW op \in running, ServeDirect(op) PROVE Flowing'
  BY <1>6 DEF ServeDirect
<1> QED
  BY <1>1, <1>2, <1>3, <1>4, <1>5, <1>6
     DEF DirectNext, DirectCallStep, SignFails, RequestFails

(* So does every step.                                                     *)
LEMMA FlowingStep == Flowing /\ [Next]_vars => Flowing'
<1>1. Flowing /\ (Done \/ UNCHANGED vars) => Flowing'
  BY TypeStep
     DEF Next, Done, vars, Flowing, Begun, SentOnce, ServedOnce, thingVars, answerVars, callerVars,
         outcomeVars, directVars
<1> QED
  BY <1>1, FlowMqtt, FlowZenoh, FlowDirect DEF Next

(* What the thing is about: handlers that have not returned have found or  *)
(* done what they answer.                                                  *)
RunningInv ==
  /\ completed <= version
  /\ \A op \in running :
       /\ op.version <= version
       /\ op.of \notin Reads => op.of \in served
       /\ op.of \in Writes => written[op.of] = op.version
  /\ \A op, other \in running : op.of = other.of /\ op.of \notin Reads => op = other

FlowInv == Flowing /\ RunningInv

(* What changes the thing is the step of a handler.                        *)
LEMMA ThingSteps ==
  ASSUME Flowing, [Next]_vars
  PROVE  \/ UNCHANGED <<version, served, written, running, completed>>
         \/ \E c \in Calls, n \in 1..2 : Handle(c, n)
         \/ \E op \in running : Answer(op)
<1> USE DEF thingVars, answerVars
<1>1. CASE Mqtt
  BY <1>1
     DEF Mqtt, MqttNext, StartMqtt, MqttCallStep, AcquireInit, Connected, ConnectFails,
         AcquireSubscribe, Subscribed, SubscribeFails, Published, PublishFails, Take, TimeOut,
         AcquireLeave, LoopStopped, StopTimesOut, Disconnected, LoopStep, DeliverTimesOut,
         DeliverMessage, DeliverFails, Reconnected, Resubscribed, ReconnectFails, ConnectionLost,
         Lost, HandleMqtt, ServeMqtt, Serve
<1>2. CASE Zenoh
  BY <1>2
     DEF Zenoh, ZenohNext, StartZenoh, ZenohCallStep, Request, OpenFails, TakeZenoh, GiveUp, End,
         HandleZenoh, ServeZenoh, Serve, Receive, Deliver, LostByRouter
<1>3. CASE Direct
  <2>1. \A c \in Calls : attempt[c] \in 1..2
    BY DEF Flowing, TypeInv
  <2> QED
    BY <1>3, <2>1
       DEF Direct, DirectNext, DirectCallStep, StartDirect, Send, SignFails, RequestFails,
           AttemptFails, Respond, HandleDirect, ServeDirect
<1>4. CASE Done \/ UNCHANGED vars
  BY <1>4 DEF Done, vars
<1> QED
  BY <1>1, <1>2, <1>3, <1>4 DEF Next

(* A handler sets the next value, or finds the one there is.               *)
LEMMA RunningHandle ==
  ASSUME Flowing, RunningInv, NEW c \in Calls, NEW n \in 1..2, Handle(c, n)
  PROVE  RunningInv'
<1> DEFINE new == [of |-> c, attempt |-> n, version |-> VersionAfter(c)]
<1>1. /\ version \in Nat /\ completed \in Nat /\ written \in [Writes -> Nat]
      /\ \A op \in running : op.version \in Nat /\ op.of \in Calls
  BY DEF Flowing, TypeInv, ThingTypeOK, Operation
<1>2. (c \notin Reads => c \notin served) /\ (c \in Writes => c \notin Reads)
  BY CallsAssumption DEF Flowing, ServedOnce, Handle
<1>3. /\ version' = VersionAfter(c) /\ version' \in Nat /\ version <= version' /\ completed' = completed
      /\ served' = IF c \in Reads THEN served ELSE served \cup {c}
      /\ c \in Writes => written'[c] = version'
      /\ \A d \in Writes : d # c => written'[d] = written[d]
      /\ c \notin Writes => written' = written
  BY <1>1 DEF Handle, VersionAfter
<1>4. running' = running \cup {new} /\ new.of = c /\ new.version = version'
  BY <1>3 DEF Handle
<1> HIDE DEF new
<1>5. \A op \in running : op.of = c => c \in Reads
  BY <1>2 DEF RunningInv
<1>6. completed' <= version'
  BY <1>1, <1>3 DEF RunningInv
<1>7. ASSUME NEW op \in running'
      PROVE  /\ op.version <= version'
             /\ op.of \notin Reads => op.of \in served'
             /\ op.of \in Writes => written'[op.of] = op.version
  <2>1. CASE op = new
    BY <1>3, <1>4, <2>1
  <2>2. CASE op \in running
    <3>1. op.version <= version'
      BY <1>1, <1>3, <2>2 DEF RunningInv
    <3>2. op.of \in Writes => op.of # c
      BY <1>2, <1>5, <2>2
    <3> QED
      BY <1>3, <2>2, <3>1, <3>2 DEF RunningInv
  <2> QED
    BY <1>4, <1>7, <2>1, <2>2
<1>8. ASSUME NEW op \in running', NEW other \in running', op.of = other.of, op.of \notin Reads
      PROVE  op = other
  BY <1>4, <1>5, <1>8 DEF RunningInv
<1> QED
  BY <1>6, <1>7, <1>8 DEF RunningInv

(* So does every step.                                                     *)
LEMMA FlowStep == FlowInv /\ [Next]_vars => FlowInv'
<1> SUFFICES ASSUME FlowInv, [Next]_vars PROVE FlowInv'
  OBVIOUS
<1>1. Flowing'
  BY FlowingStep DEF FlowInv
<1>2. CASE UNCHANGED <<version, served, written, running, completed>>
  BY <1>1, <1>2 DEF FlowInv, RunningInv
<1>3. ASSUME NEW c \in Calls, NEW n \in 1..2, Handle(c, n) PROVE FlowInv'
  BY <1>1, <1>3, RunningHandle DEF FlowInv
<1>4. ASSUME NEW op \in running, Answer(op) PROVE FlowInv'
  <2>1. /\ running' \subseteq running /\ completed' \in {completed, op.version}
        /\ UNCHANGED <<version, served, written>>
    BY <1>4 DEF Answer
  <2> QED
    BY <1>1, <2>1 DEF FlowInv, RunningInv
<1> QED
  BY <1>2, <1>3, <1>4, ThingSteps DEF FlowInv

(* At the beginning no handler runs.                                       *)
LEMMA FlowInit == Init => FlowInv
  BY FlowingInit DEF Init, ThingInit, FlowInv, RunningInv

-----------------------------------------------------------------------------
(* What the messages under way say.                                        *)

effectVars == <<version, served, written, answerVars>>

USE DEF effectVars, answerVars

(* No handler runs for the call.                                           *)
Silent(c) == \A op \in running : op.of # c

Genuine(m) ==
  /\ m.version <= version
  /\ m.topic = "ack" =>
       /\ m.of \in Writes \cap served /\ Silent(m.of)
       /\ written[m.of] = m.version /\ m.version <= completed
  /\ m.topic = "result" => m.of \in Invocations \cap served /\ Silent(m.of)

Pending == Elems(samples) \cup Elems(stream)

(* The value is as new as v, or one that a handler came to its end with    *)
(* late.                                                                   *)
Recent(v, value) == v <= value \/ value \in overtaken

(* Messages arrive in the order in which handlers returned, and none that  *)
(* is older than what was acknowledged, unless it is known for that.       *)
InOrder ==
  /\ Sorted(stream, overtaken) /\ Sorted(samples, overtaken)
  /\ \A m \in Elems(stream) : Before(samples, m, overtaken)
  /\ binding # "zenoh" => samples = <<>>
  /\ binding = "direct" => Elems(stream) = {} /\ overtaken = {}
  /\ \A m \in Pending : Recent(acked, m.version)
  /\ acked <= completed /\ \A c \in Reads : floor[c] <= acked

(* A message in the table came before those to come, and is as new as the  *)
(* reads that had asked before it came expect.                             *)
TableInv ==
  \A e \in Elems(messages) :
    /\ Genuine(e.msg)
    /\ \A m \in Pending : Follows(e.msg, m, overtaken)
    /\ \A c \in e.asked : phase[c] # "new" /\ Recent(floor[c], e.msg.version)

RepliesInv ==
  /\ \A op \in running :
       binding = "direct" /\ op.of \in Reads => phase[op.of] # "new" /\ floor[op.of] <= op.version
  /\ \A r \in replies :
       /\ r.version <= version
       /\ r.of \in Reads => phase[r.of] # "new" /\ floor[r.of] <= r.version
       /\ r.of \in Writes => r.of \in served /\ written[r.of] = r.version /\ r.version <= completed
       /\ r.of \notin Reads => r.of \in served /\ Silent(r.of)

DataInv == (\A m \in Pending : Genuine(m)) /\ InOrder /\ TableInv /\ RepliesInv

(* The types on which the invariant of the messages rests.                 *)
LEMMA DataTypes ==
  TypeInv => /\ Pending \subseteq Message /\ Elems(messages) \subseteq Entry
             /\ Elems(stream) \subseteq Message /\ Elems(samples) \subseteq Message
  BY DEF TypeInv, Pending, Elems

(* At the beginning there are no messages.                                 *)
LEMMA DataInit == Init => DataInv
<1> SUFFICES ASSUME Init PROVE DataInv
  OBVIOUS
<1>1. /\ stream = <<>> /\ samples = <<>> /\ messages = <<>> /\ replies = {}
      /\ acked = 0 /\ completed = 0 /\ running = {} /\ overtaken = {} /\ floor = [c \in Reads |-> 0]
  BY DEF Init, TableInit, ZenohInit, DirectInit, ThingInit
<1> QED
  BY <1>1, EmptyElems DEF DataInv, Pending, InOrder, TableInv, RepliesInv

(* Nothing is added, and what the thing and the callers know is the same.  *)
LEMMA DataKept ==
  ASSUME TypeInv, DataInv,
         UNCHANGED <<binding, effectVars, acked, floor, replies>>,
         \A c \in Calls : phase'[c] = "new" => phase[c] = "new",
         Elems(stream') \subseteq Elems(stream), Sorted(stream', overtaken'),
         Elems(samples') \subseteq Elems(samples), Sorted(samples', overtaken'),
         binding # "zenoh" => samples' = samples,
         Elems(messages') \subseteq Elems(messages)
  PROVE  DataInv'
<1>1. \A e \in Elems(messages) : e.asked \subseteq Calls
  BY DataTypes DEF Entry, Calls
<1>2. \A r \in replies \cup running : r.of \in Calls
  BY DEF TypeInv, ThingTypeOK, Operation
<1> QED
  BY <1>1, <1>2 DEF DataInv, Genuine, Silent, Pending, InOrder, Before, Recent, TableInv, RepliesInv

(* A call that is begun has been promised nothing yet.                     *)
LEMMA DataStart ==
  ASSUME FlowInv, DataInv, NEW c \in Calls, Start(c),
         UNCHANGED <<binding, effectVars, replies, stream, samples, messages>>
  PROVE  DataInv'
<1>1. \A e \in Elems(messages) : e.asked \subseteq Reads
  BY DataTypes DEF FlowInv, Flowing, Entry
<1>2. \A r \in replies \cup running : r.of \in Calls
  BY DEF FlowInv, Flowing, TypeInv, ThingTypeOK, Operation
<1>3. /\ phase[c] = "new" /\ acked' = acked /\ acked \in Nat
      /\ \A d \in Calls : phase[d] # "new" => phase'[d] # "new" /\ d # c
      /\ \A d \in Reads : d # c => floor'[d] = floor[d]
      /\ \A d \in Reads : floor'[d] <= acked
  BY DEF Start, FlowInv, Flowing, TypeInv, ThingTypeOK, DataInv, InOrder
<1>4. InOrder'
  BY <1>3 DEF DataInv, InOrder, Before, Pending, Recent
<1>5. TableInv'
  BY <1>1, <1>3 DEF DataInv, TableInv, Genuine, Silent, Pending, Recent, Calls
<1>6. RepliesInv'
  BY <1>2, <1>3 DEF DataInv, RepliesInv, Silent, Calls
<1> QED
  BY <1>4, <1>5, <1>6 DEF DataInv, Pending, Genuine, Silent

(* A call takes an answer that is genuine.                                 *)
LEMMA AnswerGenuine ==
  ASSUME FlowInv, DataInv, NEW c \in Calls, TakeAnswer(c)
  PROVE  \E v \in Nat :
           /\ Return(c, v) /\ v <= version
           /\ c \in Reads => Recent(floor[c], v)
           /\ c \notin Reads => c \in served /\ Silent(c)
           /\ c \in Writes =>
                written[c] = v /\ v <= completed /\ \A m \in Pending : Recent(v, m.version)
<1>1. PICK i \in DOMAIN messages : Mine(c, messages[i]) /\ Return(c, messages[i].msg.version)
  BY DEF TakeAnswer
<1> DEFINE e == messages[i]
<1>2. e \in Elems(messages) /\ e \in Entry
  BY <1>1, DataTypes DEF Elems, FlowInv, Flowing
<1>3. e.msg.version \in Nat
  BY <1>2 DEF Entry, Message
<1>4. Genuine(e.msg) /\ (\A m \in Pending : Follows(e.msg, m, overtaken))
      /\ (\A d \in e.asked : Recent(floor[d], e.msg.version))
  BY <1>2 DEF DataInv, TableInv
<1>5. c \in Reads => c \in e.asked
  BY <1>1 DEF Mine
<1>6. c \notin Reads => e.msg.of = c /\ e.msg.topic = TopicOf(c)
  BY <1>1 DEF Mine
<1>7. c \in Writes => c \notin Reads /\ TopicOf(c) = "ack"
  BY CallsAssumption DEF TopicOf
<1>8. c \notin Reads /\ c \notin Writes => c \in Invocations /\ TopicOf(c) = "result"
  BY DEF TopicOf, Calls
<1> HIDE DEF e
<1> QED
  BY <1>1, <1>3, <1>4, <1>5, <1>6, <1>7, <1>8 DEF Genuine, Follows, Recent, e

(* A message that is taken is one of those stored: the others stay         *)
(* genuine.                                                                *)
LEMMA DataTake ==
  ASSUME FlowInv, DataInv, NEW c \in Calls, TakeAnswer(c),
         UNCHANGED <<binding, effectVars, floor, replies, stream, samples>>,
         Elems(messages') \subseteq Elems(messages)
  PROVE  DataInv'
<1>1. PICK v \in Nat :
        /\ Return(c, v)
        /\ c \in Writes => v <= completed /\ \A m \in Pending : Recent(v, m.version)
  BY AnswerGenuine
<1>2. \A e \in Elems(messages) : e.asked \subseteq Calls
  BY DataTypes DEF FlowInv, Flowing, Entry, Calls
<1>3. \A r \in replies \cup running : r.of \in Calls
  BY DEF FlowInv, Flowing, TypeInv, ThingTypeOK, Operation
<1>4. \A d \in Calls : phase[d] # "new" => phase'[d] # "new"
  BY <1>1 DEF Return, FlowInv, Flowing, TypeInv, ThingTypeOK
<1>5. /\ acked' = acked \/ (acked' = v /\ c \in Writes)
      /\ acked <= acked' /\ acked \in Nat /\ completed \in Nat
  BY <1>1 DEF Return, FlowInv, Flowing, TypeInv, ThingTypeOK
<1>6. floor \in [Reads -> Nat]
  BY DEF FlowInv, Flowing, TypeInv, ThingTypeOK
<1>7. InOrder'
  BY <1>1, <1>5, <1>6 DEF DataInv, InOrder, Before, Pending, Recent
<1> QED
  BY <1>2, <1>3, <1>4, <1>7 DEF DataInv, TableInv, RepliesInv, Genuine, Silent, Pending, Recent

(* What the answers of an operation carry.                                 *)
LEMMA AnswersElems ==
  ASSUME TypeInv, NEW op \in running
  PROVE  /\ \A m \in Elems(Answers(op)) :
              /\ m \in Message /\ m.of = op.of /\ m.version = op.version
              /\ m.topic = "ack" => op.of \in Writes
              /\ m.topic = "result" => op.of \in Invocations
         /\ \A late : Sorted(Answers(op), late)
<1> DEFINE Bearing(t) == [topic |-> t, of |-> op.of, version |-> op.version]
<1>1. op.version \in Nat /\ op.of \in Calls
  BY DEF TypeInv, ThingTypeOK, Operation
<1>2. Elems(Answers(op)) \subseteq IF op.of \in Writes THEN {Bearing("update"), Bearing("ack")}
                                 ELSE {Bearing(TopicOf(op.of))}
  BY DEF Elems, Answers
<1>3. op.of \notin Writes =>
        TopicOf(op.of) \in {"update", "result"} /\ (TopicOf(op.of) = "result" => op.of \in Invocations)
  BY <1>1 DEF TopicOf, Calls
<1>4. \A m \in Elems(Answers(op)) :
        /\ m.of = op.of /\ m.version = op.version
        /\ m.topic = "ack" => op.of \in Writes
        /\ m.topic = "result" => op.of \in Invocations
  BY <1>2, <1>3
<1>5. Answers(op) \in Seq(Message)
  BY AnswersType
<1>6. \A m \in Elems(Answers(op)) : m \in Message
  BY <1>5 DEF Elems
<1>7. \A i, j \in DOMAIN Answers(op) : Answers(op)[i].version <= Answers(op)[j].version
  BY <1>1, <1>4 DEF Elems
<1> QED
  BY <1>4, <1>6, <1>7 DEF Sorted, Follows

(* A handler that finds or sets the value leaves as it was what was said   *)
(* of messages.                                                            *)
LEMMA DataHandle ==
  ASSUME FlowInv, DataInv, NEW c \in Calls, NEW n \in 1..2, Handle(c, n),
         UNCHANGED <<binding, stream, samples, messages, replies>>
  PROVE  DataInv'
<1> DEFINE new == [of |-> c, attempt |-> n, version |-> VersionAfter(c)]
<1>1. /\ version \in Nat /\ completed \in Nat /\ acked \in Nat /\ written \in [Writes -> Nat]
      /\ floor \in [Reads -> Nat] /\ completed <= version
      /\ \A op \in running \cup replies : op.version \in Nat /\ op.of \in Calls
  BY DEF FlowInv, Flowing, RunningInv, TypeInv, ThingTypeOK, Operation
<1>2. /\ phase[c] # "new" /\ (c \notin Reads => c \notin served)
      /\ (c \in Writes \cup Invocations => c \notin Reads)
  BY CallsAssumption DEF FlowInv, Flowing, ServedOnce, Handle
<1>3. /\ version' \in Nat /\ version <= version'
      /\ served \subseteq served' /\ (\A d \in Writes \cap served : written'[d] = written[d])
      /\ UNCHANGED <<completed, overtaken, phase, acked, floor>>
  BY <1>1, <1>2 DEF Handle, VersionAfter, callerVars, outcomeVars
<1>4. running' = running \cup {new} /\ new.of = c /\ new.version = version'
  BY <1>3 DEF Handle
<1> HIDE DEF new
<1>5. \A d \in Calls : Silent(d) /\ d \in served /\ d \notin Reads => Silent(d)'
  BY <1>2, <1>4 DEF Silent
<1>6. ASSUME NEW m \in Message, Genuine(m) PROVE Genuine(m)'
  <2>1. m.version \in Nat /\ m.of \in Calls
    BY DEF Message
  <2>2. m.version <= version'
    BY <1>1, <1>3, <1>6, <2>1 DEF Genuine
  <2>3. m.of \in Writes \cup Invocations => m.of \notin Reads
    BY CallsAssumption
  <2> QED
    BY <1>3, <1>5, <1>6, <2>1, <2>2, <2>3 DEF Genuine
<1>7. Pending \subseteq Message /\ \A e \in Elems(messages) : e.msg \in Message
  BY DataTypes DEF FlowInv, Flowing, Entry
<1>8. \A m \in Pending' : Genuine(m)'
  BY <1>6, <1>7 DEF Pending, DataInv
<1>9. InOrder'
  BY <1>3 DEF DataInv, InOrder, Pending, Before, Recent
<1>10. TableInv'
  BY <1>3, <1>6, <1>7 DEF DataInv, TableInv, Pending, Recent
<1>11. ASSUME NEW op \in running', binding = "direct", op.of \in Reads
       PROVE  phase[op.of] # "new" /\ floor[op.of] <= op.version
  <2>1. CASE op \in running
    BY <1>11, <2>1 DEF DataInv, RepliesInv
  <2>2. CASE op = new
    <3>1. floor[c] <= acked /\ acked <= completed
      BY <1>4, <1>11, <2>2 DEF DataInv, InOrder
    <3>2. c \in Reads /\ floor[c] \in Nat
      BY <1>1, <1>4, <1>11, <2>2
    <3>3. floor[c] <= version'
      BY <1>1, <1>3, <3>1, <3>2
    <3> QED
      BY <1>2, <1>4, <2>2, <3>3
  <2> QED
    BY <1>4, <1>11, <2>1, <2>2
<1>12. ASSUME NEW r \in replies
       PROVE  /\ r.version <= version'
              /\ r.of \in Reads => phase[r.of] # "new" /\ floor[r.of] <= r.version
              /\ r.of \in Writes =>
                   r.of \in served' /\ written'[r.of] = r.version /\ r.version <= completed
              /\ r.of \notin Reads => r.of \in served' /\ Silent(r.of)'
  <2>1. r.version <= version'
    BY <1>1, <1>3, <1>12 DEF DataInv, RepliesInv
  <2> QED
    BY <1>1, <1>3, <1>5, <1>12, <2>1 DEF DataInv, RepliesInv
<1>13. RepliesInv'
  BY <1>3, <1>11, <1>12 DEF RepliesInv
<1> QED
  BY <1>8, <1>9, <1>10, <1>13 DEF DataInv

(* What the return of a handler does to what was said of messages.         *)
LEMMA AnswerGrows ==
  ASSUME FlowInv, DataInv, NEW op \in running, Answer(op)
  PROVE  /\ UNCHANGED <<version, served, written, phase, acked, floor>>
         /\ op.version \in Nat /\ op.of \in Calls /\ op.version <= version
         /\ running' \subseteq running
         /\ completed \in Nat /\ completed' \in Nat /\ completed <= completed' /\ completed' <= version
         /\ op.of \in Writes => op.version <= completed'
         /\ op.of \notin Reads => op.of \in served /\ Silent(op.of)'
         /\ op.of \in Writes => written[op.of] = op.version
         /\ \A m : Genuine(m) /\ m.version \in Nat => Genuine(m)'
<1>1. /\ version \in Nat /\ completed \in Nat /\ completed <= version
      /\ \A o \in running : o.version \in Nat /\ o.of \in Calls
  BY DEF FlowInv, Flowing, RunningInv, TypeInv, ThingTypeOK, Operation
<1>2. /\ op.version <= version
      /\ op.of \notin Reads => op.of \in served /\ \A o \in running : o.of = op.of => o = op
      /\ op.of \in Writes => written[op.of] = op.version
  BY DEF FlowInv, RunningInv
<1>3. /\ running' = running \ {op}
      /\ completed' = IF op.of \in Writes /\ op.version > completed THEN op.version ELSE completed
      /\ UNCHANGED <<version, served, written, phase, acked, floor>>
  BY DEF Answer, callerVars, outcomeVars
<1>4. /\ completed' \in Nat /\ completed <= completed' /\ completed' <= version
      /\ op.of \in Writes => op.version <= completed'
  BY <1>1, <1>2, <1>3
<1>5. op.of \notin Reads => Silent(op.of)'
  BY <1>2, <1>3 DEF Silent
<1>6. \A m : Genuine(m) /\ m.version \in Nat => Genuine(m)'
  BY <1>1, <1>3, <1>4 DEF Genuine, Silent
<1> QED
  BY <1>1, <1>2, <1>3, <1>4, <1>5, <1>6

(* The answers to a call are as new as what was acknowledged, or are known *)
(* to be late.                                                             *)
LEMMA DataServe ==
  ASSUME FlowInv, DataInv, NEW op \in running, Serve(op),
         UNCHANGED <<binding, messages, samples, replies>>,
         stream' \in Seq(Message), binding # "direct"
  PROVE  DataInv'
<1>0. Answer(op) /\ stream' = stream \o Answers(op)
      /\ overtaken' = IF op.version < completed THEN overtaken \cup {op.version} ELSE overtaken
  BY DEF Serve
<1>1. /\ Elems(stream') = Elems(stream) \cup Elems(Answers(op))
      /\ Sorted(stream, overtaken') /\ (\A m \in Elems(Answers(op)) : Before(stream, m, overtaken'))
           => Sorted(stream', overtaken')
  <2>1. stream \in Seq(Message) /\ Answers(op) \in Seq(Message) /\ Sorted(Answers(op), overtaken')
    BY AnswersElems, AnswersType DEF FlowInv, Flowing, TypeInv
  <2>2. \A late :
          /\ Elems(stream \o Answers(op)) = Elems(stream) \cup Elems(Answers(op))
          /\ Sorted(stream, late) /\ Sorted(Answers(op), late)
               /\ (\A m \in Elems(Answers(op)) : Before(stream, m, late))
               => Sorted(stream \o Answers(op), late)
    BY <2>1, ConcatElems
  <2>3. stream' = stream \o Answers(op)
    BY <1>0
  <2> HIDE DEF Elems, Sorted, Before, Answers
  <2> QED
    BY <2>1, <2>2, <2>3
<1>2. \A m \in Pending : Genuine(m) /\ m.version \in Nat
  BY DataTypes DEF DataInv, FlowInv, Flowing, Message
<1>3. \A m \in Elems(Answers(op)) :
         m.version = op.version /\ m.of = op.of /\ (m.topic = "ack" => op.of \in Writes)
           /\ (m.topic = "result" => op.of \in Invocations)
  BY AnswersElems DEF FlowInv, Flowing
<1>4. overtaken \subseteq overtaken' /\ \A v \in Nat : v <= completed => v <= op.version
        \/ op.version \in overtaken'
  BY <1>0, AnswerGrows
<1>5. \A m \in Elems(Answers(op)) : \A x \in Pending : Follows(x, m, overtaken')
  BY <1>2, <1>3, <1>4 DEF Genuine, Follows
<1>6. \A m : Genuine(m) /\ m.version \in Nat => Genuine(m)'
  BY <1>0, AnswerGrows
<1>7. \A m \in Elems(Answers(op)) : Genuine(m)'
  BY <1>0, <1>3, AnswerGrows, CallsAssumption DEF Genuine
<1>8. /\ UNCHANGED <<version, served, written, phase, acked, floor>>
      /\ acked \in Nat /\ completed \in Nat /\ completed' \in Nat /\ completed <= completed'
      /\ acked <= completed
  BY <1>0, AnswerGrows DEF FlowInv, Flowing, TypeInv, ThingTypeOK, DataInv, InOrder
<1>9. Pending' = Pending \cup Elems(Answers(op)) /\ Elems(stream) \subseteq Pending
  BY <1>1 DEF Pending
<1>10. InOrder'
  <2>1. Sorted(stream, overtaken') /\ Sorted(samples, overtaken')
    BY <1>4 DEF DataInv, InOrder, Sorted, Follows
  <2>2. Sorted(stream', overtaken')
    BY <1>1, <1>5, <1>9, <2>1 DEF Before
  <2>3. \A m \in Elems(stream') : Before(samples', m, overtaken')
    BY <1>1, <1>4, <1>5 DEF DataInv, InOrder, Before, Pending, Follows
  <2>4. \A m \in Pending' : acked <= m.version \/ m.version \in overtaken'
    BY <1>3, <1>4, <1>8, <1>9 DEF DataInv, InOrder, Recent
  <2>5. acked' <= completed'
    BY <1>8
  <2> QED
    BY <2>1, <2>2, <2>3, <2>4, <2>5, <1>8 DEF DataInv, InOrder, Recent
<1>11. TableInv'
  <2>1. \A e \in Elems(messages) : e.msg.version \in Nat
    BY DataTypes DEF FlowInv, Flowing, Entry, Message
  <2>2. \A e \in Elems(messages) : \A m \in Pending' : Follows(e.msg, m, overtaken')
    BY <1>3, <1>4, <1>9, <2>1 DEF DataInv, TableInv, Genuine, Follows
  <2>3. \A e \in Elems(messages) : Genuine(e.msg)'
    BY <1>6, <2>1 DEF DataInv, TableInv
  <2> QED
    BY <1>4, <1>8, <2>2, <2>3 DEF DataInv, TableInv, Recent
<1>12. RepliesInv'
  <2>1. \A r \in replies : r.version \in Nat
    BY DEF FlowInv, Flowing, TypeInv, Operation
  <2>2. running' \subseteq running
    BY <1>0, AnswerGrows
  <2> QED
    BY <1>8, <2>1, <2>2 DEF DataInv, RepliesInv, Silent
<1> QED
  BY <1>2, <1>6, <1>7, <1>9, <1>10, <1>11, <1>12 DEF DataInv

(* The oldest message that is pending comes to the table.                  *)
LEMMA DataDeliver ==
  ASSUME FlowInv, DataInv, NEW m \in Pending, NEW set \in SUBSET Reads, NewMessage(m, set),
         \A c \in set : phase[c] # "new",
         UNCHANGED <<binding, effectVars, acked, floor, phase, replies>>,
         Elems(stream') \subseteq Elems(stream), Sorted(stream', overtaken'),
         Elems(samples') \subseteq Elems(samples), Sorted(samples', overtaken'),
         binding # "zenoh" => samples' = samples,
         \A x \in Pending' : Follows(m, x, overtaken)
  PROVE  DataInv'
<1>1. m \in Message /\ m.version \in Nat /\ Genuine(m)
  BY DataTypes DEF FlowInv, Flowing, Message, DataInv
<1>2. Elems(messages') \subseteq Elems(messages) \cup {[msg |-> m, asked |-> set]}
  <2>1. CASE UNCHANGED messages
    BY <2>1
  <2>2. ASSUME NEW kept \in {messages, <<>>}, messages' = Append(kept, [msg |-> m, asked |-> set])
        PROVE  Elems(messages') \subseteq Elems(messages) \cup {[msg |-> m, asked |-> set]}
    <3>1. [msg |-> m, asked |-> set] \in Entry
      BY <1>1 DEF Entry
    <3>2. kept \in Seq(Entry) /\ Elems(kept) \subseteq Elems(messages)
      BY <2>2, NoMessages, EmptyElems DEF FlowInv, Flowing, TypeInv
    <3> QED
      BY <2>2, <3>1, <3>2, AppendElems
  <2> QED
    BY <2>1, <2>2 DEF NewMessage
<1>3. \A c \in set : Recent(floor[c], m.version)
  <2> TAKE c \in set
  <2>1. Recent(acked, m.version) /\ floor[c] <= acked
    BY DEF DataInv, InOrder
  <2>2. acked \in Nat /\ floor[c] \in Nat
    BY DEF FlowInv, Flowing, TypeInv, ThingTypeOK
  <2> QED
    BY <1>1, <2>1, <2>2 DEF Recent
<1>4. \A e \in Elems(messages') : e \in Elems(messages) \/ e = [msg |-> m, asked |-> set]
  BY <1>2
<1>5. Pending' \subseteq Pending
  BY DEF Pending
<1>6. TableInv'
  BY <1>1, <1>3, <1>4, <1>5 DEF DataInv, TableInv, Genuine, Silent, Recent
<1>7. InOrder'
  BY <1>5 DEF DataInv, InOrder, Before, Pending, Recent
<1>8. \A x \in Pending' : Genuine(x)'
  BY <1>5 DEF DataInv, Genuine, Silent
<1>9. RepliesInv'
  BY DEF DataInv, RepliesInv, Silent
<1> QED
  BY <1>6, <1>7, <1>8, <1>9 DEF DataInv

(* Every step of the MQTT client keeps messages genuine and in order.      *)
LEMMA DataMqtt == FlowInv /\ DataInv /\ Mqtt => DataInv'
<1> SUFFICES ASSUME FlowInv, DataInv, Mqtt PROVE DataInv'
  OBVIOUS
<1>0. /\ MqttNext /\ TypeInv' /\ TypeInv /\ binding = "mqtt" /\ UNCHANGED <<binding, samples, replies>>
      /\ phase \in [Calls -> {"new", "begun", "returned", "failed"}]
  BY TypeMqtt DEF Mqtt, FlowInv, Flowing, TypeInv, ThingTypeOK, zenohVars, directVars
<1>1. /\ stream \in Seq(Message) /\ stream' \in Seq(Message)
      /\ Sorted(stream, overtaken) /\ Sorted(samples, overtaken) /\ samples = <<>>
  BY <1>0 DEF TypeInv, DataInv, InOrder
<1>2. ASSUME UNCHANGED <<thingVars, acked, floor, stream>>, messages' \in {messages, <<>>},
             \A c \in Calls : phase'[c] = "new" => phase[c] = "new"
      PROVE  DataInv'
  BY <1>0, <1>1, <1>2, DataKept, EmptyElems DEF thingVars
<1>3. ASSUME NEW c \in Calls, StartMqtt(c) PROVE DataInv'
  BY <1>0, <1>3, DataStart DEF StartMqtt, thingVars, tableVars
<1>4. ASSUME NEW c \in Calls, AcquireInit(c) \/ Connected(c) \/ ConnectFails(c) \/ AcquireSubscribe(c)
        \/ Subscribed(c) \/ SubscribeFails(c) \/ TimeOut(c) \/ AcquireLeave(c) \/ LoopStopped(c)
             \/ StopTimesOut(c)
      PROVE DataInv'
  <2>1. UNCHANGED <<thingVars, acked, floor, stream, messages>>
        /\ phase' \in {phase, [phase EXCEPT ![c] = "failed"]}
    BY <1>4
       DEF AcquireInit, Connected, ConnectFails, AcquireSubscribe, Subscribed, SubscribeFails,
           TimeOut, AcquireLeave, LoopStopped, StopTimesOut, Raise, Fail, callerVars, outcomeVars,
           tableVars, mqttVars
  <2> QED
    BY <1>0, <1>2, <2>1
<1>5. ASSUME NEW c \in Calls, Published(c) \/ PublishFails(c) PROVE DataInv'
  <2>1. /\ UNCHANGED <<effectVars, acked, floor, stream, messages>>
        /\ phase' \in {phase, [phase EXCEPT ![c] = "failed"], [phase EXCEPT ![c] = "returned"]}
    BY <1>5 DEF Published, PublishFails, Raise, Fail, ReturnAtOnce, outcomeVars, tableVars
  <2>2. \A d \in Calls : phase'[d] = "new" => phase[d] = "new"
    BY <1>0, <2>1
  <2> QED
    BY <1>0, <1>1, <2>1, <2>2, DataKept
<1>6. ASSUME NEW c \in Calls, Take(c) PROVE DataInv'
  BY <1>0, <1>6, DataTake DEF Take, thingVars, tableVars
<1>7. ASSUME NEW c \in Calls, Disconnected(c) PROVE DataInv'
  <2>1. UNCHANGED <<thingVars, acked, floor, stream, phase>> /\ messages' = <<>>
    BY <1>7 DEF Disconnected, callerVars, outcomeVars
  <2> QED
    BY <1>2, <2>1
<1>8. ASSUME NEW l \in Calls, LoopStep(l), ~DeliverMessage(l) PROVE DataInv'
  <2>1. UNCHANGED <<thingVars, acked, floor, stream, messages, phase>>
    BY <1>8
       DEF LoopStep, DeliverTimesOut, DeliverFails, Reconnected, Resubscribed, ReconnectFails,
           callerVars, outcomeVars, tableVars
  <2> QED
    BY <1>2, <2>1
<1>9. ASSUME NEW l \in Calls, DeliverMessage(l) PROVE DataInv'
  <2>1. /\ stream # <<>> /\ stream' = Tail(stream) /\ NewMessage(Head(stream), Asking)
        /\ UNCHANGED <<binding, effectVars, acked, floor, phase, replies, samples>>
    BY <1>0, <1>9 DEF DeliverMessage, thingVars, callerVars, outcomeVars
  <2>2. /\ Head(stream) \in Pending /\ Elems(stream') \subseteq Elems(stream) /\ Sorted(stream', overtaken')
        /\ \A x \in Elems(stream') : Follows(Head(stream), x, overtaken)
    BY <1>1, <2>1, TailElems DEF Pending
  <2>3. Asking \in SUBSET Reads /\ \A c \in Asking : phase[c] # "new"
    BY DEF Asking, FlowInv, Flowing, Begun, Using, Calls
  <2>4. \A x \in Pending' : Follows(Head(stream), x, overtaken)
    BY <1>1, <2>1, <2>2, EmptyElems DEF Pending
  <2> QED
    BY <1>1, <2>1, <2>2, <2>3, <2>4, DataDeliver
<1>10. ASSUME NEW op \in running, ServeMqtt(op) PROVE DataInv'
  BY <1>0, <1>1, <1>10, DataServe DEF ServeMqtt, tableVars
<1>11. ASSUME ConnectionLost PROVE DataInv'
  <2>1. UNCHANGED <<thingVars, acked, floor, stream, messages, phase>>
    BY <1>11 DEF ConnectionLost, callerVars, outcomeVars, tableVars
  <2> QED
    BY <1>2, <2>1
<1>12. ASSUME Lost PROVE DataInv'
  <2>1. /\ stream # <<>> /\ stream' = Tail(stream) /\ UNCHANGED <<messages, phase>>
        /\ UNCHANGED <<effectVars, acked, floor>>
    BY <1>12 DEF Lost, thingVars, callerVars, outcomeVars, tableVars
  <2>2. Elems(stream') \subseteq Elems(stream) /\ Sorted(stream', overtaken')
    BY <1>1, <2>1, TailElems
  <2> QED
    BY <1>0, <1>1, <2>1, <2>2, DataKept
<1>13. ASSUME NEW c \in Calls, HandleMqtt(c) PROVE DataInv'
  BY <1>0, <1>13, DataHandle DEF HandleMqtt, tableVars
<1> QED
  BY <1>0, <1>3, <1>4, <1>5, <1>6, <1>7, <1>8, <1>9, <1>10, <1>11, <1>12, <1>13
     DEF MqttNext, MqttCallStep

(* So does every step of the Zenoh client.                                 *)
LEMMA DataZenoh == FlowInv /\ DataInv /\ Zenoh => DataInv'
<1> SUFFICES ASSUME FlowInv, DataInv, Zenoh PROVE DataInv'
  OBVIOUS
<1>0. /\ ZenohNext /\ TypeInv' /\ TypeInv /\ binding = "zenoh" /\ UNCHANGED <<binding, replies>>
      /\ phase \in [Calls -> {"new", "begun", "returned", "failed"}]
  BY TypeZenoh DEF Zenoh, FlowInv, Flowing, TypeInv, ThingTypeOK, directVars
<1>1. /\ stream \in Seq(Message) /\ stream' \in Seq(Message) /\ samples \in Seq(Message)
      /\ Sorted(stream, overtaken) /\ Sorted(samples, overtaken)
      /\ \A m \in Elems(stream) : Before(samples, m, overtaken)
  BY <1>0 DEF TypeInv, DataInv, InOrder
<1>2. ASSUME NEW t, NEW d, NEW k, Disconnect(t, d, k) PROVE Elems(messages') \subseteq Elems(messages)
  BY <1>2, EmptyElems DEF Disconnect
<1>3. ASSUME NEW c \in Calls, StartZenoh(c) PROVE DataInv'
  BY <1>0, <1>3, DataStart DEF StartZenoh, thingVars, tableVars, zenohVars
<1>4. ASSUME NEW c \in Calls, Request(c) PROVE DataInv'
  <2>1. /\ UNCHANGED <<effectVars, acked, floor, stream, samples>>
        /\ phase' \in {phase, [phase EXCEPT ![c] = "returned"]}
    BY <1>4 DEF Request, ReturnAtOnce, outcomeVars
  <2>2. Elems(messages') \subseteq Elems(messages)
    BY <1>2, <1>4 DEF Request
  <2>3. \A d \in Calls : phase'[d] = "new" => phase[d] = "new"
    BY <1>0, <2>1
  <2> QED
    BY <1>0, <1>1, <2>1, <2>2, <2>3, DataKept
<1>5. ASSUME NEW c \in Calls, OpenFails(c) PROVE DataInv'
  <2>1. /\ UNCHANGED <<effectVars, acked, floor, stream, samples, messages>>
        /\ phase' = [phase EXCEPT ![c] = "failed"]
    BY <1>5 DEF OpenFails, Fail, thingVars, tableVars, zenohVars
  <2>2. \A d \in Calls : phase'[d] = "new" => phase[d] = "new"
    BY <1>0, <2>1
  <2> QED
    BY <1>0, <1>1, <2>1, <2>2, DataKept
<1>6. ASSUME NEW c \in Calls, End(c) PROVE Elems(messages') \subseteq Elems(messages)
  BY <1>2, <1>6 DEF End, tableVars
<1>7. ASSUME NEW c \in Calls, TakeZenoh(c) PROVE DataInv'
  BY <1>0, <1>6, <1>7, DataTake DEF TakeZenoh, End, thingVars
<1>8. ASSUME NEW c \in Calls, GiveUp(c) PROVE DataInv'
  <2>1. /\ UNCHANGED <<effectVars, acked, floor, stream, samples>>
        /\ phase' = [phase EXCEPT ![c] = "failed"] /\ Elems(messages') \subseteq Elems(messages)
    BY <1>6, <1>8 DEF GiveUp, End, Fail, thingVars
  <2>2. \A d \in Calls : phase'[d] = "new" => phase[d] = "new"
    BY <1>0, <2>1
  <2> QED
    BY <1>0, <1>1, <2>1, <2>2, DataKept
<1>9. ASSUME NEW op \in running, ServeZenoh(op) PROVE DataInv'
  BY <1>0, <1>1, <1>9, DataServe DEF ServeZenoh, tableVars, zenohVars
<1>10. ASSUME Receive \/ LostByRouter PROVE DataInv'
  <2>1. /\ stream # <<>> /\ stream' = Tail(stream) /\ samples' \in {samples, Append(samples, Head(stream))}
        /\ UNCHANGED <<effectVars, acked, floor, phase, messages>>
    BY <1>10 DEF Receive, LostByRouter, thingVars, callerVars, outcomeVars, tableVars, zenohVars
  <2>2. /\ Head(stream) \in Message /\ Head(stream) \in Elems(stream)
        /\ Elems(stream') \subseteq Elems(stream) /\ Sorted(stream', overtaken')
        /\ \A x \in Elems(stream') : Follows(Head(stream), x, overtaken)
    BY <1>1, <2>1, TailElems
  <2>3. Follows(Head(stream), Head(stream), overtaken)
    BY <2>2 DEF Message, Follows
  <2>4. Elems(samples') \subseteq Elems(samples) \cup {Head(stream)} /\ Sorted(samples', overtaken')
    <3>1. Before(samples, Head(stream), overtaken) /\ overtaken' = overtaken
      BY <1>1, <2>1, <2>2
    <3>2. CASE samples' = samples
      BY <1>1, <3>1, <3>2
    <3>3. CASE samples' = Append(samples, Head(stream))
      BY <1>1, <2>2, <2>3, <3>1, <3>3, AppendElems
    <3> QED
      BY <2>1, <3>2, <3>3
  <2>5. \A m \in Elems(stream') : Before(samples', m, overtaken')
    BY <1>1, <2>1, <2>2, <2>4 DEF Before
  <2>6. Pending' \subseteq Pending
    BY <2>2, <2>4 DEF Pending
  <2> QED
    BY <1>0, <2>1, <2>2, <2>4, <2>5, <2>6
       DEF DataInv, InOrder, TableInv, RepliesInv, Genuine, Silent, Recent
<1>11. ASSUME Deliver PROVE DataInv'
  <2> DEFINE set == {c \in Reads : pc[c] = "listen"}
  <2>1. /\ samples # <<>> /\ samples' = Tail(samples)
        /\ (UNCHANGED messages \/ NewMessage(Head(samples), set))
        /\ UNCHANGED <<binding, effectVars, acked, floor, phase, replies, stream>>
    BY <1>0, <1>11 DEF Deliver, thingVars, callerVars, outcomeVars
  <2>2. /\ Head(samples) \in Pending /\ Head(samples) \in Elems(samples)
        /\ Elems(samples') \subseteq Elems(samples) /\ Sorted(samples', overtaken')
        /\ \A x \in Elems(samples') : Follows(Head(samples), x, overtaken)
    BY <1>1, <2>1, TailElems DEF Pending
  <2>3. set \in SUBSET Reads /\ \A c \in set : phase[c] # "new"
    BY DEF FlowInv, Flowing, Begun, Calls
  <2>4. \A x \in Pending' : Follows(Head(samples), x, overtaken)
    BY <1>1, <2>1, <2>2 DEF Pending, Before
  <2> HIDE DEF set
  <2>5. CASE UNCHANGED messages
    BY <1>0, <1>1, <2>1, <2>2, <2>5, DataKept
  <2>6. CASE NewMessage(Head(samples), set)
    BY <1>0, <1>1, <2>1, <2>2, <2>3, <2>4, <2>6, DataDeliver
  <2> QED
    BY <2>1, <2>5, <2>6
<1>12. ASSUME NEW c \in Calls, HandleZenoh(c) PROVE DataInv'
  BY <1>0, <1>12, DataHandle DEF HandleZenoh, tableVars, zenohVars
<1> QED
  BY <1>0, <1>3, <1>4, <1>5, <1>7, <1>8, <1>9, <1>10, <1>11, <1>12 DEF ZenohNext, ZenohCallStep

(* So does every step of a client that is answered directly.               *)
LEMMA DataDirect == FlowInv /\ DataInv /\ Direct => DataInv'
<1> SUFFICES ASSUME FlowInv, DataInv, Direct PROVE DataInv'
  OBVIOUS
<1>0. /\ DirectNext /\ TypeInv' /\ TypeInv /\ binding = "direct"
      /\ UNCHANGED <<binding, stream, samples, messages>>
      /\ phase \in [Calls -> {"new", "begun", "returned", "failed"}]
  BY TypeDirect DEF Direct, FlowInv, Flowing, TypeInv, ThingTypeOK, tableVars, zenohVars
<1>1. Sorted(stream, overtaken) /\ Sorted(samples, overtaken) /\ stream' \in Seq(Message) /\ samples = <<>>
  BY <1>0 DEF DataInv, InOrder, TypeInv
<1>2. ASSUME NEW c \in Calls, UNCHANGED <<effectVars, acked, floor, replies>>,
             phase' \in {phase, [phase EXCEPT ![c] = "failed"]}
      PROVE  DataInv'
  <2>1. \A d \in Calls : phase'[d] = "new" => phase[d] = "new"
    BY <1>0, <1>2
  <2> QED
    BY <1>0, <1>1, <1>2, <2>1, DataKept
<1>3. ASSUME NEW c \in Calls, StartDirect(c) PROVE DataInv'
  BY <1>0, <1>3, DataStart DEF StartDirect, thingVars
<1>4. ASSUME NEW c \in Calls, NEW from, Send(c) \/ AttemptFails(c, from) PROVE DataInv'
  <2>1. /\ UNCHANGED <<effectVars, acked, floor, replies>>
        /\ phase' \in {phase, [phase EXCEPT ![c] = "failed"]}
    BY <1>4 DEF Send, AttemptFails, Fail, thingVars, answerVars, callerVars, outcomeVars
  <2> QED
    BY <1>2, <2>1
<1>5. ASSUME NEW c \in Calls, Respond(c) PROVE DataInv'
  <2>1. PICK r \in replies : r.of = c /\ Return(c, r.version)
    BY <1>5 DEF Respond
  <2>2. UNCHANGED <<effectVars, floor, replies>>
    BY <1>5 DEF Respond, thingVars
  <2>3. /\ r.version \in Nat /\ acked \in Nat /\ completed \in Nat
        /\ c \in Writes => r.version <= completed
    BY <1>0, <2>1 DEF DataInv, RepliesInv, TypeInv, ThingTypeOK, Operation
  <2>4. \A d \in Calls : phase[d] # "new" => phase'[d] # "new"
    BY <1>0, <2>1 DEF Return
  <2>5. acked <= acked' /\ acked' \in Nat /\ acked' <= completed
    BY <2>1, <2>3 DEF Return, DataInv, InOrder
  <2>6. floor \in [Reads -> Nat] /\ \A q \in replies \cup running : q.of \in Calls
    BY <1>0 DEF TypeInv, ThingTypeOK, Operation
  <2>7. Pending = {} /\ Pending' = {}
    BY <1>0, <1>1, EmptyElems DEF DataInv, InOrder, Pending
  <2>8. InOrder'
    BY <1>0, <1>1, <2>2, <2>3, <2>5, <2>6, <2>7 DEF DataInv, InOrder
  <2>9. TableInv'
    BY <1>0, <2>2, <2>4, <2>7, DataTypes
       DEF DataInv, TableInv, Genuine, Silent, Recent, Entry, Calls
  <2>10. RepliesInv'
    BY <1>0, <2>2, <2>4, <2>6 DEF DataInv, RepliesInv, Silent
  <2> QED
    BY <2>7, <2>8, <2>9, <2>10 DEF DataInv
<1>6. ASSUME NEW op \in running, ServeDirect(op) PROVE DataInv'
  <2>1. Answer(op) /\ replies' = replies \cup {op} /\ overtaken' = overtaken
    BY <1>6 DEF ServeDirect
  <2>2. Pending = {} /\ Pending' = {}
    BY <1>0, <1>1, EmptyElems DEF DataInv, InOrder, Pending
  <2>3. acked \in Nat /\ floor \in [Reads -> Nat] /\ \A r \in replies : r.version \in Nat
    BY <1>0 DEF TypeInv, ThingTypeOK, Operation
  <2>4. UNCHANGED <<version, served, written, phase, acked, floor>>
        /\ completed <= completed' /\ completed \in Nat /\ completed' \in Nat /\ running' \subseteq running
    BY <2>1, AnswerGrows
  <2>5. InOrder'
    <3>1. acked <= completed'
      BY <2>3, <2>4 DEF DataInv, InOrder
    <3> QED
      BY <1>0, <1>1, <2>1, <2>2, <2>4, <3>1 DEF DataInv, InOrder
  <2>6. TableInv'
    <3>1. \A e \in Elems(messages) : e.msg.version \in Nat
      BY <1>0, DataTypes DEF Entry, Message
    <3>2. \A e \in Elems(messages) : Genuine(e.msg)'
      BY <2>1, <3>1, AnswerGrows DEF DataInv, TableInv
    <3> QED
      BY <1>0, <2>1, <2>2, <2>4, <3>2 DEF DataInv, TableInv, Recent
  <2>7. ASSUME NEW r \in replies'
        PROVE  /\ r.version <= version
               /\ r.of \in Reads => phase[r.of] # "new" /\ floor[r.of] <= r.version
               /\ r.of \in Writes => r.of \in served /\ written[r.of] = r.version /\ r.version <= completed'
               /\ r.of \notin Reads => r.of \in served /\ Silent(r.of)'
    <3>1. CASE r = op
      <4>1. r.of \in Writes => r.of \notin Reads
        BY CallsAssumption
      <4>2. r.of \in Reads => phase[r.of] # "new" /\ floor[r.of] <= r.version
        BY <1>0, <3>1 DEF DataInv, RepliesInv
      <4> QED
        BY <2>1, <3>1, <4>1, <4>2, AnswerGrows
    <3>2. CASE r \in replies
      BY <2>3, <2>4, <3>2 DEF DataInv, RepliesInv, Silent
    <3> QED
      BY <2>1, <2>7, <3>1, <3>2
  <2>8. RepliesInv'
    BY <1>0, <2>4, <2>7 DEF DataInv, RepliesInv
  <2> QED
    BY <2>2, <2>5, <2>6, <2>8 DEF DataInv
<1>7. ASSUME NEW c \in Calls, HandleDirect(c) PROVE DataInv'
  <2>1. attempt[c] \in 1..2
    BY <1>0 DEF TypeInv
  <2> QED
    BY <1>0, <1>7, <2>1, DataHandle DEF HandleDirect, directVars
<1> QED
  BY <1>0, <1>3, <1>4, <1>5, <1>6, <1>7 DEF DirectNext, DirectCallStep, SignFails, RequestFails

(* So does every step.                                                     *)
LEMMA DataStep == FlowInv /\ DataInv /\ [Next]_vars => DataInv'
<1>1. FlowInv /\ DataInv /\ (Done \/ UNCHANGED vars) => DataInv'
  BY DEF Done, vars, thingVars, callerVars, outcomeVars, tableVars, zenohVars, directVars, DataInv,
         Genuine, Silent, Pending, InOrder, Before, Recent, TableInv, RepliesInv
<1> QED
  BY <1>1, DataMqtt, DataZenoh, DataDirect DEF Next

-----------------------------------------------------------------------------
(* Theorems.                                                               *)

(* In every state the messages on their way are genuine and in order, and  *)
(* stand for calls that were served once.                                  *)
THEOREM PromiseInvariance == Spec => [](FlowInv /\ DataInv)
<1>1. FlowInv /\ DataInv /\ [Next]_vars => (FlowInv /\ DataInv)'
  BY FlowStep, DataStep
<1> QED
  BY FlowInit, DataInit, <1>1, PTL DEF Spec

(* Every variable of the clients has its type.                             *)
THEOREM TypeCorrect == Spec => []TypeOK
<1>1. FlowInv => TypeOK
  BY DEF FlowInv, Flowing, TypeInv, ConnInv, PcInv, Using, Closing, TypeOK, MqttTypeOK, ZenohTypeOK,
         DirectTypeOK
<1> QED
  BY PromiseInvariance, <1>1, PTL

PromiseStep == [Promise!Step]_(Promise!callVars)

USE DEF Promise!thingVars

(* The promise is about the same calls.                                    *)
LEMMA SameCalls == Promise!Calls = Calls
  BY DEF Promise!Calls, Calls

(* The start of a call is the start of the promise.                        *)
LEMMA BeginsOnce ==
  ASSUME NEW c \in Calls, Start(c), UNCHANGED effectVars
  PROVE  PromiseStep
  BY SameCalls DEF Start, PromiseStep, Promise!Step, Promise!CallStep, Promise!Begin, Promise!Become

(* A call that fails breaks no promise.                                    *)
LEMMA Fails ==
  ASSUME FlowInv, NEW c \in Calls, Fail(c), phase[c] = "begun", UNCHANGED <<effectVars, floor>>
  PROVE  PromiseStep
  BY SameCalls DEF Fail, PromiseStep, Promise!Step, Promise!CallStep, Promise!Fail, Promise!Become

(* An invocation that is not awaited may return before it is served.       *)
LEMMA ReturnsAtOnce ==
  ASSUME FlowInv, NEW c \in Unawaited, ReturnAtOnce(c), phase[c] = "begun",
         UNCHANGED <<effectVars, floor>>
  PROVE  PromiseStep
<1>1. c \in Calls
  BY CallsAssumption DEF Calls
<1> QED
  BY <1>1, SameCalls
     DEF ReturnAtOnce, PromiseStep, Promise!Step, Promise!CallStep, Promise!ReturnUnawaited, Promise!Become

(* What a handler does for a call, the promise allows once.                *)
LEMMA CarriesOut ==
  ASSUME FlowInv, NEW c \in Calls, NEW n \in 1..2, Handle(c, n)
  PROVE  PromiseStep
<1>1. phase[c] # "new" /\ c \notin served
  BY DEF FlowInv, Flowing, ServedOnce, TypeInv, ThingTypeOK, Handle
<1>2. UNCHANGED <<phase, completed, overtaken, acked, floor, result>>
  BY DEF Handle, callerVars, outcomeVars
<1>3. Promise!CarryOut(c, n)
  BY <1>1, <1>2 DEF Handle, VersionAfter, Promise!CarryOut
<1> QED
  BY <1>3, SameCalls DEF PromiseStep, Promise!Step, Promise!CallStep

(* A handler that returns completes its operation, late or not.            *)
LEMMA Completes ==
  ASSUME FlowInv, NEW op \in running, Answer(op),
         \/ overtaken' = overtaken
         \/ op.version < completed /\ overtaken' = overtaken \cup {op.version}
  PROVE  PromiseStep
<1>1. op.version \in Nat /\ completed \in Nat
  BY DEF FlowInv, Flowing, TypeInv, ThingTypeOK, Operation
<1>2. op.version < completed => op.version \in {op.version} \cap 0..(completed - 1)
  BY <1>1
<1>3. overtaken' \in {overtaken} \cup {overtaken \cup {v} : v \in {op.version} \cap 0..(completed - 1)}
  BY <1>2
<1>4. Promise!Complete(op)
  BY <1>3 DEF Answer, callerVars, outcomeVars, Promise!Complete
<1> QED
  BY <1>4 DEF PromiseStep, Promise!Step

(* An answer as good as the promise asks for.                              *)
LEMMA Returns ==
  ASSUME FlowInv, NEW c \in Calls, NEW v \in Nat, Return(c, v), phase[c] = "begun",
         v <= version, c \in Reads => Recent(floor[c], v),
         c \notin Reads => c \in served /\ Silent(c), c \in Writes => written[c] = v,
         UNCHANGED <<effectVars, floor>>
  PROVE  PromiseStep
<1>1. version \in Nat /\ floor \in [Reads -> Nat]
  BY DEF FlowInv, Flowing, TypeInv, ThingTypeOK
<1>2. CASE c \in Reads
  <2>1. c \notin Writes
    BY <1>2, CallsAssumption
  <2>2. v \in floor[c]..version \cup overtaken /\ v \in 0..version
    BY <1>1, <1>2 DEF Recent
  <2>3. Promise!ReturnRead(c, v)
    BY <1>2, <2>1, <2>2 DEF Return, Promise!ReturnRead, Promise!Become
  <2> QED
    BY <2>2, <2>3, SameCalls DEF PromiseStep, Promise!Step, Promise!CallStep
<1>3. CASE c \notin Reads
  BY <1>3, SameCalls
     DEF Return, Silent, PromiseStep, Promise!Step, Promise!CallStep, Promise!Acknowledge,
         Promise!Become
<1> QED
  BY <1>2, <1>3

(* A call returns what was published for it, or newer.                     *)
LEMMA Takes ==
  ASSUME FlowInv, DataInv, NEW c \in Calls, TakeAnswer(c), phase[c] = "begun",
         UNCHANGED <<effectVars, floor>>
  PROVE  PromiseStep
<1>1. PICK v \in Nat : /\ Return(c, v) /\ v <= version /\ (c \in Reads => Recent(floor[c], v))
                        /\ (c \notin Reads => c \in served /\ Silent(c))
                        /\ (c \in Writes => written[c] = v)
  BY AnswerGenuine
<1> QED
  BY <1>1, Returns

(* Every step of the MQTT client is one of the promise, or none.           *)
LEMMA PromiseMqtt == FlowInv /\ DataInv /\ Mqtt => PromiseStep
<1> SUFFICES ASSUME FlowInv, DataInv, Mqtt PROVE PromiseStep
  OBVIOUS
<1>0. MqttNext /\ \A c \in Calls : pc[c] \in Using => phase[c] = "begun"
  BY DEF Mqtt, FlowInv, Flowing, Begun
<1>1. ASSUME UNCHANGED <<effectVars, phase, acked, floor, result>> PROVE PromiseStep
  BY <1>1 DEF PromiseStep, Promise!callVars
<1>2. ASSUME NEW c \in Calls, StartMqtt(c) PROVE PromiseStep
  BY <1>2, BeginsOnce DEF StartMqtt, thingVars
<1>3. ASSUME NEW c \in Calls, Raise(c), pc[c] \in Using, UNCHANGED <<effectVars, floor>>
      PROVE  PromiseStep
  BY <1>0, <1>3, Fails DEF Raise
<1>4. ASSUME NEW c \in Calls,
             Connected(c) \/ ConnectFails(c) \/ SubscribeFails(c) \/ PublishFails(c) \/ TimeOut(c)
      PROVE  PromiseStep
  <2>1. pc[c] \in Using /\ UNCHANGED <<effectVars, floor>>
    BY <1>4 DEF Connected, ConnectFails, SubscribeFails, PublishFails, TimeOut, Using, thingVars
  <2>2. Raise(c) \/ UNCHANGED outcomeVars
    BY <1>4 DEF Connected, ConnectFails, SubscribeFails, PublishFails, TimeOut
  <2> QED
    BY <1>1, <1>3, <2>1, <2>2 DEF outcomeVars
<1>5. ASSUME NEW c \in Calls, Published(c) PROVE PromiseStep
  <2>1. UNCHANGED <<effectVars, floor>> /\ phase[c] = "begun"
    BY <1>0, <1>5 DEF Published, Using
  <2>2. CASE c \in Unawaited
    BY <1>5, <2>1, <2>2, ReturnsAtOnce DEF Published
  <2>3. CASE c \notin Unawaited
    BY <1>1, <1>5, <2>1, <2>3 DEF Published, outcomeVars
  <2> QED
    BY <2>2, <2>3
<1>6. ASSUME NEW c \in Calls, Take(c) PROVE PromiseStep
  BY <1>0, <1>6, Takes DEF Take, Using, thingVars
<1>7. ASSUME NEW c \in Calls, AcquireInit(c) \/ AcquireSubscribe(c) \/ Subscribed(c) \/ AcquireLeave(c)
        \/ LoopStopped(c) \/ StopTimesOut(c) \/ Disconnected(c)
      PROVE  PromiseStep
  BY <1>1, <1>7
     DEF AcquireInit, AcquireSubscribe, Subscribed, AcquireLeave, LoopStopped, StopTimesOut,
         Disconnected, thingVars, callerVars, outcomeVars
<1>8. ASSUME NEW l \in Calls, LoopStep(l) PROVE PromiseStep
  BY <1>1, <1>8
     DEF LoopStep, DeliverTimesOut, DeliverMessage, DeliverFails, Reconnected, Resubscribed,
         ReconnectFails, thingVars, callerVars, outcomeVars
<1>9. ASSUME NEW op \in running, ServeMqtt(op) PROVE PromiseStep
  BY <1>9, Completes DEF ServeMqtt, Serve
<1>10. ASSUME ConnectionLost \/ Lost PROVE PromiseStep
  BY <1>1, <1>10 DEF ConnectionLost, Lost, thingVars, callerVars, outcomeVars
<1>11. ASSUME NEW c \in Calls, HandleMqtt(c) PROVE PromiseStep
  BY <1>11, CarriesOut DEF HandleMqtt
<1> QED
  BY <1>0, <1>2, <1>4, <1>5, <1>6, <1>7, <1>8, <1>9, <1>10, <1>11 DEF MqttNext, MqttCallStep

(* So is every step of the Zenoh client.                                   *)
LEMMA PromiseZenoh == FlowInv /\ DataInv /\ Zenoh => PromiseStep
<1> SUFFICES ASSUME FlowInv, DataInv, Zenoh PROVE PromiseStep
  OBVIOUS
<1>0. ZenohNext /\ \A c \in Calls : pc[c] \in {"init", "listen"} => phase[c] = "begun"
  BY DEF Zenoh, FlowInv, Flowing, Begun
<1>1. ASSUME UNCHANGED <<effectVars, phase, acked, floor, result>> PROVE PromiseStep
  BY <1>1 DEF PromiseStep, Promise!callVars
<1>2. ASSUME NEW c \in Calls, StartZenoh(c) PROVE PromiseStep
  BY <1>2, BeginsOnce DEF StartZenoh, thingVars
<1>3. ASSUME NEW c \in Calls, Request(c) PROVE PromiseStep
  <2>1. UNCHANGED <<effectVars, floor>> /\ phase[c] = "begun"
    BY <1>0, <1>3 DEF Request
  <2>2. CASE c \in Unawaited
    BY <1>3, <2>1, <2>2, ReturnsAtOnce DEF Request
  <2>3. CASE c \notin Unawaited
    BY <1>1, <1>3, <2>1, <2>3 DEF Request, outcomeVars
  <2> QED
    BY <2>2, <2>3
<1>4. ASSUME NEW c \in Calls, OpenFails(c) \/ GiveUp(c) PROVE PromiseStep
  BY <1>0, <1>4, Fails DEF OpenFails, GiveUp, End, thingVars
<1>5. ASSUME NEW c \in Calls, TakeZenoh(c) PROVE PromiseStep
  BY <1>0, <1>5, Takes DEF TakeZenoh, End, thingVars
<1>6. ASSUME NEW op \in running, ServeZenoh(op) PROVE PromiseStep
  BY <1>6, Completes DEF ServeZenoh, Serve
<1>7. ASSUME Receive \/ Deliver \/ LostByRouter PROVE PromiseStep
  BY <1>1, <1>7 DEF Receive, Deliver, LostByRouter, thingVars, callerVars, outcomeVars
<1>8. ASSUME NEW c \in Calls, HandleZenoh(c) PROVE PromiseStep
  BY <1>8, CarriesOut DEF HandleZenoh
<1> QED
  BY <1>0, <1>2, <1>3, <1>4, <1>5, <1>6, <1>7, <1>8 DEF ZenohNext, ZenohCallStep

(* So is every step of a client that is answered directly.                 *)
LEMMA PromiseDirect == FlowInv /\ DataInv /\ Direct => PromiseStep
<1> SUFFICES ASSUME FlowInv, DataInv, Direct PROVE PromiseStep
  OBVIOUS
<1>0. /\ DirectNext
      /\ \A c \in Calls : place[c] \in {"sign", "sent"} => phase[c] = "begun"
  BY DEF Direct, FlowInv, Flowing, Begun
<1>1. ASSUME UNCHANGED <<effectVars, phase, acked, floor, result>> PROVE PromiseStep
  BY <1>1 DEF PromiseStep, Promise!callVars
<1>2. ASSUME NEW c \in Calls, StartDirect(c) PROVE PromiseStep
  BY <1>2, BeginsOnce DEF StartDirect, thingVars
<1>3. ASSUME NEW c \in Calls, Send(c) PROVE PromiseStep
  BY <1>1, <1>3 DEF Send, callerVars, outcomeVars
<1>4. ASSUME NEW c \in Calls, NEW from \in {"sign", "sent"}, AttemptFails(c, from) PROVE PromiseStep
  <2>1. UNCHANGED <<effectVars, floor>> /\ phase[c] = "begun"
    BY <1>0, <1>4 DEF AttemptFails, At, thingVars
  <2>2. Fail(c) \/ UNCHANGED outcomeVars
    BY <1>4 DEF AttemptFails
  <2> QED
    BY <1>1, <2>1, <2>2, Fails DEF outcomeVars
<1>5. ASSUME NEW c \in Calls, Respond(c) PROVE PromiseStep
  <2>1. UNCHANGED <<effectVars, floor>> /\ phase[c] = "begun"
    BY <1>0, <1>5 DEF Respond, At, thingVars
  <2>2. PICK r \in replies : r.of = c /\ Return(c, r.version)
    BY <1>5 DEF Respond
  <2>3. r.version \in Nat
    BY DEF FlowInv, Flowing, TypeInv, Operation
  <2>4. /\ r.version <= version /\ (c \in Reads => Recent(floor[c], r.version))
        /\ (c \notin Reads => c \in served /\ Silent(c)) /\ (c \in Writes => written[c] = r.version)
    BY <2>2 DEF DataInv, RepliesInv, Recent
  <2> QED
    BY <2>1, <2>2, <2>3, <2>4, Returns
<1>6. ASSUME NEW c \in Calls, HandleDirect(c) PROVE PromiseStep
  <2>1. attempt[c] \in 1..2
    BY DEF FlowInv, Flowing, TypeInv
  <2> QED
    BY <1>6, <2>1, CarriesOut DEF HandleDirect
<1>7. ASSUME NEW op \in running, ServeDirect(op) PROVE PromiseStep
  BY <1>7, Completes DEF ServeDirect
<1> QED
  BY <1>0, <1>2, <1>3, <1>4, <1>5, <1>6, <1>7
     DEF DirectNext, DirectCallStep, SignFails, RequestFails

(* However different the clients are, each keeps the promise of            *)
(* RequestResponse.                                                        *)
THEOREM KeepsPromiseTheorem == Spec => KeepsPromise
<1>1. Init => Promise!CallsInit
  BY SameCalls DEF Init, ThingInit, Promise!CallsInit
<1>2. FlowInv /\ DataInv /\ [Next]_vars => PromiseStep
  <2>1. Done \/ UNCHANGED vars => PromiseStep
    BY DEF Done, vars, thingVars, callerVars, outcomeVars, PromiseStep, Promise!callVars
  <2> QED
    BY <2>1, PromiseMqtt, PromiseZenoh, PromiseDirect DEF Next
<1> QED
  BY PromiseInvariance, <1>1, <1>2, PTL DEF Spec, PromiseStep, KeepsPromise, Promise!CallsSpec

-----------------------------------------------------------------------------
(* What the promise amounts to.                                            *)

PromiseTypes ==
  /\ phase \in [Calls -> {"new", "begun", "returned", "failed"}]
  /\ version \in Nat /\ acked \in Nat
  /\ running \subseteq Operation /\ completed \in Nat /\ overtaken \subseteq Nat
  /\ served \subseteq Calls \ Reads
  /\ written \in [Writes -> Nat]
  /\ floor \in [Reads -> Nat] /\ result \in [Reads -> Nat]

(* The values of the property are those of the writes carried out, each    *)
(* carried out once.                                                       *)
WritesCounted ==
  /\ IsFiniteSet(served \cap Writes) /\ version = Cardinality(served \cap Writes)
  /\ \A v \in 1..version : \E w \in served \cap Writes : written[w] = v
  /\ \A w \in served \cap Writes :
       /\ written[w] \in 1..version
       /\ \A x \in served \cap Writes : written[w] = written[x] => w = x

(* A call that has returned was carried out, its handler has returned, and *)
(* what it wrote counts as acknowledged; only an unawaited write may       *)
(* return before that.                                                     *)
ReturnedIsServed ==
  \A c \in Calls \ (Reads \cup Unawaited) :
    phase[c] = "returned" => c \in served /\ Silent(c) /\ (c \in Writes => written[c] <= acked)

(* A read returns a value the property has had, and none older than what   *)
(* had been acknowledged when it began, unless a handler came to its end   *)
(* with that value after a newer write was completed.                      *)
ReadsInRange ==
  /\ acked <= version /\ \A v \in overtaken : v < completed
  /\ \A r \in Reads :
       /\ floor[r] <= acked
       /\ phase[r] = "returned" => Recent(floor[r], result[r]) /\ result[r] <= version

Promised == WritesCounted /\ ReturnedIsServed /\ ReadsInRange

(* A write that is carried out gives the property its next number.         *)
LEMMA CarryOutPromised ==
  ASSUME PromiseTypes, Promised, NEW c \in Calls, NEW n \in 1..2, Promise!CarryOut(c, n)
  PROVE  PromiseTypes' /\ Promised'
<1>0. /\ c \notin served /\ UNCHANGED <<phase, completed, overtaken, acked, floor, result>>
      /\ served' = (IF c \in Reads THEN served ELSE served \cup {c})
      /\ version' = (IF c \in Writes THEN version + 1 ELSE version)
      /\ written' = (IF c \in Writes THEN [written EXCEPT ![c] = version + 1] ELSE written)
      /\ running' = running \cup {[of |-> c, attempt |-> n, version |-> version']}
  BY DEF Promise!CarryOut
<1>1. c \in Writes => c \notin Reads
  BY CallsAssumption
<1>a. running' \subseteq Operation
  <2>1. version' \in Nat
    BY <1>0 DEF PromiseTypes
  <2> QED
    BY <1>0, <2>1 DEF PromiseTypes, Operation
<1>b. \A d \in served : Silent(d) => Silent(d)'
  BY <1>0 DEF Silent
<1>2. CASE c \notin Writes
  <2>1. UNCHANGED <<version, written>> /\ served' \cap Writes = served \cap Writes
        /\ served' \in SUBSET (Calls \ Reads) /\ served \subseteq served'
    BY <1>0, <1>2 DEF PromiseTypes
  <2>2. PromiseTypes' /\ WritesCounted'
    BY <1>0, <1>a, <2>1 DEF PromiseTypes, Promised, WritesCounted
  <2>3. ReturnedIsServed' /\ ReadsInRange'
    BY <1>0, <1>b, <2>1 DEF Promised, ReturnedIsServed, ReadsInRange, Recent
  <2> QED
    BY <2>2, <2>3 DEF Promised
<1>3. CASE c \in Writes
  <2>1. /\ version' = version + 1 /\ written' = [written EXCEPT ![c] = version + 1]
        /\ served' \cap Writes = (served \cap Writes) \cup {c} /\ c \notin served \cap Writes
        /\ served' = served \cup {c}
    BY <1>0, <1>1, <1>3
  <2>2. PromiseTypes'
    BY <1>0, <1>1, <1>3, <1>a, <2>1 DEF PromiseTypes
  <2>3. /\ version \in Nat /\ written'[c] = version + 1 /\ acked \in Nat
        /\ \A w \in Writes : written'[w] \in Nat /\ (w # c => written'[w] = written[w])
    BY <1>3, <2>1 DEF PromiseTypes
  <2>4. IsFiniteSet(served' \cap Writes) /\ version' = Cardinality(served' \cap Writes)
    <3>1. /\ IsFiniteSet((served \cap Writes) \cup {c})
          /\ Cardinality((served \cap Writes) \cup {c}) = Cardinality(served \cap Writes) + 1
      BY <2>1, FS_AddElement DEF Promised, WritesCounted
    <3> QED
      BY <2>1, <3>1 DEF Promised, WritesCounted
  <2>5. ASSUME NEW v \in 1..version' PROVE \E w \in served' \cap Writes : written'[w] = v
    <3>1. CASE v = version + 1
      BY <2>1, <2>3, <3>1
    <3>2. CASE v # version + 1
      <4>1. v \in 1..version
        BY <2>1, <2>3, <3>2
      <4>2. PICK w \in served \cap Writes : written[w] = v
        BY <4>1 DEF Promised, WritesCounted
      <4> QED
        BY <2>1, <2>3, <4>2
    <3> QED
      BY <3>1, <3>2
  <2>6. ASSUME NEW w \in served' \cap Writes
        PROVE  /\ written'[w] \in 1..version'
               /\ \A x \in served' \cap Writes : written'[w] = written'[x] => w = x
    <3>1. \A x \in served' \cap Writes : x # c => written'[x] = written[x] /\ written[x] \in 1..version
      BY <2>1, <2>3 DEF Promised, WritesCounted
    <3>2. written'[w] \in 1..version'
      BY <2>1, <2>3, <3>1
    <3>3. ASSUME NEW x \in served' \cap Writes, written'[w] = written'[x] PROVE w = x
      <4>1. CASE w # c /\ x # c
        BY <2>1, <3>1, <3>3, <4>1 DEF Promised, WritesCounted
      <4>2. CASE w = c \/ x = c
        BY <2>3, <3>1, <3>3, <4>2
      <4> QED
        BY <4>1, <4>2
    <3> QED
      BY <3>2, <3>3
  <2>7. WritesCounted'
    BY <2>4, <2>5, <2>6 DEF WritesCounted
  <2>8. ReturnedIsServed'
    BY <1>0, <1>b, <2>1, <2>3 DEF Promised, ReturnedIsServed
  <2>9. ReadsInRange'
    <3>1. \A r \in Reads : result[r] \in Nat
      BY DEF PromiseTypes
    <3> QED
      BY <1>0, <2>1, <2>3, <3>1 DEF Promised, ReadsInRange, Recent
  <2> QED
    BY <2>2, <2>7, <2>8, <2>9 DEF Promised
<1> QED
  BY <1>2, <1>3

(* Every step of RequestResponse keeps the promise.                        *)
LEMMA PromisedStep ==
  ASSUME PromiseTypes, Promised, PromiseStep
  PROVE  PromiseTypes' /\ Promised'
<1> USE CallsAssumption
        DEF PromiseTypes, Promised, ReturnedIsServed, ReadsInRange, Silent, Recent, Calls
<1>1. CASE UNCHANGED Promise!callVars
  BY <1>1 DEF Promise!callVars, WritesCounted
<1>2. ASSUME NEW c \in Calls, NEW n \in 1..2, Promise!CarryOut(c, n) PROVE PromiseTypes' /\ Promised'
  BY <1>2, CarryOutPromised
<1>3. ASSUME UNCHANGED <<served, version, written>> PROVE WritesCounted'
  BY <1>3 DEF WritesCounted
<1>4. ASSUME NEW c \in Calls, Promise!Begin(c) PROVE PromiseTypes' /\ Promised'
  BY <1>3, <1>4 DEF Promise!Begin, Promise!Become
<1>5. ASSUME NEW c \in Calls, Promise!Fail(c) PROVE PromiseTypes' /\ Promised'
  BY <1>3, <1>5 DEF Promise!Fail, Promise!Become
<1>6. ASSUME NEW c \in Calls, Promise!ReturnUnawaited(c) PROVE PromiseTypes' /\ Promised'
  BY <1>3, <1>6 DEF Promise!ReturnUnawaited, Promise!Become
<1>7. ASSUME NEW c \in Calls, NEW v \in 0..version, Promise!ReturnRead(c, v)
      PROVE  PromiseTypes' /\ Promised'
  BY <1>3, <1>7 DEF Promise!ReturnRead, Promise!Become
<1>8. ASSUME NEW c \in Calls, Promise!Acknowledge(c) PROVE PromiseTypes' /\ Promised'
  <2>1. /\ UNCHANGED <<effectVars, floor, result>> /\ c \in served
        /\ phase' = [phase EXCEPT ![c] = "returned"]
        /\ acked' = IF c \in Writes /\ written[c] > acked THEN written[c] ELSE acked
    BY <1>8 DEF Promise!Acknowledge, Promise!Become
  <2>2. c \in Writes => written[c] \in Nat /\ written[c] <= version
    <3>1. version \in Nat /\ (c \in Writes => c \in served \cap Writes)
      BY <2>1
    <3>2. c \in Writes => written[c] \in 1..version
      BY <3>1 DEF WritesCounted
    <3> QED
      BY <3>1, <3>2
  <2>3. acked' \in Nat /\ acked <= acked' /\ acked' <= version
    BY <2>1, <2>2
  <2>4. c \in Writes => written[c] <= acked'
    BY <2>1, <2>2
  <2>5. ReturnedIsServed'
    <3> SUFFICES ASSUME NEW d \in Calls \ (Reads \cup Unawaited), phase'[d] = "returned"
                 PROVE  d \in served /\ Silent(d) /\ (d \in Writes => written[d] <= acked')
      BY <2>1
    <3>1. CASE d = c
      <4>1. Silent(c)
        BY <1>8 DEF Promise!Acknowledge
      <4> QED
        BY <2>1, <2>4, <3>1, <4>1
    <3>2. CASE d # c
      <4>1. d \in served /\ Silent(d) /\ (d \in Writes => written[d] \in Nat /\ written[d] <= acked)
        BY <2>1, <3>2
      <4> QED
        BY <2>3, <4>1
    <3> QED
      BY <3>1, <3>2
  <2>6. ReadsInRange'
    <3> SUFFICES ASSUME NEW r \in Reads
                 PROVE  /\ floor[r] <= acked'
                        /\ phase'[r] = "returned" =>
                             (floor[r] <= result[r] \/ result[r] \in overtaken) /\ result[r] <= version
      BY <2>1, <2>3
    <3>1. r # c
      BY <2>1
    <3> QED
      BY <2>1, <2>3, <3>1
  <2> QED
    BY <1>3, <2>1, <2>3, <2>5, <2>6
<1>9. ASSUME NEW op \in running, Promise!Complete(op) PROVE PromiseTypes' /\ Promised'
  <2>1. /\ UNCHANGED <<phase, served, version, written, acked, floor, result>>
        /\ running' \subseteq running /\ completed' \in {completed, op.version} /\ op.version \in Nat
        /\ completed <= completed' /\ overtaken \subseteq overtaken'
        /\ \A v \in overtaken' : v \in overtaken \/ v \in 0..(completed - 1)
    BY <1>9 DEF Promise!Complete, Operation
  <2>2. PromiseTypes'
    BY <2>1
  <2>3. \A v \in overtaken' : v < completed'
    BY <2>1
  <2> QED
    BY <1>3, <2>1, <2>2, <2>3
<1> QED
  BY <1>1, <1>2, <1>4, <1>5, <1>6, <1>7, <1>8, <1>9, SameCalls
     DEF PromiseStep, Promise!Step, Promise!CallStep

(* What an application may conclude from the answers it gets: each write   *)
(* and invocation that returned was carried out, and once; the values of   *)
(* the property are those of its writes; and a read returns one that is no *)
(* older than any write that had been acknowledged when the read began, or *)
(* one that a handler came to its end with after a newer write.            *)
THEOREM PromisedTheorem == Spec => []Promised
<1>1. Init => PromiseTypes /\ Promised
  <2>1. IsFiniteSet({}) /\ Cardinality({}) = 0
    BY FS_EmptySet
  <2> QED
    BY <2>1
       DEF Init, ThingInit, PromiseTypes, Promised, WritesCounted, ReturnedIsServed, ReadsInRange,
           Recent
<1>2. PromiseTypes /\ Promised /\ PromiseStep => PromiseTypes' /\ Promised'
  BY PromisedStep
<1>3. FlowInv /\ DataInv /\ [Next]_vars => PromiseStep
  <2>1. Done \/ UNCHANGED vars => PromiseStep
    BY DEF Done, vars, thingVars, callerVars, outcomeVars, PromiseStep, Promise!callVars
  <2> QED
    BY <2>1, PromiseMqtt, PromiseZenoh, PromiseDirect DEF Next
<1> QED
  BY PromiseInvariance, <1>1, <1>2, <1>3, PTL DEF Spec

(* Over HTTP and CoAP, where the answer of an operation goes to its caller *)
(* alone, that exception is none: no read is older than any write that had *)
(* been acknowledged when it began, however long the handlers take.        *)
THEOREM DirectReadsTheorem ==
  Spec => [](binding = "direct" => \A r \in Reads : phase[r] = "returned" => floor[r] <= result[r])
<1>1. DataInv /\ Promised /\ binding = "direct"
        => \A r \in Reads : phase[r] = "returned" => floor[r] <= result[r]
  BY DEF DataInv, InOrder, Promised, ReadsInRange, Recent
<1> QED
  BY PromiseInvariance, PromisedTheorem, <1>1, PTL
=============================================================================
