------------------------ MODULE ObservationProofs ------------------------
(***************************************************************************)
(* Proofs about the observers of a thing: whatever the binding, they are   *)
(* shown what EventStream allows, and what each binding adds to that.      *)
(***************************************************************************)
EXTENDS Observation, FiniteSetTheorems, SequenceTheorems, TLAPS

-----------------------------------------------------------------------------
(* The steps, binding by binding.                                          *)

WsNext == WsEmission \/ \E o \in Observers : WsServerTask(o) \/ WsClientTask(o) \/ WsOther(o)

HttpNext == HttpEmission \/ \E o \in Observers : HttpServerTask(o) \/ HttpClientTask(o) \/ HttpOther(o)

CoapNext == CoapEmission \/ \E o \in Observers : CoapServerTask(o) \/ CoapClientTask(o) \/ CoapOther(o)

TopicNext ==
  \/ TopicEmission \/ TopicServerTask \/ TopicStart \/ TopicStop \/ TopicRequest
  \/ \E o \in Observers : TopicClientTask(o) \/ TopicSubscribe(o) \/ TopicUnsubscribe(o)

(* Every step is one of the thing alone, or of the binding in use.         *)
LEMMA NextCases ==
  Next => \/ StoreLocally \/ ToggleThing
          \/ (WsNext /\ WsOnly) \/ (HttpNext /\ HttpOnly)
          \/ (CoapNext /\ CoapOnly) \/ (TopicNext /\ TopicOnly)
<1>1. Emit => \/ (WsNext /\ WsOnly) \/ (HttpNext /\ HttpOnly)
                 \/ (CoapNext /\ CoapOnly) \/ (TopicNext /\ TopicOnly)
  BY DEF Emit, WsNext, HttpNext, CoapNext, TopicNext
<1>2. Task => \/ (WsNext /\ WsOnly) \/ (HttpNext /\ HttpOnly)
                 \/ (CoapNext /\ CoapOnly) \/ (TopicNext /\ TopicOnly)
  BY DEF Task, WsNext, HttpNext, CoapNext, TopicNext
<1>3. Other => \/ (WsNext /\ WsOnly) \/ (HttpNext /\ HttpOnly)
                 \/ (CoapNext /\ CoapOnly) \/ (TopicNext /\ TopicOnly)
  BY DEF Other, WsNext, HttpNext, CoapNext, TopicNext
<1> QED
  BY <1>1, <1>2, <1>3 DEF Next

-----------------------------------------------------------------------------
(* Types.                                                                  *)

(* What appending to a sequence and taking its head keep of its type.      *)
LEMMA SeqType ==
  ASSUME NEW S, NEW s \in Seq(S), NEW m \in S
  PROVE  /\ Append(s, m) \in Seq(S)
         /\ s # <<>> => Head(s) \in S /\ Tail(s) \in Seq(S)
  OBVIOUS

(* A loop that waits has sent a poll.                                      *)
Polled == \A o \in Observers : polling[o] => sent[o] # 0

TypeInv == TypeOK /\ (binding = "http" => Polled)

(* The initial state has its types.                                        *)
LEMMA TypeInit == Init => TypeInv
<1> SUFFICES ASSUME Init PROVE TypeInv
  OBVIOUS
<1>1. <<>> \in Seq(0..MaxVersion) /\ <<>> \in Seq(0..Gone) /\ <<>> \in Seq(QueueItem)
      /\ <<>> \in Seq({"read", "write"})
      /\ Len(<<>>) = 0
  OBVIOUS
<1>2. SourceTypeOK
  BY ScenariosAssumption, ObservedThingAssumption DEF Init, SourceInit, SourceTypeOK
<1>3. WsTypeOK
  BY <1>1, ObservedThingAssumption DEF Init, WsInit, WsTypeOK
<1>4. HttpTypeOK
  BY MaxPollsAssumption, ObservedThingAssumption DEF Init, HttpInit, HttpTypeOK, PollState
<1>5. CoapTypeOK
  BY <1>1, ObservedThingAssumption DEF Init, CoapInit, CoapTypeOK, Gone
<1>6. TopicTypeOK
  <2>1. {running, topicSub, writing} \subseteq BOOLEAN /\ listening \subseteq Observers
        /\ held \cup stale \subseteq 0..MaxVersion
    BY DEF Init, TopicInit
  <2>2. /\ queue \in Seq(QueueItem) /\ arrivals \in Seq({"read", "write"})
        /\ buffer \in Seq({"read", "write"}) /\ Len(buffer) <= BufferSize
    BY <1>1, TopicObservationAssumption DEF Init, TopicInit
  <2>3. published \in 0..MaxVersion /\ inbox \in [Observers -> Seq(0..MaxVersion)]
    BY <1>1, ObservedThingAssumption DEF Init, TopicInit
  <2>4. requests \in Nat /\ starts \in 0..MaxStarts
    BY ScenariosAssumption DEF Init
  <2>5. loops \in [Loops -> LoopState]
    BY DEF Init, TopicInit, LoopState
  <2>6. reading \in Nat /\ found \in [0..MaxVersion -> Nat]
    BY DEF Init, TopicInit
  <2> QED
    BY <2>1, <2>2, <2>3, <2>4, <2>5, <2>6 DEF TopicTypeOK
<1> QED
  BY <1>2, <1>3, <1>4, <1>5, <1>6 DEF TypeOK, TypeInv, Polled, Init, HttpInit

(* Steps of the thing alone.                                               *)
LEMMA SourceTypes ==
  ASSUME TypeInv, StoreLocally \/ ToggleThing
  PROVE  TypeInv'
<1> USE ObservedThingAssumption
<1>1. SourceTypeOK'
  <2>1. CASE StoreLocally
    BY <2>1 DEF TypeInv, TypeOK, SourceTypeOK, StoreLocally, Store, observerVars
  <2>2. CASE ToggleThing
    BY <2>2 DEF TypeInv, TypeOK, SourceTypeOK, ToggleThing, Toggle, observerVars
  <2> QED
    BY <2>1, <2>2
<1>2. /\ (binding = "ws" => WsTypeOK)' /\ (binding = "http" => HttpTypeOK)'
      /\ (binding = "coap" => CoapTypeOK)' /\ (binding = "topic" => TopicTypeOK)'
      /\ (binding = "http" => Polled)'
  BY DEF TypeInv, TypeOK, WsTypeOK, HttpTypeOK, CoapTypeOK, TopicTypeOK, Polled, StoreLocally,
         ToggleThing, wsVars, httpVars, coapVars, topicVars, runnerVars, requestVars, readVars,
         loopVars, brokerVars
<1> QED
  BY <1>1, <1>2 DEF TypeInv, TypeOK

(* An emission gives the stream the next number.                           *)
LEMMA EmissionTypes ==
  ASSUME SourceTypeOK, Emission
  PROVE  /\ version' \in 0..MaxVersion /\ emitted' \in 0..MaxVersion /\ emitted' = version'
         /\ emitted \in 0..MaxVersion /\ emitted' >= emitted /\ version' >= version
         /\ active' = active /\ kind' = kind /\ served' = served
  BY ObservedThingAssumption DEF SourceTypeOK, Emission

(* It keeps the types of the thing, and so does a value that is stored.    *)
LEMMA ThingTypes ==
  ASSUME SourceTypeOK, UNCHANGED <<active, kind, since, losses, observerVars>>,
         Emission \/ (Store /\ UNCHANGED <<served, emitted>>)
         \/ UNCHANGED <<version, served, emitted>>
  PROVE  SourceTypeOK'
<1>1. version' \in 0..MaxVersion /\ emitted' \in {version', version' - 1} /\ emitted' \in Nat
      /\ served' = served
  BY ObservedThingAssumption DEF SourceTypeOK, Emission, Store
<1> QED
  BY <1>1 DEF SourceTypeOK, observerVars

(* Steps of the Ws binding.                                                *)
LEMMA WsTypes ==
  ASSUME SourceTypeOK, WsTypeOK, WsNext
  PROVE  SourceTypeOK' /\ WsTypeOK'
<1> USE ObservedThingAssumption DEF SourceTypeOK, WsTypeOK, sourceVars, observerVars, wsVars
<1>a. \A o \in Observers : /\ Append(pipe[o], 0) \in Seq(0..MaxVersion)
                         /\ \A v \in 0..MaxVersion : Append(pipe[o], v) \in Seq(0..MaxVersion)
                         /\ pipe[o] # <<>> => /\ Tail(pipe[o]) \in Seq(0..MaxVersion)
                                             /\ Head(pipe[o]) \in 0..MaxVersion
  BY SeqType DEF WsTypeOK
<1>1. ASSUME NEW o \in Observers, WsSubscribe(o) PROVE SourceTypeOK' /\ WsTypeOK'
  BY <1>a, <1>1 DEF WsSubscribe, Observe, Advance
<1>2. ASSUME NEW o \in Observers, WsConnected(o) PROVE SourceTypeOK' /\ WsTypeOK'
  BY <1>a, <1>2 DEF WsConnected, Advance
<1>3. ASSUME NEW o \in Observers, WsConnectFails(o) PROVE SourceTypeOK' /\ WsTypeOK'
  BY <1>a, <1>3 DEF WsConnectFails, Leave
<1>4. ASSUME NEW o \in Observers, WsOnMessage(o) PROVE SourceTypeOK' /\ WsTypeOK'
  BY <1>a, <1>4 DEF WsOnMessage, Advance
<1>5. ASSUME NEW o \in Observers, WsHandle(o) PROVE SourceTypeOK' /\ WsTypeOK'
  <2>1. pipe' \in [Observers -> Seq(0..MaxVersion)]
    BY <1>a, <1>5 DEF WsHandle, Id
  <2>2. SourceTypeOK'
    BY <1>5 DEF WsHandle
  <2>3. wsSubs' \subseteq Observers /\ link' \in [Observers -> {"none", "open", "closing", "closed"}]
    BY <1>5 DEF WsHandle, Subscribed, CloseLink
  <2>4. stage' \in [Observers -> {"none", "connecting", "sent", "task", "answered"}]
    BY <1>5 DEF WsHandle, Advance
  <2> QED
    BY <1>5, <2>1, <2>2, <2>3, <2>4 DEF WsHandle
<1>6. ASSUME NEW o \in Observers, WsDispose(o) PROVE SourceTypeOK' /\ WsTypeOK'
  BY <1>a, <1>6 DEF WsDispose, Leave
<1>7. ASSUME NEW o \in Observers, WsOnClose(o) PROVE SourceTypeOK' /\ WsTypeOK'
  BY <1>a, <1>7 DEF WsOnClose
<1>8. ASSUME NEW o \in Observers, WsRead(o) PROVE SourceTypeOK' /\ WsTypeOK'
  <2>1. pipe' \in [Observers -> Seq(0..MaxVersion)] /\ Head(pipe[o]) \in 0..MaxVersion
    BY <1>a, <1>8 DEF WsRead, Given
  <2>2. SourceTypeOK'
    BY <1>8, <2>1 DEF WsRead, Show
  <2>3. knowsId' \subseteq Observers /\ views' \in [Observers -> Nat]
    <3>1. knowsId' = knowsId \/ knowsId' = knowsId \cup {o}
      BY <1>8 DEF WsRead
    <3>2. views' = views \/ views' = [views EXCEPT ![o] = @ + 1]
      BY <1>8 DEF WsRead
    <3>3. [views EXCEPT ![o] = @ + 1] \in [Observers -> Nat]
      OBVIOUS
    <3> QED
      BY <3>1, <3>2, <3>3
  <2> QED
    BY <1>8, <2>1, <2>2, <2>3 DEF WsRead
<1>9. ASSUME NEW o \in Observers, WsReadNone(o) PROVE SourceTypeOK' /\ WsTypeOK'
  BY <1>a, <1>9 DEF WsReadNone, Leave
<1>10. ASSUME NEW o \in Observers, WsUnsubscribe(o) PROVE SourceTypeOK' /\ WsTypeOK'
  BY <1>a, <1>10 DEF WsUnsubscribe, Leave, CloseLink
<1>11. ASSUME NEW o \in Observers, WsLost(o) PROVE SourceTypeOK' /\ WsTypeOK'
  BY <1>a, <1>11 DEF WsLost, CloseLink
<1>12. ASSUME WsEmission PROVE SourceTypeOK' /\ WsTypeOK'
  <2>1. Emission
    BY <1>12 DEF WsEmission
  <2>2. SourceTypeOK'
    BY <1>12, <2>1, EmissionTypes, SMTT(30) DEF WsEmission
  <2>3. PICK reached \in SUBSET Observers :
          pipe' = [o \in Observers |-> IF o \in reached THEN Append(pipe[o], emitted') ELSE pipe[o]]
    BY <1>12 DEF WsEmission
  <2>4. pipe' \in [Observers -> Seq(0..MaxVersion)]
    <3>1. \A o \in Observers : Append(pipe[o], emitted') \in Seq(0..MaxVersion)
      BY <1>a, <2>1, EmissionTypes
    <3> QED
      BY <2>3, <3>1
  <2>5. wsSubs' \subseteq Observers /\ disturbed' \in BOOLEAN
    BY <1>12 DEF WsEmission
  <2> QED
    BY <1>12, <2>2, <2>4, <2>5 DEF WsEmission
<1> QED
  BY <1>1, <1>2, <1>3, <1>4, <1>5, <1>6, <1>7, <1>8, <1>9, <1>10, <1>11, <1>12
     DEF WsNext, WsServerTask, WsClientTask, WsOther

(* A poll stays one if a field of it is set.                               *)
LEMMA PollFields ==
  ASSUME NEW p \in PollState, NEW v \in 0..MaxVersion,
         NEW a \in {"none", "travelling", "waiting", "ready", "answered", "refused"}
  PROVE  /\ [p EXCEPT !.at = a] \in PollState
         /\ [p EXCEPT !.at = a, !.since = v] \in PollState
         /\ [p EXCEPT !.at = a, !.item = v] \in PollState
  BY DEF PollState

(* Polls stay polls if one of them becomes another.                        *)
LEMMA PollChanged ==
  ASSUME NEW f \in [Observers -> [1..MaxPolls -> PollState]], NEW o \in Observers, NEW n \in 1..MaxPolls,
         NEW p \in PollState
  PROVE  [f EXCEPT ![o] = [f[o] EXCEPT ![n] = p]] \in [Observers -> [1..MaxPolls -> PollState]]
  OBVIOUS

(* Steps of the Http binding.                                              *)
LEMMA HttpTypes ==
  ASSUME SourceTypeOK, HttpTypeOK, Polled, HttpNext
  PROVE  SourceTypeOK' /\ HttpTypeOK' /\ Polled'
<1> USE ObservedThingAssumption, MaxPollsAssumption
       DEF SourceTypeOK, HttpTypeOK, Polled, sourceVars, observerVars, httpVars
<1>1. ASSUME NEW o \in Observers, HttpSubscribe(o) PROVE SourceTypeOK' /\ HttpTypeOK' /\ Polled'
  BY <1>1 DEF HttpSubscribe, Observe
<1>2. ASSUME NEW o \in Observers, Poll(o) PROVE SourceTypeOK' /\ HttpTypeOK' /\ Polled'
  <2>1. sent'[o] \in 1..MaxPolls /\ sent' \in [Observers -> 0..MaxPolls]
    BY <1>2 DEF Poll
  <2>a. polls[o][sent'[o]] \in PollState
    BY <2>1
  <2>2. [polls[o][sent'[o]] EXCEPT !.at = "travelling"] \in PollState
    BY <2>a, PollFields
  <2>3. polls' = [polls EXCEPT ![o] =
          [polls[o] EXCEPT ![sent'[o]] = [polls[o][sent'[o]] EXCEPT !.at = "travelling"]]]
    BY <1>2 DEF Poll
  <2>4. polls' \in [Observers -> [1..MaxPolls -> PollState]]
    BY <2>1, <2>2, <2>3, PollChanged
  <2> QED
    BY <1>2, <2>1, <2>4 DEF Poll
<1>3. ASSUME NEW o \in Observers, NEW n \in 1..MaxPolls, HttpGet(o, n)
      PROVE  SourceTypeOK' /\ HttpTypeOK' /\ Polled'
  <2>1. PICK a \in {"waiting", "refused"} :
          polls' = [polls EXCEPT ![o] =
                      [polls[o] EXCEPT ![n] = [polls[o][n] EXCEPT !.at = a, !.since = emitted]]]
    BY <1>3 DEF HttpGet
  <2>2. polls[o][n] \in PollState /\ emitted \in 0..MaxVersion
    OBVIOUS
  <2>3. [polls[o][n] EXCEPT !.at = a, !.since = emitted] \in PollState
    BY <2>2, PollFields
  <2>4. polls' \in [Observers -> [1..MaxPolls -> PollState]]
    BY <2>1, <2>3, PollChanged
  <2> QED
    BY <1>3, <2>4 DEF HttpGet
<1>4. ASSUME NEW o \in Observers, NEW n \in 1..MaxPolls, HttpFinish(o, n)
      PROVE  SourceTypeOK' /\ HttpTypeOK' /\ Polled'
  <2>1. polls' = [polls EXCEPT ![o] = [polls[o] EXCEPT ![n] = [polls[o][n] EXCEPT !.at = "answered"]]]
    BY <1>4 DEF HttpFinish
  <2>2. polls[o][n] \in PollState
    OBVIOUS
  <2>3. [polls[o][n] EXCEPT !.at = "answered"] \in PollState
    BY <2>2, PollFields
  <2>4. polls' \in [Observers -> [1..MaxPolls -> PollState]]
    BY <2>1, <2>3, PollChanged
  <2> QED
    BY <1>4, <2>4 DEF HttpFinish
<1>5. ASSUME NEW o \in Observers, HttpAnswered(o) PROVE SourceTypeOK' /\ HttpTypeOK' /\ Polled'
  <2>1. CASE UNCHANGED observerVars
    BY <1>5, <2>1 DEF HttpAnswered
  <2>2. CASE Leave(o)
    BY <1>5, <2>2 DEF HttpAnswered, Leave
  <2>3. ASSUME NEW n \in Current(o), Show(o, polls[o][n].item), polls[o][n].at = "answered"
        PROVE  SourceTypeOK' /\ HttpTypeOK' /\ Polled'
    <3>1. polls[o][n] \in PollState
      BY <1>5, <2>3 DEF HttpAnswered, Current
    <3>2. polls[o][n].item \in 0..MaxVersion
      BY <3>1 DEF PollState
    <3> QED
      BY <1>5, <2>3, <3>2 DEF HttpAnswered, Show
  <2> QED
    BY <1>5, <2>1, <2>2, <2>3 DEF HttpAnswered
<1>6. ASSUME NEW o \in Observers, HttpTimesOut(o) PROVE SourceTypeOK' /\ HttpTypeOK' /\ Polled'
  BY <1>6 DEF HttpTimesOut
<1>7. ASSUME NEW o \in Observers, HttpUnsubscribe(o) PROVE SourceTypeOK' /\ HttpTypeOK' /\ Polled'
  BY <1>7 DEF HttpUnsubscribe, Leave
<1>8. ASSUME HttpEmission PROVE SourceTypeOK' /\ HttpTypeOK' /\ Polled'
  <2>1. Emission /\ emitted' \in 0..MaxVersion
    BY <1>8, EmissionTypes DEF HttpEmission
  <2>2. ASSUME NEW o \in Observers, NEW n \in 1..MaxPolls PROVE Resolved(polls[o][n], emitted') \in PollState
    <3>1. polls[o][n] \in PollState
      OBVIOUS
    <3>2. [polls[o][n] EXCEPT !.at = "ready", !.item = emitted'] \in PollState
      BY <2>1, <3>1, PollFields
    <3> QED
      BY <3>1, <3>2 DEF Resolved
  <2>3. SourceTypeOK'
    BY <1>8, <2>1, EmissionTypes DEF HttpEmission
  <2> QED
    BY <1>8, <2>2, <2>3 DEF HttpEmission
<1> QED
  BY <1>1, <1>2, <1>3, <1>4, <1>5, <1>6, <1>7, <1>8
     DEF HttpNext, HttpServerTask, HttpClientTask, HttpOther

(* What a rendering changes, which has to read the property or not.        *)
LEMMA RenderTypes ==
  ASSUME ObservedThingAssumption, CoapTypeOK, NEW o \in Observers, Render(o)
  PROVE  /\ rendering' \in [Observers -> {"no", "reads", "found"}]
         /\ rendered' \in [Observers -> 0..Gone] /\ notes' \in [Observers -> Seq(0..Gone)]
<1>1. CASE served /\ kind = "property"
  BY <1>1 DEF Render, CoapTypeOK
<1>2. CASE ~(served /\ kind = "property")
  <2> DEFINE shown == IF served THEN lastEvent ELSE Gone
  <2>1. /\ rendered' = [rendered EXCEPT ![o] = shown] /\ rendering' = rendering
        /\ notes' = [notes EXCEPT ![o] = Append(@, shown)]
    BY <1>2 DEF Render
  <2>2. shown \in 0..Gone
    BY DEF CoapTypeOK, Gone
  <2> HIDE DEF shown
  <2>3. Append(notes[o], shown) \in Seq(0..Gone)
    BY <2>2, SeqType DEF CoapTypeOK
  <2> QED
    BY <2>1, <2>2, <2>3 DEF CoapTypeOK
<1> QED
  BY <1>1, <1>2

(* Steps of the Coap binding.                                              *)
LEMMA CoapTypes ==
  ASSUME SourceTypeOK, CoapTypeOK, CoapNext
  PROVE  SourceTypeOK' /\ CoapTypeOK'
<1> USE ObservedThingAssumption
       DEF SourceTypeOK, CoapTypeOK, sourceVars, observerVars, coapVars, Gone
<1>a. \A o \in Observers : /\ \A v \in 0..Gone : Append(notes[o], v) \in Seq(0..Gone)
                         /\ notes[o] # <<>> => Tail(notes[o]) \in Seq(0..Gone) /\ Head(notes[o]) \in 0..Gone
  BY SeqType DEF CoapTypeOK
<1>1. ASSUME NEW o \in Observers, CoapSubscribe(o) PROVE SourceTypeOK' /\ CoapTypeOK'
  BY <1>a, <1>1 DEF CoapSubscribe, Observe
<1>2. ASSUME NEW o \in Observers, CoapGet(o) PROVE SourceTypeOK' /\ CoapTypeOK'
  BY RenderTypes, <1>2 DEF CoapGet
<1>3. ASSUME NEW o \in Observers, CoapRender(o) PROVE SourceTypeOK' /\ CoapTypeOK'
  BY RenderTypes, <1>3 DEF CoapRender
<1>4. ASSUME NEW o \in Observers, CoapRead(o) PROVE SourceTypeOK' /\ CoapTypeOK'
  <2>1. notes' \in [Observers -> Seq(0..Gone)] /\ Head(notes[o]) \in 0..Gone
    BY <1>a, <1>4 DEF CoapRead
  <2>2. SourceTypeOK'
    <3>1. CASE UNCHANGED observerVars
      BY <1>4, <3>1 DEF CoapRead
    <3>2. CASE Leave(o)
      BY <1>4, <3>2 DEF CoapRead, Leave
    <3>3. CASE Head(notes[o]) # Gone /\ Show(o, Head(notes[o]))
      BY <1>4, <2>1, <3>3 DEF CoapRead, Show
    <3> QED
      BY <1>4, <3>1, <3>2, <3>3 DEF CoapRead
  <2> QED
    BY <1>4, <2>1, <2>2 DEF CoapRead
<1>5. ASSUME NEW o \in Observers, CoapUnsubscribe(o) PROVE SourceTypeOK' /\ CoapTypeOK'
  BY <1>a, <1>5 DEF CoapUnsubscribe, Leave
<1>6. ASSUME NEW o \in Observers, CoapCancelled(o) PROVE SourceTypeOK' /\ CoapTypeOK'
  BY <1>a, <1>6 DEF CoapCancelled
<1>7. ASSUME CoapEmission PROVE SourceTypeOK' /\ CoapTypeOK'
  <2>1. Emission /\ emitted' \in 0..MaxVersion
    BY <1>7, EmissionTypes DEF CoapEmission
  <2>2. SourceTypeOK'
    BY <1>7, <2>1, EmissionTypes DEF CoapEmission
  <2> QED
    BY <1>7, <2>1, <2>2 DEF CoapEmission, Triggers
<1>8. ASSUME NEW o \in Observers, CoapFind(o) \/ CoapRespond(o) PROVE SourceTypeOK' /\ CoapTypeOK'
  <2>1. CASE CoapFind(o)
    BY <2>1 DEF CoapFind
  <2>2. CASE CoapRespond(o)
    BY <1>a, <2>2 DEF CoapRespond
  <2> QED
    BY <1>8, <2>1, <2>2
<1> QED
  BY <1>1, <1>2, <1>3, <1>4, <1>5, <1>6, <1>7, <1>8
     DEF CoapNext, CoapServerTask, CoapClientTask, CoapOther

(* What the items of the queue are, and the states of a loop.              *)
LEMMA ItemTypes ==
  ASSUME ObservedThingAssumption, topicSub \in BOOLEAN
  PROVE  /\ \A v \in 0..MaxVersion : Update(v) \in QueueItem /\ Ack(v) \in QueueItem
         /\ \A q \in QueueItem : q.version \in 0..MaxVersion
         /\ \A q \in QueueItem : \A a \in {"publish", "sleep"} : [at |-> a, item |-> q] \in LoopState
         /\ \A a \in {"ended", "get"} : [at |-> a] \in LoopState
         /\ \A l \in LoopState : l.at \in {"publish", "sleep"} =>
              l.item \in QueueItem /\ [l EXCEPT !.at = "publish"] = [at |-> "publish", item |-> l.item]
  BY DEF QueueItem, Update, Ack, LoopState

(* A loop that holds something holds an item.                              *)
LEMMA HoldersType ==
  ASSUME ObservedThingAssumption, TopicTypeOK
  PROVE  /\ Holders \subseteq Loops
         /\ \A g \in Holders : loops[g].item \in QueueItem /\ loops[g].item.version \in 0..MaxVersion
  BY ItemTypes DEF TopicTypeOK, Holders

(* What the broker does with a message.                                    *)
LEMMA SentTypes ==
  ASSUME ObservedThingAssumption, TopicTypeOK, NEW m \in QueueItem, Sent(m)
  PROVE  published' \in 0..MaxVersion /\ inbox' \in [Observers -> Seq(0..MaxVersion)]
<1>1. m.version \in 0..MaxVersion
  BY ItemTypes DEF TopicTypeOK
<1>2. published' \in {published, m.version}
  BY DEF Sent
<1>3. \/ inbox' = inbox
      \/ inbox' = [o \in Observers |-> IF o \in listening THEN Append(inbox[o], m.version) ELSE inbox[o]]
  BY DEF Sent
<1>4. \A o \in Observers : Append(inbox[o], m.version) \in Seq(0..MaxVersion)
  BY <1>1, SeqType DEF TopicTypeOK
<1> QED
  BY <1>1, <1>2, <1>3, <1>4 DEF TopicTypeOK

(* Steps of the topic bindings.                                            *)
LEMMA TopicTypes ==
  ASSUME SourceTypeOK, TopicTypeOK, TopicNext
  PROVE  SourceTypeOK' /\ TopicTypeOK'
<1> USE ObservedThingAssumption, TopicObservationAssumption
       DEF SourceTypeOK, TopicTypeOK, sourceVars, observerVars, topicVars, runnerVars, requestVars,
           readVars, loopVars, brokerVars
<1>a. /\ \A o \in Observers : /\ \A v \in 0..MaxVersion : Append(inbox[o], v) \in Seq(0..MaxVersion)
                             /\ inbox[o] # <<>> => /\ Tail(inbox[o]) \in Seq(0..MaxVersion)
                                                  /\ Head(inbox[o]) \in 0..MaxVersion
      /\ queue # <<>> => Head(queue) \in QueueItem /\ Tail(queue) \in Seq(QueueItem)
      /\ \A q \in QueueItem : Append(queue, q) \in Seq(QueueItem)
      /\ \A r \in {"read", "write"} : Append(arrivals, r) \in Seq({"read", "write"})
      /\ arrivals # <<>> => Head(arrivals) \in {"read", "write"} /\ Tail(arrivals) \in Seq({"read", "write"})
      /\ buffer # <<>> => Tail(buffer) \in Seq({"read", "write"}) /\ Len(Tail(buffer)) <= Len(buffer)
      /\ \A r \in {"read", "write"} : Append(buffer, r) \in Seq({"read", "write"})
           /\ Len(Append(buffer, r)) = Len(buffer) + 1
      /\ Len(buffer) \in Nat
  <2>1. \A o \in Observers : \A v \in 0..MaxVersion : Append(inbox[o], v) \in Seq(0..MaxVersion)
    BY SeqType
  <2>2. \A o \in Observers : inbox[o] # <<>> => /\ Tail(inbox[o]) \in Seq(0..MaxVersion)
                                                /\ Head(inbox[o]) \in 0..MaxVersion
    BY SeqType
  <2>3. queue # <<>> => Head(queue) \in QueueItem /\ Tail(queue) \in Seq(QueueItem)
    BY SeqType
  <2>4. \A q \in QueueItem : Append(queue, q) \in Seq(QueueItem)
    BY SeqType
  <2>5. \A r \in {"read", "write"} : Append(arrivals, r) \in Seq({"read", "write"})
    BY SeqType
  <2>6. arrivals # <<>> => Head(arrivals) \in {"read", "write"} /\ Tail(arrivals) \in Seq({"read", "write"})
    BY SeqType
  <2>7. buffer # <<>> => Tail(buffer) \in Seq({"read", "write"}) /\ Len(Tail(buffer)) <= Len(buffer)
    BY SeqType
  <2>8. \A r \in {"read", "write"} : Append(buffer, r) \in Seq({"read", "write"})
                                   /\ Len(Append(buffer, r)) = Len(buffer) + 1
    BY SeqType
  <2>9. Len(buffer) \in Nat
    OBVIOUS
  <2> QED
    BY <2>1, <2>2, <2>3, <2>4, <2>5, <2>6, <2>7, <2>8, <2>9
<1>b. \A v \in 0..MaxVersion : Update(v) \in QueueItem /\ Ack(v) \in QueueItem
  BY ItemTypes
<1>c. \A q \in QueueItem : q.version \in 0..MaxVersion
  BY ItemTypes
<1>d. /\ \A q \in QueueItem : \A a \in {"publish", "sleep"} : [at |-> a, item |-> q] \in LoopState
      /\ \A a \in {"ended", "get"} : [at |-> a] \in LoopState
      /\ \A l \in LoopState : l.at \in {"publish", "sleep"} =>
           l.item \in QueueItem /\ [l EXCEPT !.at = "publish"] = [at |-> "publish", item |-> l.item]
  BY ItemTypes
<1>e. ASSUME NEW g \in Loops, NEW l \in LoopState PROVE [loops EXCEPT ![g] = l] \in [Loops -> LoopState]
  OBVIOUS
<1>f. ASSUME NEW by \in SUBSET Holders PROVE UpdatesHeld(by) \subseteq 0..MaxVersion
  BY DEF UpdatesHeld
<1>1. ASSUME TopicStart PROVE SourceTypeOK' /\ TopicTypeOK'
  <2>1. starts \in Loops /\ starts' \in 0..MaxStarts
    BY <1>1 DEF TopicStart, Loops
  <2>2. loops' \in [Loops -> LoopState]
    BY <1>1, <1>d, <1>e, <2>1 DEF TopicStart
  <2> QED
    BY <1>1, <2>1, <2>2 DEF TopicStart, Refreshed
<1>2. ASSUME Refresh \/ TopicStop PROVE SourceTypeOK' /\ TopicTypeOK'
  BY <1>2 DEF TopicStop, Refresh, Refreshed
<1>3. ASSUME TopicRequest PROVE SourceTypeOK' /\ TopicTypeOK'
  <2>1. requests' \in Nat
    BY <1>3 DEF TopicRequest
  <2>2. arrivals' \in Seq({"read", "write"})
    BY <1>a, <1>3 DEF TopicRequest
  <2> QED
    BY <1>3, <2>1, <2>2 DEF TopicRequest
<1>4. ASSUME Buffered PROVE SourceTypeOK' /\ TopicTypeOK'
  <2>1. arrivals' \in Seq({"read", "write"})
    BY <1>a, <1>4 DEF Buffered
  <2>2. buffer' = buffer \/ (Len(buffer) < BufferSize /\ buffer' = Append(buffer, Head(arrivals)))
    BY <1>4 DEF Buffered, Fits
  <2>3. arrivals # <<>>
    BY <1>4 DEF Buffered
  <2>4. buffer' \in Seq({"read", "write"}) /\ Len(buffer') <= BufferSize
    <3>1. /\ Append(buffer, Head(arrivals)) \in Seq({"read", "write"})
          /\ Len(Append(buffer, Head(arrivals))) = Len(buffer) + 1 /\ Len(buffer) \in Nat
      BY <1>a, <2>3
    <3>2. BufferSize \in Nat /\ buffer \in Seq({"read", "write"}) /\ Len(buffer) <= BufferSize
      OBVIOUS
    <3>3. CASE buffer' = buffer
      BY <3>2, <3>3
    <3>4. CASE Len(buffer) < BufferSize /\ buffer' = Append(buffer, Head(arrivals))
      BY <3>1, <3>2, <3>4
    <3> QED
      BY <2>2, <3>3, <3>4
  <2> QED
    BY <1>4, <2>1, <2>4 DEF Buffered
<1>5. ASSUME HandleRead \/ FindValue \/ \E v \in 0..MaxVersion : AnswerRead(v)
      PROVE  SourceTypeOK' /\ TopicTypeOK'
  <2>1. CASE HandleRead
    <3>1. buffer' \in Seq({"read", "write"}) /\ Len(buffer') <= BufferSize
      BY <1>a, <2>1 DEF HandleRead
    <3>2. reading' \in Nat
      BY <2>1 DEF HandleRead
    <3> QED
      BY <2>1, <3>1, <3>2 DEF HandleRead
  <2>2. CASE FindValue
    <3>1. reading' \in Nat /\ found' \in [0..MaxVersion -> Nat]
      BY <2>2 DEF FindValue
    <3> QED
      BY <2>2, <3>1 DEF FindValue
  <2>3. ASSUME NEW v \in 0..MaxVersion, AnswerRead(v) PROVE SourceTypeOK' /\ TopicTypeOK'
    <3>1. found' \in [0..MaxVersion -> Nat] /\ stale' \subseteq 0..MaxVersion
      <4>1. found[v] \in Nat /\ found[v] > 0 /\ found' = [found EXCEPT ![v] = found[v] - 1]
        BY <2>3 DEF AnswerRead
      <4>2. found[v] - 1 \in Nat
        BY <4>1
      <4>3. found' \in [0..MaxVersion -> Nat]
        BY <4>1, <4>2
      <4> QED
        BY <2>3, <4>3 DEF AnswerRead
    <3>2. queue' \in Seq(QueueItem)
      BY <1>a, <1>b, <2>3 DEF AnswerRead
    <3> QED
      BY <2>3, <3>1, <3>2 DEF AnswerRead
  <2> QED
    BY <1>5, <2>1, <2>2, <2>3
<1>6. ASSUME HandleWrite PROVE SourceTypeOK' /\ TopicTypeOK'
  <2>1. buffer' \in Seq({"read", "write"}) /\ Len(buffer') <= BufferSize
    BY <1>a, <1>6 DEF HandleWrite
  <2>2. SourceTypeOK'
    BY <1>6, ThingTypes DEF HandleWrite
  <2>3. writing' \in BOOLEAN
    BY <1>6 DEF HandleWrite
  <2> QED
    BY <1>6, <2>1, <2>2, <2>3 DEF HandleWrite
<1>7. ASSUME TopicEmission PROVE SourceTypeOK' /\ TopicTypeOK'
  <2>1. Emission /\ emitted' \in 0..MaxVersion
    BY <1>7, EmissionTypes DEF TopicEmission
  <2>2. SourceTypeOK'
    BY <1>7, <2>1, ThingTypes DEF TopicEmission, Emission
  <2>3. Update(emitted') \in QueueItem /\ Ack(emitted') \in QueueItem
    BY <1>b, <2>1
  <2>4. PICK u \in {<<>>, <<Update(emitted')>>}, a \in {<<>>, <<Ack(emitted')>>} : queue' = queue \o u \o a
    BY <1>7 DEF TopicEmission, Queued
  <2>5. u \in Seq(QueueItem) /\ a \in Seq(QueueItem)
    <3>1. <<>> \in Seq(QueueItem) /\ <<Update(emitted')>> \in Seq(QueueItem)
          /\ <<Ack(emitted')>> \in Seq(QueueItem)
      BY <2>3
    <3> QED
      BY <3>1
  <2>6. queue' \in Seq(QueueItem)
    BY <2>4, <2>5
  <2> QED
    BY <1>7, <2>2, <2>6 DEF TopicEmission
<1>8. ASSUME NEW g \in Loops, Take(g) PROVE SourceTypeOK' /\ TopicTypeOK'
  <2>1. Head(queue) \in QueueItem /\ queue' \in Seq(QueueItem)
    BY <1>a, <1>8 DEF Take
  <2>2. loops' \in [Loops -> LoopState]
    BY <1>8, <1>d, <1>e, <2>1 DEF Take
  <2>3. held' \subseteq 0..MaxVersion
    BY <1>8, <1>f DEF Take
  <2> QED
    BY <1>8, <2>1, <2>2, <2>3 DEF Take
<1>9. ASSUME NEW g \in Loops, Publish(g) \/ PublishFails(g) \/ TryAgain(g) \/ LoopEnds(g)
      PROVE  SourceTypeOK' /\ TopicTypeOK'
  <2>1. CASE Publish(g)
    <3>1. loops[g].item \in QueueItem /\ loops' \in [Loops -> LoopState]
      BY <1>d, <1>e, <2>1 DEF Publish
    <3>2. published' \in 0..MaxVersion /\ inbox' \in [Observers -> Seq(0..MaxVersion)]
      BY SentTypes, <2>1, <3>1 DEF Publish
    <3> QED
      BY <2>1, <3>1, <3>2 DEF Publish
  <2>2. CASE PublishFails(g)
    <3>1. loops[g].item \in QueueItem /\ loops' \in [Loops -> LoopState]
      BY <1>d, <1>e, <2>2 DEF PublishFails, Kept
    <3>2. losses' \in Nat
      BY <2>2 DEF PublishFails
    <3>3. published' \in 0..MaxVersion /\ inbox' \in [Observers -> Seq(0..MaxVersion)]
      BY SentTypes, <2>2, <3>1 DEF PublishFails
    <3> QED
      BY <2>2, <3>1, <3>2, <3>3 DEF PublishFails
  <2>3. CASE TryAgain(g)
    <3>1. loops' \in [Loops -> LoopState]
      BY <1>d, <1>e, <2>3 DEF TryAgain
    <3> QED
      BY <2>3, <3>1 DEF TryAgain
  <2>4. CASE LoopEnds(g)
    <3>1. loops' \in [Loops -> LoopState] /\ held' \subseteq 0..MaxVersion
      BY <1>d, <1>e, <1>f, <2>4 DEF LoopEnds
    <3> QED
      BY <2>4, <3>1 DEF LoopEnds
  <2> QED
    BY <1>9, <2>1, <2>2, <2>3, <2>4
<1>10. ASSUME NEW o \in Observers, TopicSubscribe(o) \/ Listens(o) PROVE SourceTypeOK' /\ TopicTypeOK'
  BY <1>10 DEF TopicSubscribe, Listens, Observe
<1>11. ASSUME NEW o \in Observers, TopicRead(o) PROVE SourceTypeOK' /\ TopicTypeOK'
  <2>a. inbox[o] # <<>> /\ inbox' = [inbox EXCEPT ![o] = Tail(@)]
    BY <1>11 DEF TopicRead
  <2>b. Tail(inbox[o]) \in Seq(0..MaxVersion) /\ Head(inbox[o]) \in 0..MaxVersion
    BY <1>a, <2>a
  <2>1. Head(inbox[o]) \in 0..MaxVersion /\ inbox' \in [Observers -> Seq(0..MaxVersion)]
    BY <2>a, <2>b
  <2>2. SourceTypeOK'
    BY <1>11, <2>1 DEF TopicRead, Show
  <2> QED
    BY <1>11, <2>1, <2>2 DEF TopicRead
<1>12. ASSUME NEW o \in Observers, TopicUnsubscribe(o) PROVE SourceTypeOK' /\ TopicTypeOK'
  <2>1. SourceTypeOK'
    BY <1>12 DEF TopicUnsubscribe, Leave
  <2>2. listening' \subseteq Observers /\ inbox' \in [Observers -> Seq(0..MaxVersion)]
    <3>1. <<>> \in Seq(0..MaxVersion)
      OBVIOUS
    <3> QED
      BY <1>12, <3>1 DEF TopicUnsubscribe
  <2> QED
    BY <1>12, <2>1, <2>2 DEF TopicUnsubscribe
<1> QED
  BY <1>1, <1>2, <1>3, <1>4, <1>5, <1>6, <1>7, <1>8, <1>9, <1>10, <1>11, <1>12
     DEF TopicNext, TopicServerTask, LoopTask, TopicClientTask

(* The types hold in every state, of whichever binding.                    *)
LEMMA TypeInvariance == Spec => []TypeInv
<1>1. ASSUME TypeInv, [Next]_vars PROVE TypeInv'
  <2>1. CASE StoreLocally \/ ToggleThing
    BY <1>1, <2>1, SourceTypes
  <2>2. CASE WsNext /\ WsOnly
    BY <1>1, <2>2, WsTypes DEF TypeInv, TypeOK, WsOnly
  <2>3. CASE HttpNext /\ HttpOnly
    BY <1>1, <2>3, HttpTypes DEF TypeInv, TypeOK, HttpOnly
  <2>4. CASE CoapNext /\ CoapOnly
    BY <1>1, <2>4, CoapTypes DEF TypeInv, TypeOK, CoapOnly
  <2>5. CASE TopicNext /\ TopicOnly
    BY <1>1, <2>5, TopicTypes DEF TypeInv, TypeOK, TopicOnly
  <2>6. CASE UNCHANGED vars
    BY <1>1, <2>6
       DEF TypeInv, TypeOK, Polled, SourceTypeOK, WsTypeOK, HttpTypeOK, CoapTypeOK, TopicTypeOK,
           vars, sourceVars, observerVars, wsVars, httpVars, coapVars, topicVars, runnerVars,
           requestVars, readVars, loopVars, brokerVars
  <2> QED
    BY <1>1, <2>1, <2>2, <2>3, <2>4, <2>5, <2>6, NextCases
<1> QED
  BY <1>1, TypeInit, PTL DEF Spec

(* Every variable keeps its type, whichever binding is used.               *)
THEOREM TypeCorrect == Spec => []TypeOK
<1>1. TypeInv => TypeOK
  BY DEF TypeInv
<1> QED
  BY <1>1, TypeInvariance, PTL

-----------------------------------------------------------------------------
(* What is on its way to an observer.                                      *)

(* The items of s, but for the gaps, rise from lo to hi.                   *)
Rises(s, gaps, lo, hi) ==
  /\ \A i \in DOMAIN s : s[i] \notin gaps => lo <= s[i] /\ s[i] <= hi
  /\ \A i, j \in DOMAIN s : i <= j /\ s[i] \notin gaps /\ s[j] \notin gaps => s[i] <= s[j]

(* Nothing is in order.                                                    *)
LEMMA EmptyRises == ASSUME NEW gaps, NEW lo, NEW hi PROVE Rises(<<>>, gaps, lo, hi)
  BY DEF Rises

(* More may come.                                                          *)
LEMMA HigherRises ==
  ASSUME NEW s \in Seq(Nat), NEW gaps, NEW lo \in Nat, NEW hi \in Nat, NEW top \in Nat,
         Rises(s, gaps, lo, hi), hi <= top
  PROVE  Rises(s, gaps, lo, top)
<1>1. \A i \in DOMAIN s : s[i] \in Nat
  OBVIOUS
<1> QED
  BY <1>1 DEF Rises

(* An item that is at least as high as all may be appended, and a gap.     *)
LEMMA AppendRises ==
  ASSUME NEW s \in Seq(Nat), NEW gaps, NEW lo \in Nat, NEW hi \in Nat, NEW m \in Nat,
         Rises(s, gaps, lo, hi), lo <= hi, m \in gaps \/ hi <= m, NEW top \in Nat, hi <= top, m \in gaps
         \/ m <= top
  PROVE  Rises(Append(s, m), gaps, lo, top)
<1>1. /\ DOMAIN s = 1..Len(s) /\ Len(s) \in Nat /\ DOMAIN Append(s, m) = 1..(Len(s) + 1)
      /\ Append(s, m)[Len(s) + 1] = m /\ \A i \in 1..Len(s) : Append(s, m)[i] = s[i] /\ s[i] \in Nat
  OBVIOUS
<1>2. \A i \in 1..(Len(s) + 1) : i \in 1..Len(s) \/ i = Len(s) + 1
  BY <1>1
<1>3. ASSUME NEW i \in DOMAIN Append(s, m), Append(s, m)[i] \notin gaps
      PROVE  lo <= Append(s, m)[i] /\ Append(s, m)[i] <= top
  <2>1. CASE i \in 1..Len(s)
    BY <1>1, <1>3, <2>1 DEF Rises
  <2>2. CASE i = Len(s) + 1
    BY <1>1, <1>3, <2>2
  <2> QED
    BY <1>1, <1>2, <2>1, <2>2
<1>4. ASSUME NEW i \in DOMAIN Append(s, m), NEW j \in DOMAIN Append(s, m), i <= j,
             Append(s, m)[i] \notin gaps, Append(s, m)[j] \notin gaps
      PROVE  Append(s, m)[i] <= Append(s, m)[j]
  <2>1. CASE j \in 1..Len(s)
    BY <1>1, <1>4, <2>1 DEF Rises
  <2>2. CASE j = Len(s) + 1 /\ i = Len(s) + 1
    BY <1>1, <1>4, <2>2
  <2>3. CASE j = Len(s) + 1 /\ i \in 1..Len(s)
    <3>1. s[i] <= hi /\ hi <= m /\ s[i] \in Nat
      BY <1>1, <1>4, <2>3 DEF Rises
    <3> QED
      BY <1>1, <2>3, <3>1
  <2> QED
    BY <1>1, <1>2, <2>1, <2>2, <2>3
<1> QED
  BY <1>3, <1>4 DEF Rises

(* What follows the head is not below it.                                  *)
LEMMA TailRises ==
  ASSUME NEW s \in Seq(Nat), NEW gaps, NEW lo \in Nat, NEW hi \in Nat, Rises(s, gaps, lo, hi), s # <<>>
  PROVE  /\ Tail(s) \in Seq(Nat) /\ Head(s) \in Nat
         /\ Rises(Tail(s), gaps, lo, hi)
         /\ Head(s) \notin gaps => /\ lo <= Head(s) /\ Head(s) <= hi
                                  /\ Rises(Tail(s), gaps, Head(s), hi) /\ Rises(s, gaps, Head(s), hi)
<1>1. /\ DOMAIN s = 1..Len(s) /\ Len(s) \in Nat /\ Head(s) = s[1] /\ 1 \in DOMAIN s
      /\ Tail(s) \in Seq(Nat) /\ DOMAIN Tail(s) = 1..(Len(s) - 1)
      /\ \A i \in 1..(Len(s) - 1) : Tail(s)[i] = s[i + 1] /\ i + 1 \in DOMAIN s
      /\ \A i \in DOMAIN s : s[i] \in Nat /\ 1 <= i
  OBVIOUS
<1>2. Rises(Tail(s), gaps, lo, hi)
  <2>1. ASSUME NEW i \in DOMAIN Tail(s), Tail(s)[i] \notin gaps PROVE lo <= Tail(s)[i] /\ Tail(s)[i] <= hi
    <3>1. Tail(s)[i] = s[i + 1] /\ i + 1 \in DOMAIN s
      BY <1>1
    <3> QED
      BY <2>1, <3>1 DEF Rises
  <2>2. ASSUME NEW i \in DOMAIN Tail(s), NEW j \in DOMAIN Tail(s), i <= j,
               Tail(s)[i] \notin gaps, Tail(s)[j] \notin gaps
        PROVE  Tail(s)[i] <= Tail(s)[j]
    <3>1. i \in 1..(Len(s) - 1) /\ j \in 1..(Len(s) - 1) /\ i + 1 <= j + 1
      BY <1>1, <2>2
    <3>2. Tail(s)[i] = s[i + 1] /\ i + 1 \in DOMAIN s
      BY <1>1, <3>1
    <3>3. Tail(s)[j] = s[j + 1] /\ j + 1 \in DOMAIN s
      BY <1>1, <3>1
    <3> QED
      BY <2>2, <3>1, <3>2, <3>3 DEF Rises
  <2> QED
    BY <2>1, <2>2 DEF Rises
<1>3. ASSUME Head(s) \notin gaps
      PROVE  /\ lo <= Head(s) /\ Head(s) <= hi
             /\ \A i \in DOMAIN s : s[i] \notin gaps => Head(s) <= s[i] /\ s[i] <= hi
  BY <1>1, <1>3 DEF Rises
<1>4. ASSUME Head(s) \notin gaps PROVE Rises(s, gaps, Head(s), hi)
  BY <1>3, <1>4 DEF Rises
<1>5. ASSUME Head(s) \notin gaps PROVE Rises(Tail(s), gaps, Head(s), hi)
  BY <1>1, <1>2, <1>3, <1>5 DEF Rises
<1> QED
  BY <1>1, <1>2, <1>3, <1>4, <1>5

-----------------------------------------------------------------------------
(* The invariants.                                                         *)

(* The stream follows the thing.                                           *)
SourceInv ==
  /\ kind = "event" => version = emitted
  /\ \A o \in Observers : since[o] <= emitted

WsInv == \A o \in Observers : seen[o] <= emitted /\ Rises(pipe[o], {Id}, seen[o], emitted)

(* A poll that the observer waits for is not answered with what it knows.  *)
HttpInv ==
  \A o \in Observers :
    /\ seen[o] <= emitted
    /\ \A n \in 1..MaxPolls :
         /\ polls[o][n].at = "waiting" => polls[o][n].since = emitted
         /\ polls[o][n].at \in {"ready", "answered"} =>
              /\ polls[o][n].item = polls[o][n].since + 1 /\ polls[o][n].item <= emitted
              /\ n = sent[o] /\ polling[o] => seen[o] <= polls[o][n].item

(* What there is to show unless the thing is gone.                         *)
Newest == IF kind = "property" THEN version ELSE lastEvent

(* What was found for an observer follows what is on its way to it, and    *)
(* only a request that was taken renders anything.                         *)
NotesInv(o) ==
  /\ seen[o] <= Newest /\ Rises(notes[o], {Gone}, seen[o], Newest)
  /\ rendering[o] = "found" => /\ seen[o] <= rendered[o] /\ rendered[o] <= Newest
                              /\ Rises(notes[o], {Gone}, seen[o], rendered[o])
  /\ rendering[o] # "no" => asked[o] = "taken" /\ kind = "property"
  /\ status[o] = "off" => asked[o] = "none"

CoapInv ==
  /\ lastEvent <= emitted
  /\ \A o \in Observers : NotesInv(o)
  /\ \A o \in coapSubs : /\ asked[o] = "taken"
                         /\ kind = "event" /\ since[o] < emitted => lastEvent = emitted
  /\ LastIsOnItsWay

(* What the loops have to publish, the numbers they have taken or that     *)
(* have gone out, and that an item does not come after a newer one unless  *)
(* it was held back.                                                       *)
Waiting == {queue[i] : i \in DOMAIN queue} \cup {loops[g].item : g \in Holders}

Ahead ==
  {loops[g].item.version : g \in Holders} \cup {seen[o] : o \in Observers}
    \cup UNION {{inbox[o][i] : i \in DOMAIN inbox[o]} : o \in Observers}

Follows(m, n, late) == m.topic = "update" /\ m.version \notin late => n <= m.version

AheadInv == \A n \in Ahead : n <= version /\ \A m \in Waiting : Follows(m, n, held \cup stale)

InOrder(q, top, late) ==
  \A i \in DOMAIN q : q[i].version <= top /\ \A j \in 1..i : Follows(q[i], q[j].version, late)

Arrives(s, low, late) ==
  \A i \in DOMAIN s : s[i] \notin late => low <= s[i] /\ \A j \in 1..i : s[j] <= s[i]

(* The values of the reads under way have been there, and no loop that is  *)
(* still to start holds anything.                                          *)
SlotInv ==
  /\ \A v \in 0..MaxVersion : found[v] > 0 => v <= version
  /\ \A g \in Loops : g <= starts => loops[g].at = "ended"

(* The update of a write is published, given up, held, or ahead of the ACK.*)
Settled == {v \in 0..MaxVersion : published >= v \/ v \in held \/ Holds(Update(v))}

AcksFollow(q, settled) ==
  \A i \in DOMAIN q :
    q[i].topic = "ack" /\ q[i].owed =>
      q[i].version \in settled \/ \E j \in 1..(i - 1) : q[j] = Update(q[i].version)

TopicInv ==
  /\ AheadInv /\ InOrder(queue, version, held \cup stale)
  /\ \A o \in Observers : Arrives(inbox[o], seen[o], held \cup stale)
  /\ SlotInv /\ AcksFollow(queue, Settled) /\ UpdateBeforeAck

DataInv ==
  /\ TypeInv /\ SourceInv /\ NoSubscriptionLeft
  /\ binding = "ws" => WsInv
  /\ binding = "http" => HttpInv
  /\ binding = "coap" => CoapInv
  /\ binding = "topic" => TopicInv

StreamStep == Stream!StreamStep \/ UNCHANGED Stream!streamVars

(* The initial state satisfies them, and is one of the stream.             *)
LEMMA DataInit == Init => DataInv /\ Stream!StreamInit
<1> SUFFICES ASSUME Init PROVE DataInv /\ Stream!StreamInit
  OBVIOUS
<1>1. TypeInv
  BY TypeInit
<1>2. SourceInv /\ NoSubscriptionLeft /\ Stream!StreamInit
  BY DEF Init, SourceInit, SourceInv, NoSubscriptionLeft, WsInit, TopicInit, Stream!StreamInit
<1>3. WsInv
  <2> SUFFICES ASSUME NEW o \in Observers PROVE seen[o] <= emitted /\ Rises(pipe[o], {Id}, seen[o], emitted)
    BY DEF WsInv
  <2>1. seen[o] = 0 /\ emitted = 0 /\ pipe[o] = <<>>
    BY DEF Init, SourceInit, WsInit
  <2> QED
    BY <2>1, EmptyRises
<1>4. HttpInv
  <2>1. \A o \in Observers : seen[o] = 0 /\ \A n \in 1..MaxPolls : polls[o][n].at = "none"
    BY DEF Init, SourceInit, HttpInit
  <2>a. emitted = 0
    BY DEF Init, SourceInit
  <2>2. \A o \in Observers : seen[o] <= emitted
    <3> TAKE o \in Observers
    <3>1. seen[o] = 0
      BY <2>1
    <3> QED
      BY <2>a, <3>1
  <2>3. \A o \in Observers, n \in 1..MaxPolls : polls[o][n].at \notin {"waiting", "ready", "answered"}
    BY <2>1
  <2> QED
    BY <2>2, <2>3 DEF HttpInv
<1>5. CoapInv
  BY EmptyRises DEF Init, SourceInit, CoapInit, CoapInv, NotesInv, Newest, LastIsOnItsWay
<1>6. TopicInv
  <2>1. /\ DOMAIN <<>> = {} /\ queue = <<>> /\ Holders = {} /\ version = 0
        /\ \A o \in Observers : inbox[o] = <<>> /\ seen[o] = 0
    BY DEF Init, SourceInit, TopicInit, Holders
  <2>2. Waiting = {} /\ \A n \in Ahead : n = 0
    BY <2>1 DEF Waiting, Ahead
  <2>3. AheadInv /\ InOrder(queue, version, held \cup stale)
        /\ \A o \in Observers : Arrives(inbox[o], seen[o], held \cup stale)
    BY <2>1, <2>2 DEF AheadInv, InOrder, Arrives
  <2>4. SlotInv /\ AcksFollow(queue, Settled) /\ UpdateBeforeAck
    BY <2>1 DEF Init, TopicInit, SlotInv, AcksFollow, UpdateBeforeAck
  <2> QED
    BY <2>3, <2>4 DEF TopicInv
<1> QED
  BY <1>1, <1>2, <1>3, <1>4, <1>5, <1>6 DEF DataInv

-----------------------------------------------------------------------------
(* The steps of observers, as those of the stream.                         *)

(* Subscribing is a step of the stream.                                    *)
LEMMA StreamObserves ==
  ASSUME NEW o \in Observers, Observe(o), UNCHANGED <<version, held, stale>> PROVE StreamStep
  BY DEF Observe, StreamStep, Stream!StreamStep, Stream!Observe

(* So is unsubscribing.                                                    *)
LEMMA StreamLeaves ==
  ASSUME NEW o \in Observers, Leave(o), UNCHANGED <<version, held, stale>> PROVE StreamStep
  BY DEF Leave, StreamStep, Stream!StreamStep, Stream!Leave

(* So is showing an observer an item that is no newer than what was        *)
(* emitted, and no older than what it saw or held back on its way.         *)
LEMMA StreamShows ==
  ASSUME SourceTypeOK, NEW o \in Observers, NEW v \in Nat, Show(o, v), status[o] = "on",
         seen[o] <= v \/ v \in held \cup stale, v <= version, UNCHANGED <<version, held, stale>>
  PROVE  StreamStep
<1>1. v \in 0..version /\ (v >= seen[o] \/ v \in held \cup stale)
  BY ObservedThingAssumption DEF SourceTypeOK
<1> QED
  BY <1>1 DEF Show, StreamStep, Stream!StreamStep, Stream!Show

(* So is holding back items that have been emitted.                        *)
LEMMA StreamHolds ==
  ASSUME NEW items \in SUBSET (0..version), held' \cup stale' = (held \cup stale) \cup items,
         UNCHANGED <<version, observerVars>>
  PROVE  StreamStep
  BY DEF StreamStep, Stream!StreamStep, Stream!HoldBack, observerVars

(* What an emission changes of the stream and of what is known of it.      *)
LEMMA StreamEmits ==
  ASSUME SourceTypeOK, SourceInv, Emission, UNCHANGED <<since, observerVars, held, stale>>
  PROVE  /\ SourceInv' /\ StreamStep
         /\ emitted' = emitted + 1 /\ emitted' = version' /\ version' >= version
<1>1. /\ emitted' = emitted + 1 /\ emitted' = version' /\ version' >= version
      /\ version' = version \/ version' = version + 1
  BY ObservedThingAssumption DEF SourceTypeOK, SourceInv, Emission
<1>2. SourceInv'
  BY <1>1, ObservedThingAssumption DEF SourceInv, SourceTypeOK, Emission
<1>3. StreamStep
  BY <1>1 DEF StreamStep, Stream!StreamStep, Stream!Change, Stream!streamVars, observerVars
<1> QED
  BY <1>1, <1>2, <1>3

(* A step that leaves observers and emissions alone is none of the stream. *)
LEMMA StreamStays == ASSUME UNCHANGED <<version, observerVars, held, stale>> PROVE StreamStep
  BY DEF StreamStep, Stream!streamVars, observerVars

-----------------------------------------------------------------------------
(* WebSockets.                                                             *)

(* The observers are shown what the connection carries, in its order.      *)
LEMMA WsKeeps ==
  ASSUME SourceTypeOK, WsTypeOK, SourceInv, WsInv, WsNext, UNCHANGED <<held, stale>>
  PROVE  SourceInv' /\ WsInv' /\ StreamStep
<1> USE DEF sourceVars, observerVars
<1>0. /\ emitted \in Nat /\ version \in Nat /\ emitted <= version /\ 0 \in Nat
      /\ \A o \in Observers : pipe[o] \in Seq(Nat) /\ seen[o] \in Nat /\ since[o] \in Nat
  <2>1. Seq(0..MaxVersion) \subseteq Seq(Nat)
    BY ObservedThingAssumption
  <2> QED
    BY <2>1, ObservedThingAssumption DEF SourceTypeOK, WsTypeOK
<1>1. ASSUME UNCHANGED <<sourceVars, since, seen, pipe>> PROVE SourceInv' /\ WsInv'
  BY <1>1 DEF SourceInv, WsInv
<1>2. ASSUME NEW o \in Observers, UNCHANGED sourceVars,
             UNCHANGED since \/ since' = [since EXCEPT ![o] = emitted]
      PROVE  SourceInv'
  <2>1. \A p \in Observers : since'[p] = since[p] \/ since'[p] = emitted
    BY <1>2 DEF SourceTypeOK
  <2> QED
    BY <1>0, <1>2, <2>1 DEF SourceInv
<1>3. ASSUME NEW o \in Observers,
             WsSubscribe(o) \/ WsUnsubscribe(o) \/ WsConnectFails(o) \/ WsReadNone(o) \/ WsDispose(o)
      PROVE  SourceInv' /\ WsInv' /\ StreamStep
  <2>1. UNCHANGED <<sourceVars, since, seen, pipe>>
    BY <1>3
       DEF WsSubscribe, WsUnsubscribe, WsConnectFails, WsReadNone, WsDispose, Observe, Leave, wsVars
  <2>2. (Observe(o) \/ Leave(o)) /\ UNCHANGED version
    BY <1>3, <2>1 DEF WsSubscribe, WsUnsubscribe, WsConnectFails, WsReadNone, WsDispose
  <2> QED
    BY <1>1, <2>1, <2>2, StreamObserves, StreamLeaves
<1>4. ASSUME NEW o \in Observers, WsConnected(o) \/ WsOnMessage(o) \/ WsOnClose(o)
      PROVE  SourceInv' /\ WsInv' /\ StreamStep
  BY <1>1, <1>4, StreamStays DEF WsConnected, WsOnMessage, WsOnClose
<1>5. ASSUME NEW o \in Observers, WsHandle(o) PROVE SourceInv' /\ WsInv' /\ StreamStep
  <2>1. Rises(Append(pipe[o], Id), {Id}, seen[o], emitted)
    BY <1>0, AppendRises DEF WsInv, Id
  <2>2. UNCHANGED <<sourceVars, seen>>
        /\ pipe' = [pipe EXCEPT ![o] = IF link[o] = "open" THEN Append(@, Id) ELSE @]
    BY <1>5 DEF WsHandle
  <2>3. WsInv'
    BY <2>1, <2>2 DEF WsInv, WsTypeOK
  <2> QED
    BY <1>2, <1>5, <2>3, StreamStays DEF WsHandle
<1>6. ASSUME NEW o \in Observers, WsRead(o) PROVE SourceInv' /\ WsInv' /\ StreamStep
  <2>1. /\ UNCHANGED <<sourceVars, since>> /\ pipe[o] # <<>> /\ pipe' = [pipe EXCEPT ![o] = Tail(@)]
        /\ status[o] = "on"
        /\ UNCHANGED observerVars \/ (Head(pipe[o]) # Id /\ Show(o, Head(pipe[o])))
    BY <1>6 DEF WsRead, Given
  <2>2. CASE UNCHANGED observerVars
    <3>1. Rises(Tail(pipe[o]), {Id}, seen[o], emitted)
      BY <1>0, <2>1, TailRises DEF WsInv
    <3> QED
      BY <1>2, <2>1, <2>2, <3>1, StreamStays DEF WsInv, WsTypeOK
  <2>3. CASE Head(pipe[o]) # Id /\ Show(o, Head(pipe[o]))
    <3>1. /\ Head(pipe[o]) \in Nat /\ seen[o] <= Head(pipe[o]) /\ Head(pipe[o]) <= emitted
          /\ Rises(Tail(pipe[o]), {Id}, Head(pipe[o]), emitted)
      <4>1. Head(pipe[o]) \notin {Id} /\ Rises(pipe[o], {Id}, seen[o], emitted)
        BY <2>3 DEF WsInv
      <4> QED
        BY <1>0, <2>1, <4>1, TailRises
    <3>2. seen' = [seen EXCEPT ![o] = Head(pipe[o])]
      BY <2>3 DEF Show
    <3>3. WsInv'
      BY <2>1, <3>1, <3>2 DEF WsInv, WsTypeOK, SourceTypeOK
    <3>4. StreamStep
      BY <1>0, <2>1, <2>3, <3>1, StreamShows
    <3> QED
      BY <1>2, <2>1, <3>3, <3>4
  <2> QED
    BY <2>1, <2>2, <2>3
<1>7. ASSUME NEW o \in Observers, WsLost(o) PROVE SourceInv' /\ WsInv' /\ StreamStep
  <2>1. Rises(<<>>, {Id}, seen[o], emitted)
    BY EmptyRises
  <2>2. UNCHANGED <<sourceVars, observerVars, since>> /\ pipe' = [pipe EXCEPT ![o] = <<>>]
    BY <1>7 DEF WsLost
  <2> QED
    BY <1>2, <2>1, <2>2, StreamStays DEF WsInv, WsTypeOK
<1>8. ASSUME WsEmission PROVE SourceInv' /\ WsInv' /\ StreamStep
  <2>1. Emission /\ UNCHANGED <<since, observerVars>>
    BY <1>8 DEF WsEmission
  <2>2. PICK reached \in SUBSET Observers :
          pipe' = [o \in Observers |-> IF o \in reached THEN Append(pipe[o], emitted') ELSE pipe[o]]
    BY <1>8 DEF WsEmission, WsTypeOK
  <2>3. SourceInv' /\ StreamStep /\ emitted' = emitted + 1
    BY <2>1, StreamEmits
  <2>4. ASSUME NEW o \in Observers
        PROVE  /\ seen'[o] <= emitted' /\ Rises(pipe[o], {Id}, seen'[o], emitted')
               /\ Rises(Append(pipe[o], emitted'), {Id}, seen'[o], emitted')
    <3>1. seen[o] <= emitted /\ Rises(pipe[o], {Id}, seen[o], emitted) /\ seen' = seen
      BY <2>1 DEF WsInv
    <3>2. emitted' \in Nat /\ emitted <= emitted' /\ seen[o] <= emitted'
      BY <1>0, <2>3, <3>1
    <3> QED
      BY <1>0, <3>1, <3>2, HigherRises, AppendRises
  <2> QED
    BY <2>2, <2>3, <2>4 DEF WsInv
<1> QED
  BY <1>3, <1>4, <1>5, <1>6, <1>7, <1>8 DEF WsNext, WsServerTask, WsClientTask, WsOther

-----------------------------------------------------------------------------
(* HTTP.                                                                   *)

(* A poll is answered with the first item after it, which the observer     *)
(* that still waits for it has not been shown.                             *)
LEMMA HttpKeeps ==
  ASSUME SourceTypeOK, HttpTypeOK, Polled, SourceInv, HttpInv, HttpNext, UNCHANGED <<held, stale>>
  PROVE  SourceInv' /\ HttpInv' /\ StreamStep
<1> USE DEF sourceVars, observerVars, httpVars
<1>0. /\ emitted \in Nat /\ version \in Nat /\ emitted <= version
      /\ \A o \in Observers : seen[o] \in Nat /\ since[o] \in Nat /\ sent[o] \in Nat
      /\ \A o \in Observers, n \in 1..MaxPolls : polls[o][n] \in PollState
  BY ObservedThingAssumption, MaxPollsAssumption DEF SourceTypeOK, HttpTypeOK
<1>a. \A p \in PollState : p.since \in Nat /\ p.item \in Nat
  BY ObservedThingAssumption DEF PollState
<1>1. ASSUME UNCHANGED <<sourceVars, since>> PROVE SourceInv'
  BY <1>1 DEF SourceInv
<1>2. ASSUME NEW o \in Observers, HttpSubscribe(o) \/ HttpUnsubscribe(o)
      PROVE  SourceInv' /\ HttpInv' /\ StreamStep
  <2>1. UNCHANGED <<sourceVars, since, seen, httpVars>>
    BY <1>2 DEF HttpSubscribe, HttpUnsubscribe, Observe, Leave
  <2> QED
    BY <1>1, <1>2, <2>1, StreamObserves, StreamLeaves DEF HttpSubscribe, HttpUnsubscribe, HttpInv
<1>3. ASSUME NEW o \in Observers, Poll(o) PROVE SourceInv' /\ HttpInv' /\ StreamStep
  <2>1. UNCHANGED <<sourceVars, since, observerVars>> /\ sent' = [sent EXCEPT ![o] = @ + 1]
        /\ sent[o] < MaxPolls
    BY <1>3 DEF Poll
  <2>2. sent'[o] \in 1..MaxPolls /\ \A p \in Observers \ {o} : sent'[p] = sent[p] /\ polling'[p] = polling[p]
    BY <1>0, <1>3, <2>1, MaxPollsAssumption DEF Poll, HttpTypeOK
  <2>3. ASSUME NEW p \in Observers, NEW n \in 1..MaxPolls
        PROVE  \/ p = o /\ n = sent'[o] /\ polls'[p][n].at = "travelling"
               \/ (p # o \/ n # sent'[o]) /\ polls'[p][n] = polls[p][n]
    <3> DEFINE q == [polls[o][sent'[o]] EXCEPT !.at = "travelling"]
    <3>1. polls' = [polls EXCEPT ![o] = [polls[o] EXCEPT ![sent'[o]] = q]]
      BY <1>3 DEF Poll
    <3>2. polls[o][sent'[o]] \in PollState
      BY <1>0, <2>2
    <3>3. q.at = "travelling"
      BY <3>2 DEF PollState
    <3> HIDE DEF q
    <3>4. polls'[p][n] = IF p = o /\ n = sent'[o] THEN q ELSE polls[p][n]
      BY <2>2, <3>1 DEF HttpTypeOK
    <3> QED
      BY <3>3, <3>4
  <2>4. HttpInv'
    BY <2>1, <2>2, <2>3 DEF HttpInv
  <2> QED
    BY <1>1, <2>1, <2>4, StreamStays
<1>4. ASSUME NEW o \in Observers, NEW n \in 1..MaxPolls, HttpGet(o, n)
      PROVE  SourceInv' /\ HttpInv' /\ StreamStep
  <2>1. UNCHANGED <<sourceVars, since, observerVars, polling, sent>>
    BY <1>4 DEF HttpGet
  <2>2. ASSUME NEW p \in Observers, NEW m \in 1..MaxPolls
        PROVE  \/ polls'[p][m].at \in {"waiting", "refused"} /\ polls'[p][m].since = emitted
               \/ polls'[p][m] = polls[p][m]
    BY <1>0, <1>4 DEF HttpGet, HttpTypeOK, PollState
  <2>3. HttpInv'
    BY <2>1, <2>2 DEF HttpInv
  <2> QED
    BY <1>1, <2>1, <2>3, StreamStays
<1>5. ASSUME NEW o \in Observers, NEW n \in 1..MaxPolls, HttpFinish(o, n)
      PROVE  SourceInv' /\ HttpInv' /\ StreamStep
  <2>1. UNCHANGED <<sourceVars, since, observerVars, polling, sent>>
    BY <1>5 DEF HttpFinish
  <2>2. ASSUME NEW p \in Observers, NEW m \in 1..MaxPolls
        PROVE  \/ /\ polls'[p][m].at = "answered" /\ polls[p][m].at = "ready"
                  /\ polls'[p][m].since = polls[p][m].since /\ polls'[p][m].item = polls[p][m].item
               \/ polls'[p][m] = polls[p][m]
    BY <1>0, <1>5 DEF HttpFinish, HttpTypeOK, PollState
  <2>3. HttpInv'
    BY <2>1, <2>2 DEF HttpInv
  <2> QED
    BY <1>1, <2>1, <2>3, StreamStays
<1>6. ASSUME NEW o \in Observers, HttpTimesOut(o) PROVE SourceInv' /\ HttpInv' /\ StreamStep
  <2>1. \A p \in Observers : polling'[p] => polling[p]
    BY <1>6 DEF HttpTimesOut, HttpTypeOK
  <2> QED
    BY <1>1, <1>6, <2>1, StreamStays DEF HttpTimesOut, HttpInv
<1>7. ASSUME NEW o \in Observers, HttpAnswered(o) PROVE SourceInv' /\ HttpInv' /\ StreamStep
  <2>1. UNCHANGED <<sourceVars, since, sent, polls>> /\ polling[o] /\ polling' = [polling EXCEPT ![o] = FALSE]
    BY <1>7 DEF HttpAnswered
  <2>2. \A p \in Observers : polling'[p] => polling[p] /\ p # o
    BY <2>1 DEF HttpTypeOK
  <2>3. CASE UNCHANGED observerVars
    BY <1>1, <2>1, <2>2, <2>3, StreamStays DEF HttpInv
  <2>4. CASE Leave(o)
    BY <1>1, <2>1, <2>2, <2>4, StreamLeaves DEF HttpInv, Leave
  <2>5. CASE polls[o][sent[o]].at = "answered" /\ status[o] = "on" /\ Show(o, polls[o][sent[o]].item)
    <3>1. sent[o] \in 1..MaxPolls
      BY <2>1, MaxPollsAssumption DEF HttpTypeOK, Polled
    <3>2. LET v == polls[o][sent[o]].item IN v \in Nat /\ seen[o] <= v /\ v <= emitted
      BY <1>0, <1>a, <2>1, <2>5, <3>1 DEF HttpInv
    <3>3. \A p \in Observers : seen'[p] <= emitted /\ (p # o => seen'[p] = seen[p])
      BY <1>0, <2>5, <3>2 DEF Show, SourceTypeOK, HttpInv
    <3>4. HttpInv'
      BY <2>1, <2>2, <3>3 DEF HttpInv
    <3>5. StreamStep
      BY <1>0, <2>1, <2>5, <3>2, StreamShows
    <3> QED
      BY <1>1, <2>1, <3>4, <3>5
  <2> QED
    BY <1>7, <2>3, <2>4, <2>5 DEF HttpAnswered, Current
<1>8. ASSUME HttpEmission PROVE SourceInv' /\ HttpInv' /\ StreamStep
  <2>1. Emission /\ UNCHANGED <<since, observerVars, polling, sent>>
    BY <1>8 DEF HttpEmission
  <2>2. SourceInv' /\ StreamStep /\ emitted' = emitted + 1
    BY <2>1, StreamEmits
  <2>3. ASSUME NEW p \in Observers, NEW m \in 1..MaxPolls
        PROVE  \/ /\ polls'[p][m].at = "ready" /\ polls[p][m].at = "waiting"
                  /\ polls'[p][m].since = polls[p][m].since /\ polls'[p][m].item = emitted'
               \/ polls'[p][m] = polls[p][m] /\ polls[p][m].at # "waiting"
    BY <1>0, <1>8 DEF HttpEmission, Resolved, PollState
  <2>4. HttpInv'
    BY <1>0, <1>a, <2>1, <2>2, <2>3 DEF HttpInv
  <2> QED
    BY <2>2, <2>4
<1> QED
  BY <1>2, <1>3, <1>4, <1>5, <1>6, <1>7, <1>8
     DEF HttpNext, HttpServerTask, HttpClientTask, HttpOther

-----------------------------------------------------------------------------
(* CoAP.                                                                   *)

(* What is known of the newest there is to show.                           *)
LEMMA NewestType ==
  ASSUME SourceTypeOK, CoapTypeOK, SourceInv, CoapInv
  PROVE  /\ Newest \in Nat /\ Gone \in Nat /\ Newest # Gone /\ Newest <= version
         /\ emitted \in Nat /\ version \in Nat /\ emitted <= version /\ version # Gone
         /\ lastEvent \in Nat /\ lastEvent # Gone
         /\ \A o \in Observers : /\ seen[o] \in Nat /\ since[o] \in Nat /\ rendered[o] \in Nat
                                 /\ notes[o] \in Seq(Nat)
<1>1. /\ Newest \in Nat /\ Gone \in Nat /\ Newest # Gone /\ Newest <= version
      /\ emitted \in Nat /\ version \in Nat /\ emitted <= version /\ version # Gone
      /\ lastEvent \in Nat /\ lastEvent # Gone
  BY ObservedThingAssumption DEF SourceTypeOK, CoapTypeOK, CoapInv, Newest, Gone
<1>2. \A o \in Observers : seen[o] \in Nat /\ since[o] \in Nat /\ rendered[o] \in Nat
  BY ObservedThingAssumption DEF SourceTypeOK, CoapTypeOK, Gone
<1>3. \A o \in Observers : notes[o] \in Seq(Nat)
  <2>1. Seq(0..Gone) \subseteq Seq(Nat)
    BY <1>1
  <2> QED
    BY <2>1 DEF CoapTypeOK
<1> QED
  BY <1>1, <1>2, <1>3

(* An observer that a step leaves alone.                                   *)
LEMMA NotesStay ==
  ASSUME NEW o \in Observers, NotesInv(o), UNCHANGED <<version, kind, lastEvent>>,
         seen'[o] = seen[o], notes'[o] = notes[o], rendering'[o] \in {rendering[o], "no"},
         rendered'[o] = rendered[o], asked'[o] = asked[o], status'[o] \in {status[o], "left"}
  PROVE  NotesInv(o)'
  BY DEF NotesInv, Newest

(* There is more to show.                                                  *)
LEMMA NotesHigher ==
  ASSUME SourceTypeOK, CoapTypeOK, SourceInv, CoapInv, NEW o \in Observers,
         Newest' \in Nat, Newest <= Newest',
         UNCHANGED <<kind, seen, notes, rendering, rendered, asked, status>>
  PROVE  NotesInv(o)'
<1>1. NotesInv(o)
  BY DEF CoapInv
<1>2. /\ seen[o] \in Nat /\ Newest \in Nat /\ rendered[o] \in Nat
      /\ notes[o] \in Seq(Nat)
  BY NewestType
<1>3. seen[o] <= Newest' /\ Rises(notes[o], {Gone}, seen[o], Newest')
  BY <1>1, <1>2, HigherRises DEF NotesInv
<1>4. rendering[o] = "found" => rendered[o] <= Newest'
  BY <1>1, <1>2 DEF NotesInv
<1> QED
  BY <1>1, <1>3, <1>4 DEF NotesInv, Gone

(* A request or a notification is rendered at once, or after a read.       *)
LEMMA NotesRendered ==
  ASSUME SourceTypeOK, CoapTypeOK, SourceInv, CoapInv, NEW o \in Observers, Render(o),
         rendering[o] = "no", UNCHANGED <<sourceVars, observerVars, lastEvent>>, asked'[o] = "taken"
  PROVE  /\ status[o] # "off" => \A p \in Observers : asked'[p] = asked[p] \/ p = o => NotesInv(p)'
         /\ served => \/ kind = "property" /\ rendering'[o] = "reads"
                      \/ kind = "event" /\ rendered'[o] = lastEvent
         /\ \A p \in Observers \ {o} : rendered'[p] = rendered[p] /\ rendering'[p] = rendering[p]
<1> USE DEF sourceVars, observerVars
<1>0. NotesInv(o) /\ Newest' = Newest
  BY DEF CoapInv, Newest
<1>1. ASSUME NEW p \in Observers, p # o
      PROVE  /\ rendered'[p] = rendered[p] /\ rendering'[p] = rendering[p]
             /\ asked'[p] = asked[p] => NotesInv(p)'
  <2>1. rendered'[p] = rendered[p] /\ rendering'[p] = rendering[p] /\ notes'[p] = notes[p]
    BY <1>1 DEF Render, CoapTypeOK
  <2>2. NotesInv(p)
    BY DEF CoapInv
  <2> QED
    BY <2>1, <2>2, NotesStay
<1>2. CASE served /\ kind = "property"
  <2>1. rendering'[o] = "reads" /\ UNCHANGED <<rendered, notes>>
    BY <1>2 DEF Render, CoapTypeOK
  <2>2. status[o] # "off" => NotesInv(o)'
    BY <1>0, <1>2, <2>1 DEF NotesInv, Gone
  <2> QED
    BY <1>1, <1>2, <2>1, <2>2
<1>3. CASE ~(served /\ kind = "property")
  <2> DEFINE shown == IF served THEN lastEvent ELSE Gone
  <2>1. rendering' = rendering /\ rendered'[o] = shown /\ notes'[o] = Append(notes[o], shown)
    BY <1>3 DEF Render, CoapTypeOK
  <2>2. shown = Gone \/ (shown = Newest /\ shown = lastEvent)
    BY <1>3 DEF Newest
  <2>3. served => shown = lastEvent /\ kind = "event"
    BY <1>3 DEF SourceTypeOK
  <2> HIDE DEF shown
  <2>4. /\ Newest \in Nat /\ Gone \in Nat /\ seen[o] \in Nat /\ notes[o] \in Seq(Nat) /\ shown \in Nat
        /\ seen[o] <= Newest /\ Rises(notes[o], {Gone}, seen[o], Newest)
    BY <1>0, <2>2, NewestType DEF NotesInv
  <2>5. (shown \in {Gone} \/ Newest <= shown) /\ (shown \in {Gone} \/ shown <= Newest) /\ Newest <= Newest
    BY <2>2, <2>4
  <2>6. Rises(Append(notes[o], shown), {Gone}, seen[o], Newest)
    BY <2>4, <2>5, AppendRises
  <2>7. status[o] # "off" => NotesInv(o)'
    BY <1>0, <2>1, <2>6 DEF NotesInv, Gone
  <2> QED
    BY <1>1, <2>1, <2>3, <2>7
<1> QED
  BY <1>2, <1>3

(* The notifications rise, and the last says what was emitted last.        *)
LEMMA CoapKeeps ==
  ASSUME SourceTypeOK, CoapTypeOK, SourceInv, CoapInv, CoapNext, UNCHANGED <<held, stale>>
  PROVE  SourceInv' /\ CoapInv' /\ StreamStep
<1> USE DEF sourceVars, observerVars, coapVars
<1>0. /\ Newest \in Nat /\ Newest <= version /\ Gone \in Nat /\ version # Gone
      /\ emitted \in Nat /\ version \in Nat /\ emitted <= version /\ lastEvent \in Nat
      /\ \A o \in Observers : /\ seen[o] \in Nat /\ since[o] \in Nat /\ rendered[o] \in Nat
                              /\ notes[o] \in Seq(Nat) /\ NotesInv(o)
      /\ kind \in {"event", "property"}
  BY NewestType DEF CoapInv, SourceTypeOK
<1>1. ASSUME UNCHANGED <<sourceVars, since>> PROVE SourceInv'
  BY <1>1 DEF SourceInv
<1>2. ASSUME UNCHANGED <<sourceVars, since, lastEvent, coapSubs, triggered, rendering, rendered>>
      PROVE  /\ Newest' = Newest
             /\ (\A p \in Observers : NotesInv(p)') /\ (\A p \in coapSubs : asked'[p] = asked[p])
                  => CoapInv'
  BY <1>2 DEF CoapInv, LastIsOnItsWay, Newest
<1>3. ASSUME NEW o \in Observers, CoapSubscribe(o) \/ CoapUnsubscribe(o)
      PROVE  SourceInv' /\ CoapInv' /\ StreamStep
  <2>1. /\ UNCHANGED <<sourceVars, since, lastEvent, coapSubs, triggered, rendering, rendered, seen, notes>>
        /\ \A p \in Observers \ {o} : status'[p] = status[p] /\ asked'[p] = asked[p]
    BY <1>3 DEF CoapSubscribe, CoapUnsubscribe, Observe, Leave, CoapTypeOK, SourceTypeOK
  <2>2. \/ status[o] = "off" /\ status'[o] = "on" /\ asked'[o] = "sent"
        \/ status[o] = "on" /\ status'[o] = "left" /\ asked'[o] = asked[o]
    BY <1>3 DEF CoapSubscribe, CoapUnsubscribe, Observe, Leave, CoapTypeOK, SourceTypeOK
  <2>3. NotesInv(o)'
    BY <1>0, <2>1, <2>2 DEF NotesInv, Newest, Gone
  <2>4. \A p \in Observers : NotesInv(p)'
    BY <1>0, <2>1, <2>3, NotesStay
  <2>5. \A p \in coapSubs : asked'[p] = asked[p]
    BY <1>0, <2>1, <2>2 DEF CoapInv, NotesInv, CoapTypeOK
  <2>6. CoapInv'
    BY <1>2, <2>1, <2>4, <2>5
  <2> QED
    BY <1>1, <1>3, <2>1, <2>6, StreamObserves, StreamLeaves DEF CoapSubscribe, CoapUnsubscribe
<1>4. ASSUME NEW o \in Observers, CoapCancelled(o) PROVE SourceInv' /\ CoapInv' /\ StreamStep
  <2>1. /\ UNCHANGED <<sourceVars, since, observerVars, lastEvent, rendered, notes, asked>>
        /\ coapSubs' = coapSubs \ {o} /\ triggered' = triggered \ {o}
        /\ \A p \in Observers : rendering'[p] \in {rendering[p], "no"}
             /\ (p # o => rendering'[p] = rendering[p])
    BY <1>4 DEF CoapCancelled, CoapTypeOK
  <2>2. \A p \in Observers : NotesInv(p)'
    BY <1>0, <2>1, NotesStay
  <2>3. CoapInv'
    BY <2>1, <2>2 DEF CoapInv, LastIsOnItsWay, CoapTypeOK
  <2> QED
    BY <1>1, <2>1, <2>3, StreamStays
<1>5. ASSUME NEW o \in Observers, CoapGet(o) PROVE SourceInv' /\ CoapInv' /\ StreamStep
  <2>1. /\ UNCHANGED <<sourceVars, observerVars, lastEvent, triggered>> /\ Render(o)
        /\ coapSubs' \subseteq coapSubs \cup {o} /\ since' = [since EXCEPT ![o] = emitted]
        /\ asked[o] = "sent" /\ asked'[o] = "taken" /\ \A p \in Observers \ {o} : asked'[p] = asked[p]
    BY <1>5 DEF CoapGet, CoapTypeOK
  <2>2. rendering[o] = "no" /\ status[o] # "off"
    BY <1>0, <2>1 DEF NotesInv, CoapTypeOK
  <2>3. since'[o] = emitted /\ \A p \in Observers \ {o} : since'[p] = since[p]
    BY <2>1 DEF SourceTypeOK
  <2>4. SourceInv'
    BY <1>0, <2>1, <2>3 DEF SourceInv
  <2>5. \A p \in Observers : NotesInv(p)'
    BY <2>1, <2>2, NotesRendered
  <2>6. \A p \in Observers \ {o} : rendered'[p] = rendered[p] /\ rendering'[p] = rendering[p]
    BY <2>1, <2>2, NotesRendered
  <2>7. \A p \in coapSubs' : since'[p] < emitted' => p # o /\ p \in coapSubs /\ p \in Observers
    BY <1>0, <2>1, <2>3 DEF CoapTypeOK
  <2>a. \A p \in coapSubs' : asked'[p] = "taken"
    BY <2>1 DEF CoapInv, CoapTypeOK
  <2>b. \A p \in coapSubs' : kind' = "event" /\ since'[p] < emitted' => lastEvent' = emitted'
    BY <2>1, <2>3, <2>7 DEF CoapInv
  <2>c. LastIsOnItsWay'
    BY <2>1, <2>3, <2>6, <2>7 DEF CoapInv, LastIsOnItsWay
  <2>8. CoapInv'
    BY <2>1, <2>5, <2>a, <2>b, <2>c DEF CoapInv
  <2> QED
    BY <2>1, <2>4, <2>8, StreamStays
<1>6. ASSUME NEW o \in Observers, CoapRender(o) PROVE SourceInv' /\ CoapInv' /\ StreamStep
  <2>1. /\ UNCHANGED <<sourceVars, observerVars, since, lastEvent, asked>> /\ triggered' = triggered \ {o}
        /\ coapSubs' = IF served THEN coapSubs ELSE coapSubs \ {o}
        /\ Render(o) /\ rendering[o] = "no" /\ o \in triggered
    BY <1>6 DEF CoapRender
  <2>2. SourceInv' /\ StreamStep
    BY <1>1, <2>1, StreamStays
  <2>3. asked[o] = "taken"
    BY <2>1 DEF CoapInv, CoapTypeOK
  <2>4. \A p \in Observers : NotesInv(p)'
    <3>1. status[o] # "off"
      BY <1>0, <2>3 DEF NotesInv
    <3> QED
      BY <2>1, <2>3, <3>1, NotesRendered
  <2>5. \A p \in coapSubs' : p \in coapSubs /\ p \in Observers /\ (p = o => served)
    BY <2>1 DEF CoapTypeOK
  <2>6. \A p \in Observers \ {o} : rendered'[p] = rendered[p] /\ rendering'[p] = rendering[p]
    BY <2>1, <2>3, NotesRendered
  <2>7. o \in coapSubs' /\ since[o] < emitted => rendered'[o] >= emitted \/ rendering'[o] = "reads"
    <3> SUFFICES ASSUME o \in coapSubs', since[o] < emitted, kind = "event", rendered'[o] = lastEvent
                 PROVE  rendered'[o] >= emitted
      BY <2>1, <2>3, <2>5, NotesRendered
    <3>1. lastEvent = emitted
      BY <2>5 DEF CoapInv
    <3> QED
      BY <1>0, <3>1
  <2>8. LastIsOnItsWay'
    BY <2>1, <2>5, <2>6, <2>7 DEF CoapInv, LastIsOnItsWay
  <2>9. CoapInv'
    BY <2>1, <2>4, <2>5, <2>8 DEF CoapInv
  <2> QED
    BY <2>2, <2>9
<1>7. ASSUME NEW o \in Observers, CoapFind(o) PROVE SourceInv' /\ CoapInv' /\ StreamStep
  <2>1. /\ UNCHANGED <<sourceVars, since, observerVars, lastEvent, coapSubs, triggered, notes, asked>>
        /\ rendering[o] = "reads" /\ rendering'[o] = "found" /\ rendered'[o] = version
        /\ \A p \in Observers \ {o} : rendering'[p] = rendering[p] /\ rendered'[p] = rendered[p]
    BY <1>7 DEF CoapFind, CoapTypeOK
  <2>2. NotesInv(o)'
    <3>1. NotesInv(o) /\ Newest = version /\ Newest' = version'
      BY <1>0, <2>1 DEF NotesInv, Newest
    <3> QED
      BY <1>0, <2>1, <3>1 DEF NotesInv, Gone
  <2>3. \A p \in Observers : NotesInv(p)'
    BY <1>0, <2>1, <2>2, NotesStay
  <2>4. LastIsOnItsWay'
    BY <1>0, <2>1 DEF CoapInv, LastIsOnItsWay, CoapTypeOK
  <2>5. CoapInv'
    BY <2>1, <2>3, <2>4 DEF CoapInv
  <2> QED
    BY <1>1, <2>1, <2>5, StreamStays
<1>8. ASSUME NEW o \in Observers, CoapRespond(o) PROVE SourceInv' /\ CoapInv' /\ StreamStep
  <2>1. /\ UNCHANGED <<sourceVars, since, observerVars, lastEvent, coapSubs, triggered, rendered, asked>>
        /\ rendering[o] = "found" /\ rendering'[o] = "no" /\ notes'[o] = Append(notes[o], rendered[o])
        /\ \A p \in Observers \ {o} : rendering'[p] = rendering[p] /\ notes'[p] = notes[p]
    BY <1>8 DEF CoapRespond, CoapTypeOK
  <2>2. NotesInv(o)'
    <3> DEFINE found_ == rendered[o]
    <3>1. /\ seen[o] <= found_ /\ found_ <= Newest /\ Rises(notes[o], {Gone}, seen[o], found_)
          /\ found_ \in Nat /\ seen[o] \in Nat /\ notes[o] \in Seq(Nat)
      BY <1>0, <2>1 DEF NotesInv
    <3> HIDE DEF found_
    <3>2. Rises(Append(notes[o], found_), {Gone}, seen[o], Newest)
      <4>1. found_ <= found_
        BY <3>1
      <4> QED
        BY <1>0, <3>1, <4>1, AppendRises
    <3>3. NotesInv(o) /\ Newest' = Newest
      BY <1>0, <2>1 DEF Newest
    <3> QED
      BY <2>1, <3>2, <3>3 DEF NotesInv, Gone, found_
  <2>3. \A p \in Observers : NotesInv(p)'
    BY <1>0, <2>1, <2>2, NotesStay
  <2>4. LastIsOnItsWay'
    BY <2>1 DEF CoapInv, LastIsOnItsWay, CoapTypeOK
  <2>5. CoapInv'
    BY <2>1, <2>3, <2>4 DEF CoapInv
  <2> QED
    BY <1>1, <2>1, <2>5, StreamStays
<1>9. ASSUME NEW o \in Observers, CoapRead(o) PROVE SourceInv' /\ CoapInv' /\ StreamStep
  <2>1. /\ UNCHANGED <<sourceVars, since, coapSubs, triggered, lastEvent, rendering, rendered, asked>>
        /\ notes[o] # <<>> /\ notes'[o] = Tail(notes[o]) /\ status[o] = "on"
        /\ \A p \in Observers \ {o} : notes'[p] = notes[p]
    BY <1>9 DEF CoapRead, CoapTypeOK
  <2>2. /\ Rises(Tail(notes[o]), {Gone}, seen[o], Newest)
        /\ rendering[o] = "found" => Rises(Tail(notes[o]), {Gone}, seen[o], rendered[o])
    BY <1>0, <2>1, TailRises DEF NotesInv
  <2>3. Newest' = Newest /\ ((\A p \in Observers : NotesInv(p)') => CoapInv')
    BY <1>2, <2>1
  <2>4. CASE Leave(o) \/ UNCHANGED observerVars
    <3>1. UNCHANGED seen /\ \A p \in Observers : status'[p] \in {status[p], "left"}
      BY <2>4 DEF Leave, SourceTypeOK
    <3>2. NotesInv(o)'
      BY <1>0, <2>1, <2>2, <2>3, <3>1 DEF NotesInv, Gone
    <3>3. \A p \in Observers : NotesInv(p)'
      BY <1>0, <2>1, <3>1, <3>2, NotesStay
    <3>4. StreamStep
      BY <2>1, <2>4, StreamLeaves, StreamStays
    <3> QED
      BY <1>1, <2>1, <2>3, <3>3, <3>4
  <2>5. CASE Head(notes[o]) # Gone /\ Show(o, Head(notes[o]))
    <3> DEFINE v == Head(notes[o])
    <3>1. /\ v \in Nat /\ seen[o] <= v /\ v <= Newest /\ Rises(Tail(notes[o]), {Gone}, v, Newest)
      <4>1. Head(notes[o]) \notin {Gone} /\ Rises(notes[o], {Gone}, seen[o], Newest)
        BY <1>0, <2>5 DEF NotesInv
      <4> QED
        BY <1>0, <2>1, <4>1, TailRises
    <3>2. rendering[o] = "found" => v <= rendered[o] /\ Rises(Tail(notes[o]), {Gone}, v, rendered[o])
      <4>1. ASSUME rendering[o] = "found" PROVE Rises(notes[o], {Gone}, seen[o], rendered[o])
        BY <1>0, <4>1 DEF NotesInv
      <4>2. Head(notes[o]) \notin {Gone}
        BY <2>5
      <4> QED
        BY <1>0, <2>1, <4>1, <4>2, TailRises
    <3>3. seen'[o] = v /\ UNCHANGED status /\ \A p \in Observers \ {o} : seen'[p] = seen[p]
      BY <2>5 DEF Show, SourceTypeOK
    <3> HIDE DEF v
    <3>4. NotesInv(o)'
      BY <1>0, <2>1, <2>3, <3>1, <3>2, <3>3 DEF NotesInv, Gone
    <3>5. \A p \in Observers : NotesInv(p)'
      BY <1>0, <2>1, <3>3, <3>4, NotesStay
    <3>6. v <= version
      BY <1>0, <3>1
    <3>7. StreamStep
      BY <2>1, <2>5, <3>1, <3>6, StreamShows DEF v
    <3> QED
      BY <1>1, <2>1, <2>3, <3>5, <3>7
  <2> QED
    BY <1>9, <2>4, <2>5 DEF CoapRead
<1>10. ASSUME CoapEmission PROVE SourceInv' /\ CoapInv' /\ StreamStep
  <2>1. /\ Emission /\ UNCHANGED <<since, observerVars, coapSubs, rendering, rendered, notes, kind, asked>>
        /\ triggered' = coapSubs
        /\ lastEvent' = IF kind = "event" /\ coapSubs # {} THEN emitted' ELSE lastEvent
    BY <1>10 DEF CoapEmission, Triggers, Emission
  <2>2. SourceInv' /\ StreamStep /\ emitted' = emitted + 1 /\ version' >= version /\ version' \in Nat
    BY <1>0, <2>1, StreamEmits, EmissionTypes
  <2>3. lastEvent' <= emitted' /\ Newest' \in Nat /\ Newest <= Newest'
    BY <1>0, <2>1, <2>2 DEF Newest, CoapInv
  <2>4. \A p \in Observers : NotesInv(p)'
    BY <2>1, <2>3, NotesHigher
  <2>5. \A p \in coapSubs' : asked'[p] = "taken" /\ (kind' = "event" => lastEvent' = emitted')
    BY <2>1 DEF CoapInv
  <2>6. CoapInv'
    BY <2>1, <2>3, <2>4, <2>5 DEF CoapInv, LastIsOnItsWay
  <2> QED
    BY <2>2, <2>6
<1> QED
  BY <1>3, <1>4, <1>5, <1>6, <1>7, <1>8, <1>9, <1>10
     DEF CoapNext, CoapServerTask, CoapClientTask, CoapOther

-----------------------------------------------------------------------------
(* MQTT and Zenoh.                                                         *)

(* The order of a queue that grows.                                        *)
LEMMA OrderAppend ==
  ASSUME NEW q \in Seq(QueueItem), NEW top \in Nat, NEW hi \in Nat, top <= hi, NEW late,
         InOrder(q, top, late), NEW m \in QueueItem, m.version <= hi, Follows(m, top, late)
  PROVE  Append(q, m) \in Seq(QueueItem) /\ InOrder(Append(q, m), hi, late)
<1> DEFINE n == Len(q)
           a == Append(q, m)
<1>1. /\ n \in Nat /\ DOMAIN q = 1..n /\ DOMAIN a = 1..(n + 1) /\ a[n + 1] = m /\ a \in Seq(QueueItem)
      /\ \A i \in 1..n : a[i] = q[i] /\ q[i] \in QueueItem
  OBVIOUS
<1>2. \A x \in QueueItem : x.version \in Nat
  BY ObservedThingAssumption DEF QueueItem
<1> HIDE DEF n, a
<1>3. ASSUME NEW i \in 1..(n + 1)
      PROVE  a[i].version <= hi /\ \A j \in 1..i : Follows(a[i], a[j].version, late)
  <2>1. CASE i \in 1..n
    <3>1. \A j \in 1..i : j \in 1..n
      BY <1>1, <2>1
    <3>2. q[i].version <= top /\ q[i].version \in Nat /\ \A j \in 1..i : Follows(q[i], q[j].version, late)
      BY <1>1, <1>2, <2>1 DEF InOrder
    <3> QED
      BY <1>1, <2>1, <3>1, <3>2
  <2>2. CASE i = n + 1
    <3>1. ASSUME NEW j \in 1..i PROVE Follows(m, a[j].version, late)
      <4>1. CASE j \in 1..n
        <5>1. q[j].version <= top /\ q[j].version \in Nat /\ m.version \in Nat
          BY <1>1, <1>2, <4>1 DEF InOrder
        <5> QED
          BY <1>1, <4>1, <5>1 DEF Follows
      <4>2. CASE j = n + 1
        BY <1>1, <1>2, <4>2 DEF Follows
      <4> QED
        BY <1>1, <2>2, <4>1, <4>2
    <3> QED
      BY <1>1, <2>2, <3>1
  <2> QED
    BY <1>1, <2>1, <2>2
<1>4. InOrder(a, hi, late)
  BY <1>1, <1>3 DEF InOrder
<1> QED
  BY <1>1, <1>4 DEF a

(* The order of a queue whose first item is taken, which the others follow.*)
LEMMA OrderTail ==
  ASSUME NEW q \in Seq(QueueItem), q # <<>>, NEW top \in Nat, NEW late, InOrder(q, top, late)
  PROVE  /\ Head(q) \in QueueItem /\ Head(q).version <= top /\ InOrder(Tail(q), top, late)
         /\ \A i \in DOMAIN Tail(q) : Follows(Tail(q)[i], Head(q).version, late)
         /\ \A i \in DOMAIN Tail(q) : \E j \in DOMAIN q : Tail(q)[i] = q[j]
<1> DEFINE n == Len(q)
           t == Tail(q)
<1>1. /\ n \in Nat /\ n >= 1 /\ DOMAIN q = 1..n /\ DOMAIN t = 1..(n - 1) /\ Head(q) = q[1]
      /\ \A i \in 1..(n - 1) : t[i] = q[i + 1]
      /\ q[1] \in QueueItem
  OBVIOUS
<1> HIDE DEF n, t
<1>2. \A i \in 1..(n - 1) : i + 1 \in 1..n
  BY <1>1
<1>3. ASSUME NEW i \in 1..(n - 1)
      PROVE  /\ t[i].version <= top /\ Follows(t[i], q[1].version, late)
             /\ \A j \in 1..i : Follows(t[i], t[j].version, late)
  <2>1. t[i] = q[i + 1] /\ i + 1 \in DOMAIN q /\ 1 \in 1..(i + 1)
    BY <1>1, <1>2
  <2>2. \A j \in 1..i : t[j] = q[j + 1] /\ j + 1 \in 1..(i + 1)
    BY <1>1
  <2> QED
    BY <2>1, <2>2 DEF InOrder
<1>4. Head(q).version <= top
  BY <1>1 DEF InOrder
<1> QED
  BY <1>1, <1>2, <1>3, <1>4 DEF t, InOrder

(* The order stays if values are added and more is held back.              *)
LEMMA OrderStays ==
  ASSUME NEW q \in Seq(QueueItem), NEW top \in Nat, NEW hi \in Nat, top <= hi,
         NEW late, NEW wide, late \subseteq wide, InOrder(q, top, late)
  PROVE  InOrder(q, hi, wide)
<1>1. \A i \in DOMAIN q : q[i].version \in Nat
  BY ObservedThingAssumption DEF QueueItem
<1>2. \A i \in DOMAIN q : q[i].version <= hi
  BY <1>1 DEF InOrder
<1> QED
  BY <1>2 DEF InOrder, Follows

(* Items that arrive.                                                      *)
LEMMA ArrivesAppend ==
  ASSUME NEW s \in Seq(Nat), NEW low \in Nat, NEW late, Arrives(s, low, late), NEW m \in Nat,
         m \notin late => low <= m /\ \A i \in DOMAIN s : s[i] <= m
  PROVE  Arrives(Append(s, m), low, late)
<1> DEFINE n == Len(s)
           a == Append(s, m)
<1>1. /\ n \in Nat /\ DOMAIN s = 1..n /\ DOMAIN a = 1..(n + 1) /\ a[n + 1] = m
      /\ \A i \in 1..n : a[i] = s[i]
  OBVIOUS
<1> HIDE DEF n, a
<1>2. ASSUME NEW i \in 1..(n + 1), a[i] \notin late PROVE low <= a[i] /\ \A j \in 1..i : a[j] <= a[i]
  <2>1. CASE i \in 1..n
    <3>1. \A j \in 1..i : j \in 1..n
      BY <1>1, <2>1
    <3> QED
      BY <1>1, <1>2, <2>1, <3>1 DEF Arrives
  <2>2. CASE i = n + 1
    <3>1. \A j \in 1..i : j \in 1..n \/ j = n + 1
      BY <1>1, <2>2
    <3> QED
      BY <1>1, <1>2, <2>2, <3>1
  <2> QED
    BY <1>1, <2>1, <2>2
<1> QED
  BY <1>1, <1>2 DEF Arrives, a

(* The first of them, which the others do not precede.                     *)
LEMMA ArrivesTail ==
  ASSUME NEW s \in Seq(Nat), s # <<>>, NEW low \in Nat, NEW late, Arrives(s, low, late)
  PROVE  /\ Head(s) \in Nat /\ (low <= Head(s) \/ Head(s) \in late)
         /\ Arrives(Tail(s), Head(s), late) /\ \A i \in DOMAIN Tail(s) : \E j \in DOMAIN s : Tail(s)[i] = s[j]
         /\ \E j \in DOMAIN s : Head(s) = s[j]
<1> DEFINE n == Len(s)
           t == Tail(s)
<1>1. /\ n \in Nat /\ n >= 1 /\ DOMAIN s = 1..n /\ DOMAIN t = 1..(n - 1) /\ Head(s) = s[1]
      /\ \A i \in 1..(n - 1) : t[i] = s[i + 1]
      /\ s[1] \in Nat
  OBVIOUS
<1> HIDE DEF n, t
<1>2. \A i \in 1..(n - 1) : i + 1 \in 1..n
  BY <1>1
<1>3. ASSUME NEW i \in 1..(n - 1), t[i] \notin late PROVE s[1] <= t[i] /\ \A j \in 1..i : t[j] <= t[i]
  <2>1. t[i] = s[i + 1] /\ i + 1 \in DOMAIN s /\ 1 \in 1..(i + 1)
    BY <1>1, <1>2
  <2>2. \A j \in 1..i : t[j] = s[j + 1] /\ j + 1 \in 1..(i + 1)
    BY <1>1
  <2> QED
    BY <1>3, <2>1, <2>2 DEF Arrives
<1>4. low <= s[1] \/ s[1] \in late
  BY <1>1 DEF Arrives
<1>5. 1 \in DOMAIN s
  BY <1>1
<1> QED
  BY <1>1, <1>2, <1>3, <1>4, <1>5 DEF t, Arrives

(* The ACKs of a queue that grows.                                         *)
LEMMA AcksAppend ==
  ASSUME NEW q \in Seq(QueueItem), NEW settled, AcksFollow(q, settled), NEW m \in QueueItem,
         m.topic = "ack" /\ m.owed => \E j \in 1..Len(q) : q[j] = Update(m.version)
  PROVE  AcksFollow(Append(q, m), settled)
<1> DEFINE n == Len(q)
           a == Append(q, m)
<1>1. /\ n \in Nat /\ DOMAIN q = 1..n /\ DOMAIN a = 1..(n + 1) /\ a[n + 1] = m
      /\ \A i \in 1..n : a[i] = q[i]
      /\ m.topic = "ack" /\ m.owed => \E j \in 1..n : q[j] = Update(m.version)
  OBVIOUS
<1> SUFFICES ASSUME NEW i \in DOMAIN a, a[i].topic = "ack" /\ a[i].owed
             PROVE  a[i].version \in settled \/ \E j \in 1..(i - 1) : a[j] = Update(a[i].version)
  BY DEF AcksFollow
<1> HIDE DEF n, a
<1>2. CASE i = n + 1
  <2>1. PICK j \in 1..n : q[j] = Update(m.version)
    BY <1>1, <1>2
  <2>2. j \in 1..(i - 1) /\ a[j] = q[j] /\ a[i] = m
    BY <1>1, <1>2
  <2> QED
    BY <2>1, <2>2
<1>3. CASE i \in 1..n
  <2>1. a[i] = q[i] /\ i \in DOMAIN q /\ \A j \in 1..(i - 1) : j \in 1..n
    BY <1>1, <1>3
  <2>2. q[i].version \in settled \/ \E j \in 1..(i - 1) : q[j] = Update(q[i].version)
    BY <2>1 DEF AcksFollow
  <2> QED
    BY <1>1, <2>1, <2>2
<1> QED
  BY <1>1, <1>2, <1>3

(* The ACKs of a queue whose first item is taken.                          *)
LEMMA AcksTail ==
  ASSUME NEW q \in Seq(QueueItem), q # <<>>, NEW settled, NEW more, settled \subseteq more,
         AcksFollow(q, settled), Head(q).topic = "update" => Head(q).version \in more
  PROVE  /\ AcksFollow(Tail(q), more)
         /\ Head(q).topic = "ack" /\ Head(q).owed => Head(q).version \in settled
<1> DEFINE n == Len(q)
           t == Tail(q)
<1>1. /\ n \in Nat /\ n >= 1 /\ DOMAIN q = 1..n /\ DOMAIN t = 1..(n - 1) /\ Head(q) = q[1]
      /\ \A i \in 1..(n - 1) : t[i] = q[i + 1]
  OBVIOUS
<1> HIDE DEF n, t
<1>2. Head(q).topic = "ack" /\ Head(q).owed => Head(q).version \in settled
  <2>1. 1 \in DOMAIN q /\ ~\E j \in 1..(1 - 1) : TRUE
    BY <1>1
  <2> QED
    BY <1>1, <2>1 DEF AcksFollow
<1>3. ASSUME NEW i \in 1..(n - 1), t[i].topic = "ack" /\ t[i].owed
      PROVE  t[i].version \in more \/ \E j \in 1..(i - 1) : t[j] = Update(t[i].version)
  <2>1. t[i] = q[i + 1] /\ i + 1 \in DOMAIN q /\ (i + 1) - 1 = i
    BY <1>1
  <2>2. q[i + 1].version \in settled \/ \E j \in 1..((i + 1) - 1) : q[j] = Update(q[i + 1].version)
    BY <1>3, <2>1 DEF AcksFollow
  <2>3. CASE q[i + 1].version \in settled
    BY <2>1, <2>3
  <2>4. CASE \E j \in 1..i : q[j] = Update(q[i + 1].version)
    <3>1. PICK j \in 1..i : q[j] = Update(q[i + 1].version)
      BY <2>4
    <3>2. CASE j = 1
      <4>1. q[1].topic = "update" /\ q[1].version = q[i + 1].version
        BY <3>1, <3>2 DEF Update
      <4> QED
        BY <1>1, <2>1, <4>1
    <3>3. CASE j # 1
      <4>1. j - 1 \in 1..(i - 1) /\ j - 1 \in 1..(n - 1) /\ (j - 1) + 1 = j
        BY <1>1, <3>3
      <4>2. t[j - 1] = q[j]
        BY <1>1, <4>1
      <4> QED
        BY <2>1, <3>1, <4>1, <4>2
    <3> QED
      BY <3>2, <3>3
  <2> QED
    BY <2>1, <2>2, <2>3, <2>4
<1> QED
  BY <1>1, <1>2, <1>3 DEF t, AcksFollow

(* What the variables hold.                                                *)
LEMMA TopicFacts ==
  ASSUME SourceTypeOK, TopicTypeOK
  PROVE  /\ emitted \in Nat /\ version \in 0..MaxVersion /\ version \in Nat /\ emitted <= version
         /\ published \in Nat /\ queue \in Seq(QueueItem)
         /\ \A m \in QueueItem : m.version \in 0..MaxVersion /\ m.version \in Nat
         /\ \A v \in 0..MaxVersion : Update(v) \in QueueItem /\ Ack(v) \in QueueItem
         /\ Holders \subseteq Loops /\ \A g \in Holders : loops[g].item \in QueueItem
         /\ \A o \in Observers : seen[o] \in Nat /\ inbox[o] \in Seq(Nat) /\ inbox[o] \in Seq(0..MaxVersion)
         /\ Waiting \subseteq QueueItem /\ Ahead \subseteq Nat
<1>1. Seq(0..MaxVersion) \subseteq Seq(Nat)
  BY ObservedThingAssumption
<1>2. /\ emitted \in Nat /\ version \in 0..MaxVersion /\ version \in Nat /\ emitted <= version
      /\ published \in Nat /\ queue \in Seq(QueueItem)
      /\ \A o \in Observers : seen[o] \in Nat /\ inbox[o] \in Seq(0..MaxVersion)
  BY ObservedThingAssumption DEF SourceTypeOK, TopicTypeOK
<1>3. /\ \A m \in QueueItem : m.version \in 0..MaxVersion /\ m.version \in Nat
      /\ \A v \in 0..MaxVersion : Update(v) \in QueueItem /\ Ack(v) \in QueueItem
  BY ItemTypes, ObservedThingAssumption DEF TopicTypeOK
<1>4. Holders \subseteq Loops /\ \A g \in Holders : loops[g].item \in QueueItem
  BY HoldersType, ObservedThingAssumption
<1>5. Waiting \subseteq QueueItem
  BY <1>2, <1>4 DEF Waiting
<1>6. Ahead \subseteq Nat
  <2>1. \A o \in Observers : \A i \in DOMAIN inbox[o] : inbox[o][i] \in Nat
    BY <1>1, <1>2
  <2> QED
    BY <1>2, <1>3, <1>4, <2>1 DEF Ahead
<1> QED
  BY <1>1, <1>2, <1>3, <1>4, <1>5, <1>6

(* A step that brings nothing into the queue or the hands of the loops.    *)
LEMMA AheadStays ==
  ASSUME SourceTypeOK, TopicTypeOK, AheadInv, Ahead' \subseteq Ahead, Waiting' \subseteq Waiting,
         held \cup stale \subseteq (held \cup stale)', version' \in Nat, version <= version'
  PROVE  AheadInv'
<1>1. version \in Nat /\ Ahead \subseteq Nat
  BY TopicFacts
<1> SUFFICES ASSUME NEW n \in Ahead'
             PROVE  n <= version' /\ \A m \in Waiting' : Follows(m, n, (held \cup stale)')
  BY DEF AheadInv, Follows
<1>2. n \in Ahead /\ n \in Nat /\ n <= version /\ \A m \in Waiting : Follows(m, n, held \cup stale)
  BY <1>1 DEF AheadInv
<1>3. n <= version'
  BY <1>1, <1>2
<1>4. \A m \in Waiting' : Follows(m, n, (held \cup stale)')
  BY <1>2 DEF Follows
<1> QED
  BY <1>3, <1>4

(* What is settled stays so.                                               *)
LEMMA SettledStays ==
  ASSUME SourceTypeOK, TopicTypeOK, published' \in Nat, published <= published', held \subseteq held',
         \A g \in Holders :
           \/ g \in Holders' /\ loops'[g].item = loops[g].item
           \/ loops[g].item.topic = "update" =>
                published' >= loops[g].item.version \/ loops[g].item.version \in held'
  PROVE  Settled \subseteq Settled'
<1> SUFFICES ASSUME NEW v \in 0..MaxVersion, published >= v \/ v \in held \/ Holds(Update(v))
             PROVE  published' >= v \/ v \in held' \/ Holds(Update(v))'
  BY DEF Settled
<1>1. CASE published >= v
  <2>1. published \in Nat /\ v \in Nat
    BY TopicFacts, ObservedThingAssumption
  <2> QED
    BY <1>1, <2>1
<1>2. CASE v \in held
  BY <1>2
<1>3. CASE Holds(Update(v))
  <2>1. PICK g \in Holders : loops[g].item = Update(v)
    BY <1>3 DEF Holds
  <2>2. loops[g].item.topic = "update" /\ loops[g].item.version = v
    BY <2>1 DEF Update
  <2> QED
    BY <2>1, <2>2 DEF Holds, Update
<1> QED
  BY <1>1, <1>2, <1>3

(* A step that leaves messages where they are.                             *)
LEMMA TopicQuiet ==
  ASSUME SourceTypeOK, TopicTypeOK, TopicInv, version' \in Nat, version <= version', SlotInv',
         UNCHANGED <<queue, published, inbox, seen, held, stale>>,
         Holders' = Holders, \A g \in Holders : loops'[g].item = loops[g].item
  PROVE  TopicInv'
<1>0. queue \in Seq(QueueItem) /\ version \in Nat /\ published \in Nat
  BY TopicFacts
<1>1. Ahead' = Ahead /\ Waiting' = Waiting
  BY DEF Ahead, Waiting
<1>2. AheadInv'
  BY <1>1, AheadStays DEF TopicInv
<1>3. InOrder(queue, version, held \cup stale)'
  BY <1>0, OrderStays DEF TopicInv
<1>4. Settled' = Settled
  BY DEF Settled, Holds, Update
<1>5. UpdateBeforeAck'
  BY DEF TopicInv, UpdateBeforeAck
<1>6. AcksFollow(queue, Settled)'
  BY <1>4 DEF TopicInv, AcksFollow, Update
<1>7. \A o \in Observers : Arrives(inbox[o], seen[o], held \cup stale)'
  BY DEF TopicInv, Arrives
<1> QED
  BY <1>2, <1>3, <1>5, <1>6, <1>7 DEF TopicInv

(* A step of one loop.                                                     *)
LEMMA LoopSteps ==
  ASSUME TopicTypeOK, NEW g \in Loops, NEW l, loops' = [loops EXCEPT ![g] = l]
  PROVE  /\ loops'[g] = l /\ \A h \in Loops \ {g} : loops'[h] = loops[h]
         /\ Holders' = IF l.at \in {"publish", "sleep"} THEN Holders \cup {g} ELSE Holders \ {g}
<1>1. loops'[g] = l /\ \A h \in Loops \ {g} : loops'[h] = loops[h]
  BY DEF TopicTypeOK
<1> QED
  BY <1>1 DEF Holders

(* A loop that has held a slot of its own has been started.                *)
LEMMA SlotsKept ==
  ASSUME TopicTypeOK, SlotInv, version \in Nat, version' \in Nat, version <= version', UNCHANGED <<found,
         starts>>,
         NEW g \in Loops, loops[g].at # "ended", NEW l, loops' = [loops EXCEPT ![g] = l]
  PROVE  SlotInv'
<1>1. \A h \in Loops : h <= starts => h # g /\ loops'[h] = loops[h]
  BY LoopSteps DEF SlotInv
<1>2. \A v \in 0..MaxVersion : found[v] > 0 => v <= version'
  BY ObservedThingAssumption DEF SlotInv
<1> QED
  BY <1>1, <1>2 DEF SlotInv

(* A loop hands what it holds to the broker, and may keep it.              *)
LEMMA SentKeeps ==
  ASSUME SourceTypeOK, TopicTypeOK, TopicInv, NEW g \in Loops, loops[g].at = "publish", Sent(loops[g].item),
         NEW l, loops' = [loops EXCEPT ![g] = l],
         l.at \in {"get", "ended"} \/ (l.at = "sleep" /\ l.item = loops[g].item),
         UNCHANGED <<version, seen, queue, held, stale, found, starts>>
  PROVE  TopicInv'
<1> DEFINE m == loops[g].item
           late == held \cup stale
<1>0. /\ queue \in Seq(QueueItem) /\ version \in Nat /\ published \in Nat /\ Holders \subseteq Loops
      /\ \A o \in Observers : seen[o] \in Nat /\ inbox[o] \in Seq(Nat)
      /\ Ahead \subseteq Nat /\ version <= version' /\ version' \in Nat
  BY TopicFacts
<1>1. /\ g \in Holders /\ m \in Waiting /\ m.version \in Ahead /\ m \in QueueItem /\ m.version \in Nat
      /\ m.version \in 0..MaxVersion
  <2>1. g \in Holders
    BY DEF Holders
  <2> QED
    BY <2>1, TopicFacts DEF Waiting, Ahead
<1>2. /\ \A h \in Holders' : h \in Holders /\ loops'[h].item = loops[h].item
      /\ \A h \in Holders : h # g => h \in Holders' /\ loops'[h].item = loops[h].item
  <2>1. loops'[g] = l /\ \A h \in Loops \ {g} : loops'[h] = loops[h]
    BY LoopSteps
  <2>a. Holders' = IF l.at \in {"publish", "sleep"} THEN Holders \cup {g} ELSE Holders \ {g}
    BY LoopSteps
  <2>2. Holders' = Holders \/ Holders' = Holders \ {g}
    <3>1. Holders \cup {g} = Holders
      BY <1>1
    <3> QED
      BY <2>a, <3>1
  <2>3. g \in Holders' => loops'[g].item = loops[g].item
    BY <2>1 DEF Holders
  <2> QED
    BY <1>0, <2>1, <2>2, <2>3
<1>3. /\ published' \in Nat /\ published <= published'
      /\ m.topic = "update" => published' >= m.version
      /\ \A o \in Observers :
           inbox'[o] = inbox[o] \/ (m.topic = "update" /\ inbox'[o] = Append(inbox[o], m.version))
  <2>1. CASE m.topic # "update"
    BY <1>0, <2>1 DEF Sent
  <2>2. CASE m.topic = "update"
    BY <1>0, <1>1, <2>2 DEF Sent
  <2> QED
    BY <2>1, <2>2
<1> HIDE DEF m
<1>4. \A o \in Observers : \A i \in DOMAIN inbox'[o] :
        (\E j \in DOMAIN inbox[o] : inbox'[o][i] = inbox[o][j]) \/ inbox'[o][i] = m.version
  <2> TAKE o \in Observers
  <2>1. inbox[o] \in Seq(Nat) /\ m.version \in Nat
    BY <1>0, <1>1
  <2>2. \A i \in DOMAIN Append(inbox[o], m.version) :
          \/ \E j \in DOMAIN inbox[o] : Append(inbox[o], m.version)[i] = inbox[o][j]
          \/ Append(inbox[o], m.version)[i] = m.version
    BY <2>1
  <2> QED
    BY <1>3, <2>2
<1>5. Ahead' \subseteq Ahead
  BY <1>1, <1>2, <1>4 DEF Ahead
<1>6. Waiting' \subseteq Waiting
  BY <1>2 DEF Waiting
<1>7. AheadInv'
  BY <1>0, <1>5, <1>6, AheadStays DEF TopicInv
<1>8. InOrder(queue, version, held \cup stale)'
  BY DEF TopicInv
<1>9. \A o \in Observers : Arrives(inbox[o], seen[o], held \cup stale)'
  <2> TAKE o \in Observers
  <2>1. Arrives(inbox[o], seen[o], late) /\ inbox[o] \in Seq(Nat) /\ seen[o] \in Nat
    BY <1>0 DEF TopicInv
  <2>2. CASE inbox'[o] = inbox[o]
    BY <2>1, <2>2
  <2>3. CASE m.topic = "update" /\ inbox'[o] = Append(inbox[o], m.version)
    <3>1. seen[o] \in Ahead /\ \A i \in DOMAIN inbox[o] : inbox[o][i] \in Ahead
      BY DEF Ahead
    <3>2. \A n \in Ahead : m.version \notin late => n <= m.version
      BY <1>1, <2>3 DEF TopicInv, AheadInv, Follows
    <3>3. m.version \notin late => seen[o] <= m.version /\ \A i \in DOMAIN inbox[o] : inbox[o][i] <= m.version
      BY <3>1, <3>2
    <3> HIDE DEF late
    <3>4. Arrives(Append(inbox[o], m.version), seen[o], late)
      BY <1>1, <2>1, <3>3, ArrivesAppend
    <3> QED
      BY <2>3, <3>4 DEF late
  <2> QED
    BY <1>3, <2>2, <2>3
<1>10. SlotInv'
  BY <1>0, SlotsKept DEF TopicInv
<1>11. Settled \subseteq Settled'
  <2>1. \A h \in Holders : \/ h \in Holders' /\ loops'[h].item = loops[h].item
                           \/ loops[h].item.topic = "update" => published' >= loops[h].item.version
    BY <1>2, <1>3 DEF m
  <2> QED
    BY <1>0, <1>3, <2>1, SettledStays
<1>12. AcksFollow(queue, Settled)'
  BY <1>11 DEF TopicInv, AcksFollow, Update
<1>13. UpdateBeforeAck'
  <2> SUFFICES ASSUME NEW h \in Holders', loops'[h].item.topic = "ack", loops'[h].item.owed
               PROVE  published' >= loops'[h].item.version \/ loops'[h].item.version \in held'
    BY DEF UpdateBeforeAck
  <2>1. h \in Holders /\ loops'[h].item = loops[h].item
    BY <1>2
  <2>2. loops[h].item.version \in Nat
    BY <2>1, TopicFacts
  <2>3. published >= loops[h].item.version \/ loops[h].item.version \in held
    BY <2>1 DEF TopicInv, UpdateBeforeAck
  <2> QED
    BY <1>0, <1>3, <2>1, <2>2, <2>3
<1> QED
  BY <1>7, <1>8, <1>9, <1>10, <1>12, <1>13 DEF TopicInv

(* A loop takes the first item of the queue.                               *)
LEMMA TakeKeeps ==
  ASSUME SourceTypeOK, TopicTypeOK, TopicInv, NEW g \in Loops, Take(g), UNCHANGED observerVars
  PROVE  TopicInv'
<1> DEFINE m == Head(queue)
           l == [at |-> "publish", item |-> m]
           late == held \cup stale
<1>0. /\ queue \in Seq(QueueItem) /\ version \in Nat /\ published \in Nat /\ Holders \subseteq Loops
      /\ \A o \in Observers : seen[o] \in Nat /\ inbox[o] \in Seq(Nat)
      /\ Ahead \subseteq Nat
  BY TopicFacts
<1>1. /\ queue # <<>> /\ queue' = Tail(queue) /\ loops' = [loops EXCEPT ![g] = l] /\ loops[g].at = "get"
      /\ held' = held \cup UpdatesHeld(Holders)
      /\ UNCHANGED <<version, seen, stale, found, starts, published, inbox>>
  BY DEF Take, sourceVars, observerVars, runnerVars, readVars, brokerVars
<1>2. /\ m \in QueueItem /\ m.version <= version /\ InOrder(queue', version, late)
      /\ \A i \in DOMAIN queue' : Follows(queue'[i], m.version, late)
      /\ \A i \in DOMAIN queue' : \E j \in DOMAIN queue : queue'[i] = queue[j]
  BY <1>0, <1>1, OrderTail DEF TopicInv
<1>3. Holders' = Holders \cup {g} /\ loops'[g].item = m /\ \A h \in Holders : h # g /\ loops'[h] = loops[h]
  <2>1. l.at = "publish" /\ l.item = m
    OBVIOUS
  <2> HIDE DEF l
  <2>2. /\ loops'[g] = l /\ \A h \in Loops \ {g} : loops'[h] = loops[h]
        /\ Holders' = IF l.at \in {"publish", "sleep"} THEN Holders \cup {g} ELSE Holders \ {g}
    BY <1>1, LoopSteps
  <2>3. g \notin Holders
    BY <1>1 DEF Holders
  <2> QED
    BY <1>0, <2>1, <2>2, <2>3
<1>4. late \subseteq (held \cup stale)' /\ held \subseteq held' /\ version' = version
  BY <1>1
<1>a. m \in Waiting
  <2>1. \E i \in DOMAIN queue : queue[i] = m
    BY <1>0, <1>1
  <2> QED
    BY <2>1 DEF Waiting
<1>b. m.version \in Nat /\ \A x \in QueueItem : x.version \in 0..MaxVersion
  BY <1>2, TopicFacts
<1> HIDE DEF m
<1>5. \A h \in Holders : loops[h].item.topic = "update" => loops[h].item.version \in held'
  <2> SUFFICES ASSUME NEW h \in Holders, loops[h].item.topic = "update" PROVE loops[h].item.version \in held'
    OBVIOUS
  <2>1. loops[h].item \in QueueItem
    BY TopicFacts
  <2>2. loops[h].item = Update(loops[h].item.version)
    BY <2>1 DEF QueueItem, Update
  <2> QED
    BY <1>1, <1>b, <2>1, <2>2 DEF UpdatesHeld
<1>6. Ahead' \subseteq Ahead \cup {m.version}
  BY <1>1, <1>3 DEF Ahead
<1>7. \A x \in Waiting' : \/ x \in Waiting /\ \E i \in DOMAIN queue' : x = queue'[i]
                          \/ x = m
                          \/ x \in Waiting /\ \E h \in Holders : x = loops[h].item
  BY <1>2, <1>3 DEF Waiting
<1>8. AheadInv'
  <2> SUFFICES ASSUME NEW n \in Ahead'
               PROVE  n <= version /\ \A x \in Waiting' : Follows(x, n, (held \cup stale)')
    BY <1>1 DEF AheadInv
  <2>1. CASE n \in Ahead
    <3>1. n <= version /\ \A x \in Waiting : Follows(x, n, late)
      BY <2>1 DEF TopicInv, AheadInv
    <3> QED
      BY <1>4, <1>7, <1>a, <3>1 DEF Follows
  <2>2. CASE n = m.version
    <3> SUFFICES ASSUME NEW x \in Waiting' PROVE Follows(x, n, (held \cup stale)')
      BY <1>2, <2>2
    <3>1. CASE \E i \in DOMAIN queue' : x = queue'[i]
      BY <1>2, <1>4, <2>2, <3>1 DEF Follows
    <3>2. CASE x = m
      BY <1>b, <2>2, <3>2 DEF Follows
    <3>3. CASE \E h \in Holders : x = loops[h].item
      BY <1>5, <3>3 DEF Follows
    <3> QED
      BY <1>7, <3>1, <3>2, <3>3
  <2> QED
    BY <1>6, <2>1, <2>2
<1>9. InOrder(queue, version, held \cup stale)'
  <2>1. queue' \in Seq(QueueItem)
    BY <1>0, <1>1
  <2> QED
    BY <1>0, <1>2, <1>4, <2>1, OrderStays
<1>10. \A o \in Observers : Arrives(inbox[o], seen[o], held \cup stale)'
  BY <1>1, <1>4 DEF TopicInv, Arrives
<1>11. SlotInv'
  <2>1. /\ SlotInv /\ version \in Nat /\ version' \in Nat /\ version <= version'
        /\ UNCHANGED <<found, starts>> /\ loops[g].at # "ended"
    BY <1>0, <1>1 DEF TopicInv
  <2> HIDE DEF l
  <2> QED
    BY <1>1, <2>1, SlotsKept
<1>12. Settled \subseteq Settled' /\ (m.topic = "update" => m.version \in Settled')
  <2>1. Settled \subseteq Settled'
    BY <1>0, <1>1, <1>3, <1>4, SettledStays
  <2>2. ASSUME m.topic = "update"
        PROVE  m.version \in 0..MaxVersion /\ \E h \in Holders' : loops'[h].item = Update(m.version)
    <3>1. m = Update(m.version)
      BY <1>2, <2>2 DEF QueueItem, Update
    <3> QED
      BY <1>2, <1>3, <1>b, <3>1
  <2> QED
    BY <2>1, <2>2 DEF Settled, Holds, Update
<1>13. AcksFollow(queue', Settled') /\ (m.topic = "ack" /\ m.owed => m.version \in Settled)
  BY <1>0, <1>1, <1>12, AcksTail DEF TopicInv, m
<1>14. UpdateBeforeAck'
  <2> SUFFICES ASSUME NEW h \in Holders', loops'[h].item.topic = "ack", loops'[h].item.owed
               PROVE  published >= loops'[h].item.version \/ loops'[h].item.version \in held'
    BY <1>1 DEF UpdateBeforeAck
  <2>1. CASE h \in Holders
    BY <1>3, <1>4, <2>1 DEF TopicInv, UpdateBeforeAck
  <2>2. CASE h = g
    <3>1. m.version \in Settled
      BY <1>3, <1>13, <2>2
    <3>2. CASE Holds(Update(m.version))
      BY <1>3, <1>5, <2>2, <3>2 DEF Holds, Update
    <3> QED
      BY <1>3, <1>4, <2>2, <3>1, <3>2 DEF Settled
  <2> QED
    BY <1>3, <2>1, <2>2
<1>15. AcksFollow(queue, Settled)'
  BY <1>13 DEF AcksFollow, Update
<1> QED
  BY <1>8, <1>9, <1>10, <1>11, <1>14, <1>15 DEF TopicInv

(* The read of a property returns what it found.                           *)
LEMMA AnswerKeeps ==
  ASSUME SourceTypeOK, TopicTypeOK, TopicInv, NEW v \in 0..MaxVersion, AnswerRead(v), UNCHANGED observerVars
  PROVE  TopicInv' /\ v <= version
<1> DEFINE m == Update(v)
           late == held \cup stale
           wide == (held \cup stale)'
<1>0. /\ queue \in Seq(QueueItem) /\ version \in Nat /\ published \in Nat /\ Ahead \subseteq Nat
      /\ m \in QueueItem /\ v \in Nat
  BY TopicFacts, ObservedThingAssumption
<1>1. /\ queue' = Append(queue, m) /\ stale' = (IF v < version THEN stale \cup {v} ELSE stale) /\ found[v] > 0
      /\ found' = [found EXCEPT ![v] = @ - 1]
      /\ UNCHANGED <<version, seen, held, loops, starts, published, inbox>>
  BY DEF AnswerRead, sourceVars, observerVars, runnerVars, loopVars, brokerVars
<1>2. v <= version /\ (v \notin wide => v = version) /\ late \subseteq wide
  <2>1. v <= version
    BY <1>1 DEF TopicInv, SlotInv
  <2> QED
    BY <1>0, <1>1, <2>1
<1>3. m.topic = "update" /\ m.version = v
  BY DEF Update
<1> HIDE DEF m, late, wide
<1>4. Holders' = Holders /\ Ahead' = Ahead
  BY <1>1 DEF Holders, Ahead
<1>5. Waiting' \subseteq Waiting \cup {m}
  <2>1. \A i \in DOMAIN queue' : queue'[i] = m \/ \E j \in DOMAIN queue : queue'[i] = queue[j]
    BY <1>0, <1>1
  <2> QED
    BY <1>1, <1>4, <2>1 DEF Waiting
<1>6. AheadInv'
  <2> SUFFICES ASSUME NEW n \in Ahead PROVE n <= version /\ \A x \in Waiting' : Follows(x, n, wide)
    BY <1>1, <1>4 DEF AheadInv, wide
  <2>1. n <= version /\ \A x \in Waiting : Follows(x, n, late)
    BY DEF TopicInv, AheadInv, late
  <2>2. Follows(m, n, wide)
    BY <1>2, <1>3, <2>1 DEF Follows
  <2> QED
    BY <1>2, <1>5, <2>1, <2>2 DEF Follows
<1>7. InOrder(queue', version, wide)
  <2>1. InOrder(queue, version, wide)
    <3>1. InOrder(queue, version, late) /\ version <= version
      BY <1>0 DEF TopicInv, late
    <3> QED
      BY <1>0, <1>2, <3>1, OrderStays
  <2>2. m.version <= version /\ Follows(m, version, wide) /\ version <= version
    BY <1>0, <1>2, <1>3 DEF Follows
  <2> QED
    BY <1>0, <1>1, <2>1, <2>2, OrderAppend
<1>8. InOrder(queue, version, held \cup stale)'
  BY <1>1, <1>7 DEF wide
<1>9. \A o \in Observers : Arrives(inbox[o], seen[o], held \cup stale)'
  BY <1>1, <1>2 DEF TopicInv, Arrives, late, wide
<1>10. SlotInv'
  <2>1. found \in [0..MaxVersion -> Nat] /\ version' = version
    BY <1>1 DEF TopicTypeOK
  <2>2. \A w \in 0..MaxVersion : found'[w] > 0 => w <= version
    <3> TAKE w \in 0..MaxVersion
    <3>1. CASE w = v
      BY <1>2, <3>1
    <3>2. CASE w # v
      BY <1>1, <2>1, <3>2 DEF TopicInv, SlotInv
    <3> QED
      BY <3>1, <3>2
  <2> QED
    BY <1>1, <2>1, <2>2 DEF TopicInv, SlotInv
<1>11. Settled' = Settled
  BY <1>1, <1>4 DEF Settled, Holds, Update
<1>12. AcksFollow(queue', Settled)
  BY <1>0, <1>1, <1>3, AcksAppend DEF TopicInv
<1>13. AcksFollow(queue, Settled)'
  BY <1>11, <1>12 DEF AcksFollow, Update
<1>14. UpdateBeforeAck'
  BY <1>1, <1>4 DEF TopicInv, UpdateBeforeAck
<1> QED
  BY <1>2, <1>6, <1>8, <1>9, <1>10, <1>13, <1>14 DEF TopicInv

(* The change of a write is emitted, and then the write is acknowledged.   *)
LEMMA EmissionKeeps ==
  ASSUME SourceTypeOK, TopicTypeOK, TopicInv, TopicEmission
  PROVE  TopicInv'
<1> DEFINE n == emitted'
           u == Update(n)
           a == Ack(n)
           q == IF topicSub THEN Append(queue, u) ELSE queue
           late == held \cup stale
<1>0. /\ queue \in Seq(QueueItem) /\ version \in Nat /\ published \in Nat /\ Ahead \subseteq Nat
      /\ n \in 0..MaxVersion /\ n \in Nat /\ n = version' /\ version <= n
      /\ u \in QueueItem /\ a \in QueueItem
  <2>1. n \in 0..MaxVersion /\ n = version' /\ version <= n
    BY EmissionTypes DEF TopicEmission
  <2> HIDE DEF n
  <2> QED
    BY <2>1, TopicFacts, ObservedThingAssumption
<1>1. /\ UNCHANGED <<seen, held, stale, found, loops, starts, published, inbox>>
      /\ queue' = queue \o (IF topicSub THEN <<u>> ELSE <<>>) \o (IF writing THEN <<a>> ELSE <<>>)
  BY DEF TopicEmission, Queued, observerVars, runnerVars, readVars, loopVars, brokerVars
<1> HIDE DEF n
<1>2. u.topic = "update" /\ u.version = n /\ a.topic = "ack" /\ a.version = n /\ a.owed = topicSub
  BY DEF Update, Ack
<1> HIDE DEF u, a
<1>3. queue' = (IF writing THEN Append(q, a) ELSE q) /\ q \in Seq(QueueItem)
  <2>1. \A s \in Seq(QueueItem) : \A m \in QueueItem : s \o <<>> = s /\ s \o <<m>> = Append(s, m)
          /\ Append(s, m) \in Seq(QueueItem)
    OBVIOUS
  <2>2. q \in Seq(QueueItem) /\ q = queue \o (IF topicSub THEN <<u>> ELSE <<>>)
    BY <1>0, <2>1
  <2> HIDE DEF q
  <2> QED
    BY <1>0, <1>1, <2>1, <2>2
<1>4. topicSub => \E j \in 1..Len(q) : q[j] = u
  <2>1. ASSUME topicSub PROVE Len(queue) + 1 \in 1..Len(q) /\ q[Len(queue) + 1] = u
    BY <1>0, <2>1
  <2> QED
    BY <2>1
<1>5. InOrder(q, n, late) /\ AcksFollow(q, Settled)
  <2>1. /\ InOrder(queue, version, late) /\ AcksFollow(queue, Settled)
        /\ u.version <= n /\ Follows(u, version, late)
    BY <1>0, <1>2 DEF TopicInv, Follows
  <2>2. CASE topicSub
    <3>1. AcksFollow(Append(queue, u), Settled)
      BY <1>0, <1>2, <2>1, AcksAppend
    <3>2. InOrder(Append(queue, u), n, late)
      BY <1>0, <2>1, OrderAppend
    <3> QED
      BY <2>2, <3>1, <3>2
  <2>3. CASE ~topicSub
    <3>1. late \subseteq late
      OBVIOUS
    <3> QED
      BY <1>0, <2>1, <2>3, <3>1, OrderStays
  <2> QED
    BY <2>2, <2>3
<1>a. \A i \in DOMAIN q : q[i] = u \/ \E j \in DOMAIN queue : q[i] = queue[j]
  BY <1>0
<1> HIDE DEF q
<1>6. InOrder(queue', n, late) /\ AcksFollow(queue', Settled)
  <2>1. a.version <= n /\ Follows(a, n, late) /\ n <= n
    BY <1>0, <1>2 DEF Follows
  <2>2. InOrder(Append(q, a), n, late)
    BY <1>0, <1>3, <1>5, <2>1, OrderAppend
  <2>3. a.topic = "ack" /\ a.owed => \E j \in 1..Len(q) : q[j] = Update(a.version)
    BY <1>2, <1>4 DEF u
  <2>4. AcksFollow(Append(q, a), Settled)
    BY <1>0, <1>3, <1>5, <2>3, AcksAppend
  <2> QED
    BY <1>3, <1>5, <2>2, <2>4
<1>7. Holders' = Holders /\ Ahead' = Ahead
  BY <1>1 DEF Holders, Ahead
<1>8. Waiting' \subseteq Waiting \cup {u, a}
  <2>1. \A i \in DOMAIN queue' : queue'[i] = a \/ \E j \in DOMAIN q : queue'[i] = q[j]
    BY <1>0, <1>3
  <2>2. \A i \in DOMAIN queue' : queue'[i] \in {a, u} \/ \E j \in DOMAIN queue : queue'[i] = queue[j]
    BY <1>a, <2>1
  <2>3. \A g \in Holders' : g \in Holders /\ loops'[g].item = loops[g].item
    BY <1>1, <1>7
  <2>4. ASSUME NEW x \in Waiting' PROVE x \in Waiting \cup {u, a}
    <3>1. CASE \E i \in DOMAIN queue' : x = queue'[i]
      BY <2>2, <3>1 DEF Waiting
    <3>2. CASE \E g \in Holders' : x = loops'[g].item
      BY <2>3, <3>2 DEF Waiting
    <3> QED
      BY <2>4, <3>1, <3>2 DEF Waiting
  <2> QED
    BY <2>4
<1>9. AheadInv'
  <2> SUFFICES ASSUME NEW k \in Ahead PROVE k <= n /\ \A x \in Waiting' : Follows(x, k, late)
    BY <1>0, <1>1, <1>7 DEF AheadInv
  <2>1. k <= version /\ k \in Nat /\ \A x \in Waiting : Follows(x, k, late)
    BY <1>0 DEF TopicInv, AheadInv
  <2>2. k <= n
    BY <1>0, <2>1
  <2>3. Follows(u, k, late) /\ Follows(a, k, late)
    BY <1>2, <2>2 DEF Follows
  <2> QED
    BY <1>8, <2>1, <2>2, <2>3
<1>10. SlotInv'
  <2>1. \A w \in 0..MaxVersion : w <= version => w <= n
    BY <1>0, ObservedThingAssumption
  <2> QED
    BY <1>0, <1>1, <2>1 DEF TopicInv, SlotInv
<1>11. Settled' = Settled
  BY <1>1, <1>7 DEF Settled, Holds, Update
<1>12. AcksFollow(queue, Settled)'
  BY <1>6, <1>11 DEF AcksFollow, Update
<1>13. InOrder(queue, version, held \cup stale)'
  BY <1>0, <1>1, <1>6
<1>14. UpdateBeforeAck' /\ \A o \in Observers : Arrives(inbox[o], seen[o], held \cup stale)'
  BY <1>1, <1>7 DEF TopicInv, UpdateBeforeAck
<1> QED
  BY <1>9, <1>10, <1>12, <1>13, <1>14 DEF TopicInv

(* A loop ends, with what it held.                                         *)
LEMMA EndKeeps ==
  ASSUME SourceTypeOK, TopicTypeOK, TopicInv, NEW g \in Loops, LoopEnds(g), UNCHANGED observerVars
  PROVE  TopicInv'
<1>0. /\ queue \in Seq(QueueItem) /\ version \in Nat /\ published \in Nat /\ Holders \subseteq Loops
  BY TopicFacts
<1>1. /\ loops' = [loops EXCEPT ![g] = [at |-> "ended"]] /\ loops[g].at # "ended"
      /\ held' = held \cup UpdatesHeld(Holders \cap {g})
      /\ UNCHANGED <<version, seen, stale, found, starts, published, inbox, queue>>
  BY DEF LoopEnds, sourceVars, observerVars, runnerVars, readVars, brokerVars
<1> DEFINE l == [at |-> "ended"]
<1>a. l.at = "ended" /\ loops' = [loops EXCEPT ![g] = l]
  BY <1>1
<1> HIDE DEF l
<1>2. Holders' = Holders \ {g} /\ \A h \in Holders' : loops'[h] = loops[h]
  <2>1. /\ \A h \in Loops \ {g} : loops'[h] = loops[h]
        /\ Holders' = IF l.at \in {"publish", "sleep"} THEN Holders \cup {g} ELSE Holders \ {g}
    BY <1>a, LoopSteps
  <2> QED
    BY <1>0, <1>a, <2>1
<1>3. held \cup stale \subseteq (held \cup stale)' /\ held \subseteq held' /\ version' = version
  BY <1>1
<1>4. AheadInv'
  <2>1. Ahead' \subseteq Ahead /\ Waiting' \subseteq Waiting
    BY <1>1, <1>2 DEF Ahead, Waiting
  <2> QED
    BY <1>0, <1>3, <2>1, AheadStays DEF TopicInv
<1>5. InOrder(queue, version, held \cup stale)'
  BY <1>0, <1>1, <1>3, OrderStays DEF TopicInv
<1>6. \A o \in Observers : Arrives(inbox[o], seen[o], held \cup stale)'
  BY <1>1, <1>3 DEF TopicInv, Arrives
<1>7. SlotInv'
  <2>1. SlotInv /\ version' \in Nat /\ version <= version' /\ UNCHANGED <<found, starts>>
    BY <1>0, <1>1 DEF TopicInv
  <2> QED
    BY <1>0, <1>1, <1>a, <2>1, SlotsKept
<1>8. Settled \subseteq Settled'
  <2>1. ASSUME g \in Holders, loops[g].item.topic = "update" PROVE loops[g].item.version \in held'
    <3>1. loops[g].item \in QueueItem /\ loops[g].item.version \in 0..MaxVersion
      BY <2>1, TopicFacts
    <3>2. loops[g].item = Update(loops[g].item.version)
      BY <2>1, <3>1 DEF QueueItem, Update
    <3> QED
      BY <1>1, <2>1, <3>1, <3>2 DEF UpdatesHeld
  <2>2. \A h \in Holders : h # g => h \in Holders' /\ loops'[h].item = loops[h].item
    BY <1>2
  <2>3. \A h \in Holders :
          \/ h \in Holders' /\ loops'[h].item = loops[h].item
          \/ loops[h].item.topic = "update" =>
               published' >= loops[h].item.version \/ loops[h].item.version \in held'
    BY <2>1, <2>2
  <2>4. published' \in Nat /\ published <= published' /\ held \subseteq held'
    BY <1>0, <1>1
  <2> QED
    BY <2>3, <2>4, SettledStays
<1>9. AcksFollow(queue, Settled)'
  BY <1>1, <1>8 DEF TopicInv, AcksFollow, Update
<1>10. UpdateBeforeAck'
  BY <1>1, <1>2, <1>3 DEF TopicInv, UpdateBeforeAck
<1> QED
  BY <1>4, <1>5, <1>6, <1>7, <1>9, <1>10 DEF TopicInv

(* A loop drops what it holds when it has been published, or keeps it.     *)
LEMMA PublishKeeps ==
  ASSUME SourceTypeOK, TopicTypeOK, TopicInv, NEW g \in Loops, Publish(g) \/ PublishFails(g),
         UNCHANGED <<version, observerVars>>
  PROVE  TopicInv' /\ UNCHANGED <<held, stale>>
<1>0. version \in Nat /\ Holders \subseteq Loops
  BY TopicFacts
<1>1. UNCHANGED <<version, seen, queue, held, stale, found, starts>>
  BY DEF Publish, PublishFails, sourceVars, observerVars, runnerVars, readVars
<1>2. CASE Publish(g)
  <2>1. PICK l \in {[at |-> "get"], [at |-> "ended"]} : loops' = [loops EXCEPT ![g] = l]
    BY <1>2 DEF Publish
  <2>2. l.at \in {"get", "ended"}
    BY <2>1
  <2>3. loops[g].at = "publish" /\ Sent(loops[g].item)
    BY <1>2 DEF Publish
  <2> QED
    BY <1>1, <2>1, <2>2, <2>3, SentKeeps
<1>3. CASE PublishFails(g)
  <2> DEFINE l == Kept(loops[g].item)
  <2>1. l.at = "sleep" /\ l.item = loops[g].item
    BY DEF Kept
  <2>2. loops[g].at = "publish" /\ loops' = [loops EXCEPT ![g] = l]
    BY <1>3 DEF PublishFails
  <2> HIDE DEF l
  <2>3. CASE Sent(loops[g].item)
    BY <1>1, <2>1, <2>2, <2>3, SentKeeps
  <2>4. CASE UNCHANGED <<published, inbox>>
    <3>1. /\ loops'[g] = l /\ \A h \in Loops \ {g} : loops'[h] = loops[h]
          /\ Holders' = IF l.at \in {"publish", "sleep"} THEN Holders \cup {g} ELSE Holders \ {g}
      BY <2>2, LoopSteps
    <3>2. Holders' = Holders /\ \A h \in Holders : loops'[h].item = loops[h].item
      <4>1. g \in Holders
        BY <2>2 DEF Holders
      <4> QED
        BY <1>0, <2>1, <3>1, <4>1
    <3>3. SlotInv'
      <4>1. /\ SlotInv /\ version' \in Nat /\ version <= version' /\ UNCHANGED <<found, starts>>
            /\ loops[g].at # "ended"
        BY <1>0, <1>1, <2>2 DEF TopicInv
      <4> QED
        BY <1>0, <2>2, <4>1, SlotsKept
    <3>4. version' \in Nat /\ version <= version'
      BY <1>0, <1>1
    <3> QED
      BY <1>1, <2>4, <3>2, <3>3, <3>4, TopicQuiet
  <2> QED
    BY <1>1, <1>3, <2>3, <2>4 DEF PublishFails
<1> QED
  BY <1>2, <1>3

(* An observer reads what has arrived.                                     *)
LEMMA TopicReadKeeps ==
  ASSUME SourceTypeOK, TopicTypeOK, TopicInv, NEW o \in Observers, TopicRead(o)
  PROVE  TopicInv' /\ StreamStep
<1> DEFINE late == held \cup stale
           v == Head(inbox[o])
<1>0. /\ queue \in Seq(QueueItem) /\ version \in Nat /\ published \in Nat
      /\ \A p \in Observers : seen[p] \in Nat /\ inbox[p] \in Seq(Nat)
  BY TopicFacts
<1>1. /\ inbox[o] # <<>> /\ inbox' = [inbox EXCEPT ![o] = Tail(@)] /\ Show(o, v) /\ status[o] = "on"
      /\ UNCHANGED <<version, queue, held, stale, found, loops, starts, published>>
  BY DEF TopicRead, sourceVars, runnerVars, readVars, loopVars
<1>2. /\ v \in Nat /\ inbox'[o] = Tail(inbox[o]) /\ seen'[o] = v
      /\ \A p \in Observers \ {o} : inbox'[p] = inbox[p] /\ seen'[p] = seen[p]
  BY <1>0, <1>1 DEF Show, SourceTypeOK, TopicTypeOK
<1>3. Arrives(inbox[o], seen[o], late)
  BY DEF TopicInv
<1>4. /\ Arrives(Tail(inbox[o]), v, late) /\ (v \in late \/ seen[o] <= v)
      /\ \A i \in DOMAIN Tail(inbox[o]) : \E j \in DOMAIN inbox[o] : Tail(inbox[o])[i] = inbox[o][j]
      /\ \E j \in DOMAIN inbox[o] : v = inbox[o][j]
  <2> HIDE DEF late
  <2> QED
    BY <1>0, <1>1, <1>3, ArrivesTail
<1>5. Holders' = Holders /\ Waiting' = Waiting /\ Settled' = Settled
  BY <1>1 DEF Holders, Waiting, Settled, Holds, Update
<1>6. Ahead' \subseteq Ahead
  <2> SUFFICES ASSUME NEW n \in Ahead' PROVE n \in Ahead
    OBVIOUS
  <2>1. CASE \E g \in Holders' : n = loops'[g].item.version
    BY <1>1, <1>5, <2>1 DEF Ahead
  <2>2. ASSUME NEW p \in Observers, n = seen'[p] PROVE n \in Ahead
    BY <1>2, <1>4, <2>2 DEF Ahead
  <2>3. ASSUME NEW p \in Observers, NEW i \in DOMAIN inbox'[p], n = inbox'[p][i] PROVE n \in Ahead
    <3>1. PICK j \in DOMAIN inbox[p] : n = inbox[p][j]
      <4>1. CASE p = o
        BY <1>2, <1>4, <2>3, <4>1
      <4>2. CASE p # o
        BY <1>2, <2>3, <4>2
      <4> QED
        BY <4>1, <4>2
    <3> QED
      BY <3>1 DEF Ahead
  <2> QED
    BY <2>1, <2>2, <2>3 DEF Ahead
<1>7. AheadInv'
  BY <1>0, <1>1, <1>5, <1>6, AheadStays DEF TopicInv
<1>8. \A p \in Observers : Arrives(inbox[p], seen[p], held \cup stale)'
  <2> TAKE p \in Observers
  <2>1. CASE p = o
    BY <1>1, <1>2, <1>4, <2>1
  <2>2. CASE p # o
    BY <1>1, <1>2, <2>2 DEF TopicInv
  <2> QED
    BY <2>1, <2>2
<1>9. TopicInv'
  <2>1. InOrder(queue, version, held \cup stale)' /\ SlotInv'
    BY <1>1 DEF TopicInv, SlotInv
  <2>2. UpdateBeforeAck'
    BY <1>1, <1>5 DEF TopicInv, UpdateBeforeAck
  <2>3. AcksFollow(queue, Settled)'
    BY <1>1, <1>5 DEF TopicInv, AcksFollow, Update
  <2> QED
    BY <1>7, <1>8, <2>1, <2>2, <2>3 DEF TopicInv
<1>10. v <= version
  <2>1. v \in Ahead
    BY <1>4 DEF Ahead
  <2> QED
    BY <2>1 DEF TopicInv, AheadInv
<1> QED
  BY <1>1, <1>2, <1>4, <1>9, <1>10, StreamShows

(* Its tasks, and the requests and observers it serves.                    *)
LEMMA TopicKeeps ==
  ASSUME SourceTypeOK, TopicTypeOK, SourceInv, TopicInv, TopicNext
  PROVE  SourceInv' /\ TopicInv' /\ StreamStep
<1> USE DEF sourceVars, observerVars, runnerVars, requestVars, readVars, loopVars, brokerVars,
           topicVars
<1>0. version \in Nat /\ version <= version /\ Holders \subseteq Loops
  BY TopicFacts
<1>1. ASSUME Refresh \/ TopicStop \/ TopicRequest \/ Buffered \/ HandleRead \/ HandleWrite
             \/ \E o \in Observers : TopicSubscribe(o) \/ Listens(o)
      PROVE  SourceInv' /\ TopicInv' /\ StreamStep
  <2>1. UNCHANGED <<queue, published, inbox, seen, held, stale, loops, found, starts, kind, emitted, since>>
    BY <1>1 DEF Refresh, TopicStop, TopicRequest, Buffered, HandleRead, HandleWrite, TopicSubscribe,
                Listens, Observe
  <2>2. /\ version' \in Nat /\ version <= version' /\ (kind = "event" => version' = version)
        /\ UNCHANGED version \/ (version' = version + 1 /\ UNCHANGED observerVars)
    BY <1>0, <1>1 DEF Refresh, TopicStop, TopicRequest, Buffered, HandleRead, HandleWrite, Store,
                      TopicSubscribe, Listens
  <2>3. SlotInv'
    <3>1. \A w \in 0..MaxVersion : w <= version => w <= version'
      BY <1>0, <2>2, ObservedThingAssumption
    <3> QED
      BY <2>1, <3>1 DEF TopicInv, SlotInv
  <2>4. Holders' = Holders /\ \A g \in Holders : loops'[g].item = loops[g].item
    BY <2>1 DEF Holders
  <2>5. TopicInv'
    BY <2>1, <2>2, <2>3, <2>4, TopicQuiet
  <2>6. SourceInv'
    BY <2>1, <2>2 DEF SourceInv
  <2>7. StreamStep
    <3>1. CASE UNCHANGED <<version, observerVars>>
      BY <2>1, <3>1, StreamStays
    <3>2. CASE version' = version + 1 /\ UNCHANGED observerVars
      BY <2>1, <3>2 DEF StreamStep, Stream!StreamStep, Stream!Change
    <3>3. ASSUME NEW o \in Observers, TopicSubscribe(o) PROVE StreamStep
      BY <2>1, <3>3, StreamObserves DEF TopicSubscribe
    <3> QED
      BY <1>1, <2>2, <3>1, <3>2, <3>3
         DEF Refresh, TopicStop, TopicRequest, Buffered, HandleRead, HandleWrite, Listens
  <2> QED
    BY <2>5, <2>6, <2>7
<1>2. ASSUME TopicStart PROVE SourceInv' /\ TopicInv' /\ StreamStep
  <2>1. /\ UNCHANGED <<queue, published, inbox, seen, held, stale, found>>
        /\ UNCHANGED <<kind, emitted, since, version, status>>
        /\ starts \in Loops /\ starts' = starts - 1 /\ starts \in Nat
        /\ loops' = [loops EXCEPT ![starts] = [at |-> "get"]]
    BY <1>2, TopicObservationAssumption DEF TopicStart, TopicTypeOK, Loops
  <2>2. loops[starts].at = "ended"
    BY <2>1 DEF TopicInv, SlotInv
  <2>3. \A h \in Loops : h # starts => loops'[h] = loops[h]
    BY <2>1 DEF TopicTypeOK
  <2>4. Holders' = Holders /\ \A g \in Holders : loops'[g].item = loops[g].item
    <3> DEFINE l == [at |-> "get"]
    <3>1. l.at = "get" /\ loops' = [loops EXCEPT ![starts] = l]
      BY <2>1
    <3> HIDE DEF l
    <3>2. /\ \A h \in Loops \ {starts} : loops'[h] = loops[h]
          /\ Holders' = IF l.at \in {"publish", "sleep"} THEN Holders \cup {starts} ELSE Holders \ {starts}
      BY <2>1, <3>1, LoopSteps
    <3>3. starts \notin Holders
      BY <2>2 DEF Holders
    <3> QED
      BY <1>0, <3>1, <3>2, <3>3
  <2>5. SlotInv'
    <3>1. \A h \in Loops : h <= starts' => h # starts /\ h <= starts
      BY <2>1, TopicObservationAssumption DEF Loops
    <3> QED
      BY <2>1, <2>3, <3>1 DEF TopicInv, SlotInv
  <2>6. TopicInv'
    BY <1>0, <2>1, <2>4, <2>5, TopicQuiet
  <2> QED
    BY <2>1, <2>6, StreamStays DEF SourceInv
<1>3. ASSUME FindValue PROVE SourceInv' /\ TopicInv' /\ StreamStep
  <2>1. /\ UNCHANGED <<queue, published, inbox, seen, held, stale, loops, starts>>
        /\ UNCHANGED <<kind, emitted, since, version, status>>
        /\ found' = [found EXCEPT ![version] = @ + 1]
    BY <1>3 DEF FindValue
  <2>2. SlotInv'
    <3>1. found \in [0..MaxVersion -> Nat]
      BY DEF TopicTypeOK
    <3>2. ASSUME NEW w \in 0..MaxVersion, found'[w] > 0 PROVE w <= version
      <4>1. CASE w = version
        BY <1>0, <4>1
      <4>2. CASE w # version
        BY <2>1, <3>1, <3>2, <4>2 DEF TopicInv, SlotInv
      <4> QED
        BY <4>1, <4>2
    <3> QED
      BY <2>1, <3>2 DEF TopicInv, SlotInv
  <2>3. Holders' = Holders /\ \A g \in Holders : loops'[g].item = loops[g].item
    BY <2>1 DEF Holders
  <2>4. TopicInv'
    BY <1>0, <2>1, <2>2, <2>3, TopicQuiet
  <2> QED
    BY <2>1, <2>4, StreamStays DEF SourceInv
<1>4. ASSUME NEW v \in 0..MaxVersion, AnswerRead(v) PROVE SourceInv' /\ TopicInv' /\ StreamStep
  <2>1. /\ UNCHANGED <<held, kind, emitted, since, version, status, seen>>
        /\ stale' = IF v < version THEN stale \cup {v} ELSE stale
    BY <1>4 DEF AnswerRead
  <2>2. TopicInv' /\ v <= version
    BY <1>4, <2>1, AnswerKeeps
  <2>3. PICK items \in {{}, {v}} : held' \cup stale' = (held \cup stale) \cup items
    BY <2>1
  <2>4. items \in SUBSET (0..version)
    BY <1>0, <2>2, <2>3, ObservedThingAssumption
  <2>5. StreamStep
    BY <2>1, <2>3, <2>4, StreamHolds
  <2> QED
    BY <2>1, <2>2, <2>5 DEF SourceInv
<1>5. ASSUME NEW g \in Loops, Take(g) \/ LoopEnds(g) PROVE SourceInv' /\ TopicInv' /\ StreamStep
  <2>1. /\ UNCHANGED <<stale, kind, emitted, since, version, status, seen>>
        /\ held' = held \cup UpdatesHeld(Holders) \/ held' = held \cup UpdatesHeld(Holders \cap {g})
    BY <1>5 DEF Take, LoopEnds
  <2>2. TopicInv'
    BY <1>5, <2>1, TakeKeeps, EndKeeps
  <2>3. PICK by \in SUBSET Holders : held' = held \cup UpdatesHeld(by)
    BY <2>1
  <2>4. UpdatesHeld(by) \in SUBSET (0..version)
    <3> SUFFICES ASSUME NEW v \in 0..MaxVersion, NEW h \in by, loops[h].item = Update(v) PROVE v <= version
      BY <1>0, ObservedThingAssumption DEF UpdatesHeld
    <3>1. loops[h].item.version \in Ahead
      BY DEF Ahead
    <3> QED
      BY <3>1 DEF TopicInv, AheadInv, Update
  <2>5. StreamStep
    BY <2>1, <2>3, <2>4, StreamHolds
  <2> QED
    BY <2>1, <2>2, <2>5 DEF SourceInv
<1>6. ASSUME NEW g \in Loops, Publish(g) \/ PublishFails(g) PROVE SourceInv' /\ TopicInv' /\ StreamStep
  <2>1. UNCHANGED <<kind, emitted, since, version, status, seen>>
    BY <1>6 DEF Publish, PublishFails
  <2>2. TopicInv' /\ UNCHANGED <<held, stale>>
    BY <1>6, <2>1, PublishKeeps
  <2> QED
    BY <2>1, <2>2, StreamStays DEF SourceInv
<1>7. ASSUME NEW g \in Loops, TryAgain(g) PROVE SourceInv' /\ TopicInv' /\ StreamStep
  <2>1. /\ UNCHANGED <<queue, published, inbox, seen, held, stale, found, starts>>
        /\ UNCHANGED <<kind, emitted, since, version, status>>
        /\ loops' = [loops EXCEPT ![g].at = "publish"] /\ loops[g].at = "sleep"
    BY <1>7 DEF TryAgain
  <2> DEFINE l == [loops[g] EXCEPT !.at = "publish"]
  <2>2. g \in Holders /\ loops' = [loops EXCEPT ![g] = l]
    BY <2>1 DEF Holders
  <2>a. l = [at |-> "publish", item |-> loops[g].item]
    BY <2>1, ItemTypes, ObservedThingAssumption DEF TopicTypeOK
  <2>b. l.at = "publish" /\ l.item = loops[g].item
    BY <2>a
  <2> HIDE DEF l
  <2>3. /\ loops'[g] = l /\ \A h \in Loops \ {g} : loops'[h] = loops[h]
        /\ Holders' = IF l.at \in {"publish", "sleep"} THEN Holders \cup {g} ELSE Holders \ {g}
    BY <2>2, LoopSteps
  <2>4. Holders' = Holders /\ \A h \in Holders : loops'[h].item = loops[h].item
    BY <1>0, <2>2, <2>b, <2>3
  <2>5. SlotInv'
    <3>1. /\ SlotInv /\ version' \in Nat /\ version <= version' /\ UNCHANGED <<found, starts>>
          /\ loops[g].at # "ended"
      BY <1>0, <2>1 DEF TopicInv
    <3> QED
      BY <1>0, <2>2, <3>1, SlotsKept
  <2>6. TopicInv'
    BY <1>0, <2>1, <2>4, <2>5, TopicQuiet
  <2> QED
    BY <2>1, <2>6, StreamStays DEF SourceInv
<1>8. ASSUME TopicEmission PROVE SourceInv' /\ TopicInv' /\ StreamStep
  <2>1. Emission /\ UNCHANGED <<since, observerVars, held, stale>>
    BY <1>8 DEF TopicEmission
  <2> QED
    BY <1>8, <2>1, StreamEmits, EmissionKeeps
<1>9. ASSUME NEW o \in Observers, TopicRead(o) PROVE SourceInv' /\ TopicInv' /\ StreamStep
  <2>1. UNCHANGED <<kind, emitted, since, version>>
    BY <1>9 DEF TopicRead
  <2> QED
    BY <1>9, <2>1, TopicReadKeeps DEF SourceInv
<1>10. ASSUME NEW o \in Observers, TopicUnsubscribe(o) PROVE SourceInv' /\ TopicInv' /\ StreamStep
  <2>1. /\ UNCHANGED <<queue, published, seen, held, stale, loops, found, starts>>
        /\ UNCHANGED <<kind, emitted, since, version>>
        /\ inbox' = [inbox EXCEPT ![o] = <<>>] /\ Leave(o)
    BY <1>10 DEF TopicUnsubscribe, Leave
  <2>2. /\ \A p \in Observers : inbox'[p] = inbox[p] \/ inbox'[p] = <<>>
        /\ DOMAIN <<>> = {}
    BY <2>1 DEF TopicTypeOK
  <2>3. Holders' = Holders /\ Waiting' = Waiting /\ Settled' = Settled
    BY <2>1 DEF Holders, Waiting, Settled, Holds, Update
  <2>4. Ahead' \subseteq Ahead
    BY <2>1, <2>2, <2>3 DEF Ahead
  <2>5. AheadInv'
    BY <1>0, <2>1, <2>3, <2>4, AheadStays DEF TopicInv
  <2>6. \A p \in Observers : Arrives(inbox[p], seen[p], held \cup stale)'
    BY <2>1, <2>2 DEF TopicInv, Arrives
  <2>7. TopicInv'
    <3>1. InOrder(queue, version, held \cup stale)' /\ SlotInv'
      BY <2>1 DEF TopicInv, SlotInv
    <3>2. UpdateBeforeAck'
      BY <2>1, <2>3 DEF TopicInv, UpdateBeforeAck
    <3>3. AcksFollow(queue, Settled)'
      BY <2>1, <2>3 DEF TopicInv, AcksFollow, Update
    <3> QED
      BY <2>5, <2>6, <3>1, <3>2, <3>3 DEF TopicInv
  <2> QED
    BY <2>1, <2>7, StreamLeaves DEF SourceInv
<1> QED
  BY <1>1, <1>2, <1>3, <1>4, <1>5, <1>6, <1>7, <1>8, <1>9, <1>10
     DEF TopicNext, TopicServerTask, LoopTask, TopicClientTask

-----------------------------------------------------------------------------
(* What holds of all bindings.                                             *)

(* Steps of the thing alone.                                               *)
LEMMA SourceKeeps ==
  ASSUME DataInv, StoreLocally \/ ToggleThing
  PROVE  DataInv' /\ StreamStep
<1>0. /\ SourceTypeOK /\ SourceInv
      /\ UNCHANGED <<binding, kind, emitted, since, observerVars, wsVars, httpVars, coapVars, topicVars>>
      /\ emitted \in Nat /\ version \in Nat /\ version' \in Nat /\ emitted <= version /\ version <= version'
      /\ version' = version \/ (version' = version + 1 /\ kind = "property")
  <2>1. /\ SourceTypeOK /\ SourceInv /\ emitted \in Nat /\ version \in Nat /\ emitted <= version
    BY ObservedThingAssumption DEF DataInv, TypeInv, TypeOK, SourceTypeOK
  <2>2. UNCHANGED <<binding, kind, emitted, since, observerVars, wsVars, httpVars, coapVars, topicVars>>
    BY DEF StoreLocally, ToggleThing, Toggle
  <2>3. version' = version \/ (version' = version + 1 /\ kind = "property")
    BY DEF StoreLocally, ToggleThing, Store, Toggle
  <2> QED
    BY <2>1, <2>2, <2>3
<1>1. TypeInv' /\ SourceInv' /\ NoSubscriptionLeft'
  <2>1. TypeInv'
    BY SourceTypes DEF DataInv
  <2>2. SourceInv'
    BY <1>0 DEF SourceInv
  <2>3. NoSubscriptionLeft'
    BY <1>0 DEF DataInv, NoSubscriptionLeft, wsVars, topicVars, runnerVars
  <2> QED
    BY <2>1, <2>2, <2>3
<1>2. (binding = "ws" => WsInv)' /\ (binding = "http" => HttpInv)'
  BY <1>0 DEF DataInv, WsInv, HttpInv, wsVars, httpVars, observerVars
<1>3. ASSUME binding' = "coap" PROVE CoapInv'
  <2>1. CoapInv /\ CoapTypeOK
    BY <1>0, <1>3 DEF DataInv, TypeInv, TypeOK
  <2>2. Newest \in Nat /\ Newest' \in Nat /\ Newest <= Newest'
    BY <1>0, <2>1, ObservedThingAssumption DEF Newest, CoapTypeOK, coapVars
  <2>3. ASSUME NEW o \in Observers PROVE NotesInv(o)'
    BY <1>0, <2>1, <2>2, NotesHigher DEF coapVars, observerVars
  <2> QED
    BY <1>0, <2>1, <2>3 DEF CoapInv, LastIsOnItsWay, coapVars
<1>4. ASSUME binding' = "topic" PROVE TopicInv'
  <2>1. TopicInv /\ TopicTypeOK
    BY <1>0, <1>4 DEF DataInv, TypeInv, TypeOK
  <2>2. UNCHANGED <<queue, published, inbox, seen, held, stale, loops, found, starts>>
    BY <1>0 DEF topicVars, runnerVars, readVars, loopVars, brokerVars, observerVars
  <2>3. Holders' = Holders /\ \A g \in Holders : loops'[g].item = loops[g].item
    BY <2>2 DEF Holders
  <2>4. SlotInv'
    <3>1. \A w \in 0..MaxVersion : w <= version => w <= version'
      BY <1>0, ObservedThingAssumption
    <3> QED
      BY <2>1, <2>2, <3>1 DEF TopicInv, SlotInv
  <2> QED
    BY <1>0, <2>1, <2>2, <2>3, <2>4, TopicQuiet
<1>5. StreamStep
  BY <1>0
     DEF StreamStep, Stream!StreamStep, Stream!Change, Stream!streamVars, observerVars, topicVars,
         readVars, loopVars
<1> QED
  BY <1>1, <1>2, <1>3, <1>4, <1>5 DEF DataInv

(* No step leaves a subscription without what it is for.                   *)
LEMMA SubscriptionsKept ==
  ASSUME TypeInv, NoSubscriptionLeft, (WsNext /\ WsOnly) \/ (HttpNext /\ HttpOnly) \/ (CoapNext /\ CoapOnly)
                                     \/ (TopicNext /\ TopicOnly)
  PROVE  NoSubscriptionLeft'
<1>1. CASE WsNext /\ WsOnly
  <2> USE DEF NoSubscriptionLeft, WsTypeOK, sourceVars, observerVars, wsVars
  <2>0. WsTypeOK /\ UNCHANGED <<topicSub, running>>
    BY <1>1 DEF TypeInv, TypeOK, WsOnly, topicVars, runnerVars
  <2>1. ASSUME NEW o \in Observers, WsServerTask(o) PROVE NoSubscriptionLeft'
    BY <2>0, <2>1 DEF WsServerTask, WsOnMessage, WsHandle, WsOnClose, Subscribed, CloseLink
  <2>2. ASSUME NEW o \in Observers, WsClientTask(o) PROVE NoSubscriptionLeft'
    <3>1. \A p \in Observers : link'[p] = link[p] \/ link'[p] \in {"open", "closing"}
      BY <2>0, <2>2 DEF WsClientTask, WsConnected, WsConnectFails, WsRead, WsReadNone
    <3>2. wsSubs' = wsSubs
      BY <2>2 DEF WsClientTask, WsConnected, WsConnectFails, WsRead, WsReadNone
    <3> QED
      BY <2>0, <3>1, <3>2
  <2>3. ASSUME NEW o \in Observers, WsOther(o) PROVE NoSubscriptionLeft'
    <3>1. \A p \in Observers : link'[p] = link[p] \/ (link[p] = "open" /\ link'[p] = "closing")
      BY <2>0, <2>3 DEF WsOther, WsSubscribe, WsDispose, WsUnsubscribe, WsLost, CloseLink
    <3>2. wsSubs' \subseteq wsSubs
      BY <2>3 DEF WsOther, WsSubscribe, WsDispose, WsUnsubscribe, WsLost
    <3> QED
      BY <2>0, <3>1, <3>2
  <2>4. ASSUME WsEmission PROVE NoSubscriptionLeft'
    BY <2>0, <2>4 DEF WsEmission
  <2> QED
    BY <1>1, <2>1, <2>2, <2>3, <2>4 DEF WsNext
<1>2. CASE HttpOnly \/ CoapOnly
  BY <1>2 DEF NoSubscriptionLeft, HttpOnly, CoapOnly, wsVars, topicVars, runnerVars
<1>3. CASE TopicNext /\ TopicOnly
  <2> USE DEF NoSubscriptionLeft, sourceVars, observerVars, topicVars, runnerVars
  <2>0. UNCHANGED <<wsSubs, link>>
    BY <1>3 DEF TopicOnly, wsVars
  <2>1. topicSub' => running'
    <3>1. ASSUME TopicStart \/ TopicStop \/ TopicRequest \/ TopicEmission PROVE topicSub' => running'
      BY <3>1 DEF TopicStart, TopicStop, TopicRequest, TopicEmission
    <3>2. ASSUME TopicServerTask PROVE topicSub' => running'
      BY <3>2 DEF TopicServerTask, LoopTask, Refresh, Buffered, HandleRead, HandleWrite, FindValue,
                  AnswerRead, Take, Publish, PublishFails, TryAgain, LoopEnds
    <3>3. ASSUME NEW o \in Observers, TopicClientTask(o) \/ TopicSubscribe(o) \/ TopicUnsubscribe(o)
          PROVE  topicSub' => running'
      BY <3>3 DEF TopicClientTask, Listens, TopicRead, TopicSubscribe, TopicUnsubscribe
    <3> QED
      BY <1>3, <3>1, <3>2, <3>3 DEF TopicNext
  <2> QED
    BY <2>0, <2>1
<1> QED
  BY <1>1, <1>2, <1>3

(* The invariants hold in every state, and every step is one of the stream.*)
LEMMA DataStep == ASSUME DataInv, [Next]_vars PROVE DataInv' /\ StreamStep
<1>1. CASE StoreLocally \/ ToggleThing
  BY <1>1, SourceKeeps
<1>2. CASE WsNext /\ WsOnly
  <2>1. SourceTypeOK /\ WsTypeOK /\ SourceInv /\ WsInv /\ binding = "ws" /\ binding' = "ws"
    BY <1>2 DEF DataInv, TypeInv, TypeOK, WsOnly
  <2>2. TypeInv' /\ NoSubscriptionLeft'
    BY <1>2, <2>1, WsTypes, SubscriptionsKept DEF DataInv, TypeInv, TypeOK
  <2>3. UNCHANGED <<held, stale>>
    BY <1>2 DEF WsOnly, topicVars, readVars, loopVars
  <2> QED
    BY <1>2, <2>1, <2>2, <2>3, WsKeeps DEF DataInv
<1>3. CASE HttpNext /\ HttpOnly
  <2>1. SourceTypeOK /\ HttpTypeOK /\ Polled /\ SourceInv /\ HttpInv /\ binding = "http" /\ binding' = "http"
    BY <1>3 DEF DataInv, TypeInv, TypeOK, HttpOnly
  <2>2. TypeInv' /\ NoSubscriptionLeft'
    BY <1>3, <2>1, HttpTypes, SubscriptionsKept DEF DataInv, TypeInv, TypeOK
  <2>3. UNCHANGED <<held, stale>>
    BY <1>3 DEF HttpOnly, topicVars, readVars, loopVars
  <2> QED
    BY <1>3, <2>1, <2>2, <2>3, HttpKeeps DEF DataInv
<1>4. CASE CoapNext /\ CoapOnly
  <2>1. SourceTypeOK /\ CoapTypeOK /\ SourceInv /\ CoapInv /\ binding = "coap" /\ binding' = "coap"
    BY <1>4 DEF DataInv, TypeInv, TypeOK, CoapOnly
  <2>2. TypeInv' /\ NoSubscriptionLeft'
    BY <1>4, <2>1, CoapTypes, SubscriptionsKept DEF DataInv, TypeInv, TypeOK
  <2>3. UNCHANGED <<held, stale>>
    BY <1>4 DEF CoapOnly, topicVars, readVars, loopVars
  <2> QED
    BY <1>4, <2>1, <2>2, <2>3, CoapKeeps DEF DataInv
<1>5. CASE TopicNext /\ TopicOnly
  <2>1. SourceTypeOK /\ TopicTypeOK /\ SourceInv /\ TopicInv /\ binding = "topic" /\ binding' = "topic"
    BY <1>5 DEF DataInv, TypeInv, TypeOK, TopicOnly
  <2>2. TypeInv' /\ NoSubscriptionLeft'
    BY <1>5, <2>1, TopicTypes, SubscriptionsKept DEF DataInv, TypeInv, TypeOK
  <2> QED
    BY <1>5, <2>1, <2>2, TopicKeeps DEF DataInv
<1>6. CASE UNCHANGED vars
  <2>1. TypeInv'
    BY <1>6
       DEF DataInv, TypeInv, TypeOK, Polled, SourceTypeOK, WsTypeOK, HttpTypeOK, CoapTypeOK,
           TopicTypeOK, vars, sourceVars, observerVars, wsVars, httpVars, coapVars, topicVars,
           runnerVars, requestVars, readVars, loopVars, brokerVars
  <2>2. SourceInv' /\ NoSubscriptionLeft'
    BY <1>6
       DEF DataInv, SourceInv, NoSubscriptionLeft, vars, sourceVars, wsVars, topicVars, runnerVars
  <2>3. (binding = "ws" => WsInv)' /\ (binding = "http" => HttpInv)'
    BY <1>6 DEF DataInv, WsInv, HttpInv, vars, sourceVars, observerVars, wsVars, httpVars
  <2>4. (binding = "coap" => CoapInv)'
    BY <1>6
       DEF DataInv, CoapInv, NotesInv, Newest, LastIsOnItsWay, vars, sourceVars, observerVars, coapVars
  <2>5. ASSUME binding' = "topic" PROVE TopicInv'
    <3>1. SourceTypeOK /\ TopicTypeOK /\ TopicInv
      BY <1>6, <2>5 DEF DataInv, TypeInv, TypeOK, vars
    <3>2. /\ UNCHANGED <<queue, published, inbox, seen, held, stale, loops, found, starts, version>>
          /\ version \in Nat /\ version <= version
      BY <1>6, <3>1, TopicFacts
         DEF vars, sourceVars, observerVars, topicVars, runnerVars, readVars, loopVars, brokerVars
    <3>3. Holders' = Holders /\ \A g \in Holders : loops'[g].item = loops[g].item
      BY <3>2 DEF Holders
    <3>4. SlotInv'
      BY <3>1, <3>2 DEF TopicInv, SlotInv
    <3> QED
      BY <3>1, <3>2, <3>3, <3>4, TopicQuiet
  <2>6. StreamStep
    BY <1>6, StreamStays DEF vars, sourceVars, observerVars, topicVars, readVars, loopVars
  <2> QED
    BY <2>1, <2>2, <2>3, <2>4, <2>5, <2>6 DEF DataInv
<1> QED
  BY <1>1, <1>2, <1>3, <1>4, <1>5, <1>6, NextCases

(* In every state what is on its way is in order, and updates go before    *)
(* acknowledgements.                                                       *)
LEMMA DataInvariance == Spec => []DataInv
  BY DataInit, DataStep, PTL DEF Spec

(* The bindings that are not used are idle.                                *)
IdleInv ==
  /\ binding # "ws" => wsSubs = {}
  /\ binding # "http" => \A o \in Observers, n \in 1..MaxPolls : polls[o][n].at = "none"
  /\ binding # "coap" => coapSubs = {}
  /\ binding # "topic" => Holders = {}

(* In every state the subscriptions belong to observers that are there.    *)
LEMMA IdleInvariance == Spec => []IdleInv
<1>1. Init => IdleInv
  BY DEF Init, WsInit, HttpInit, CoapInit, TopicInit, IdleInv, Holders
<1>2. ASSUME IdleInv, [Next]_vars PROVE IdleInv'
  <2>1. CASE StoreLocally \/ ToggleThing \/ UNCHANGED vars
    BY <1>2, <2>1
       DEF StoreLocally, ToggleThing, vars, IdleInv, wsVars, httpVars, coapVars, topicVars, loopVars,
           Holders
  <2>2. CASE WsOnly \/ HttpOnly \/ CoapOnly \/ TopicOnly
    BY <1>2, <2>2
       DEF WsOnly, HttpOnly, CoapOnly, TopicOnly, IdleInv, wsVars, httpVars, coapVars, topicVars,
           loopVars, Holders
  <2> QED
    BY <1>2, <2>1, <2>2, NextCases
<1> QED
  BY <1>1, <1>2, PTL DEF Spec

(* Whatever the binding, an observer is shown only what happened, while it *)
(* observes, and in its order: over topics but for updates that a loop     *)
(* held while another took one or when it ended, and values that were      *)
(* replaced before their read was done.                                    *)
THEOREM ObservesStreamTheorem == Spec => ObservesStream
<1>1. Init => Stream!StreamInit
  BY DataInit
<1>2. DataInv /\ [Next]_vars => [Stream!StreamStep]_Stream!streamVars
  BY DataStep DEF StreamStep
<1> QED
  BY <1>1, <1>2, DataInvariance, PTL DEF Spec, ObservesStream, Stream!StreamSpec

(* No subscription to the thing outlives its connection or its runner.     *)
THEOREM NoSubscriptionLeftTheorem == Spec => []NoSubscriptionLeft
<1>1. DataInv => NoSubscriptionLeft
  BY DEF DataInv
<1> QED
  BY <1>1, DataInvariance, PTL

(* A poll is answered with the item that follows its subscription.         *)
THEOREM PollGetsNextTheorem == Spec => []PollGetsNext
<1>1. DataInv /\ IdleInv => PollGetsNext
  BY DEF IdleInv, DataInv, HttpInv, PollGetsNext
<1> QED
  BY <1>1, DataInvariance, IdleInvariance, PTL

(* A CoAP observer was sent, or is about to be, what was emitted last.     *)
THEOREM LastIsOnItsWayTheorem == Spec => []LastIsOnItsWay
<1>1. DataInv /\ IdleInv => LastIsOnItsWay
  BY DEF IdleInv, DataInv, CoapInv, LastIsOnItsWay
<1> QED
  BY <1>1, DataInvariance, IdleInvariance, PTL

(* The update of a write is published before its acknowledgement is taken  *)
(* for publication, unless a loop that met with a stop held it.            *)
THEOREM UpdateBeforeAckTheorem == Spec => []UpdateBeforeAck
<1>1. DataInv /\ IdleInv => UpdateBeforeAck
  BY DEF IdleInv, DataInv, TopicInv, UpdateBeforeAck
<1> QED
  BY <1>1, DataInvariance, IdleInvariance, PTL

-----------------------------------------------------------------------------
(* Over WebSockets nothing is skipped.                                     *)

(* What is on its way to an observer whose subscription is intact: nothing *)
(* but items once it knows its id, and before that the id ahead of them;   *)
(* together with what it was shown, all that was emitted.                  *)
Complete(o) ==
  IF o \in knowsId
  THEN /\ \A i \in DOMAIN pipe[o] : pipe[o][i] # Id
       /\ since[o] + views[o] + Len(pipe[o]) = emitted
  ELSE /\ pipe[o] # <<>> /\ \A i \in DOMAIN pipe[o] : pipe[o][i] = Id <=> i = 1
       /\ views[o] = 0 /\ since[o] + Len(pipe[o]) = emitted + 1

Intact(o) == o \in wsSubs /\ ~disturbed /\ status[o] = "on" /\ link[o] = "open"

WsComplete ==
  \A o \in Observers :
    /\ stage[o] \in {"none", "connecting", "sent", "task"} =>
         pipe[o] = <<>> /\ o \notin knowsId /\ views[o] = 0 /\ o \notin wsSubs
    /\ Intact(o) => Complete(o)

(* Counting the items among the messages.                                  *)
LEMMA ItemsCounted ==
  ASSUME NEW o \in Observers, SourceTypeOK, WsTypeOK, Complete(o)
  PROVE  since[o] + views[o] + Cardinality({i \in DOMAIN pipe[o] : pipe[o][i] # Id}) = emitted
<1> DEFINE n == Len(pipe[o])
<1>1. /\ pipe[o] \in Seq(0..MaxVersion) /\ n \in Nat /\ DOMAIN pipe[o] = 1..n
      /\ since[o] \in Nat /\ views[o] \in Nat /\ emitted \in Nat /\ (pipe[o] # <<>> => n >= 1)
  BY ObservedThingAssumption DEF SourceTypeOK, WsTypeOK
<1>2. CASE o \in knowsId
  <2>1. {i \in DOMAIN pipe[o] : pipe[o][i] # Id} = 1..n /\ since[o] + views[o] + n = emitted
    BY <1>1, <1>2 DEF Complete
  <2>2. Cardinality(1..n) = n
    BY <1>1, FS_Interval
  <2> QED
    BY <2>1, <2>2
<1>3. CASE o \notin knowsId
  <2>1. /\ n >= 1 /\ \A i \in DOMAIN pipe[o] : pipe[o][i] = Id <=> i = 1
        /\ views[o] = 0 /\ since[o] + n = emitted + 1
    BY <1>1, <1>3 DEF Complete
  <2>2. {i \in DOMAIN pipe[o] : pipe[o][i] # Id} = 2..n
    BY <1>1, <2>1
  <2> HIDE DEF n
  <2>3. Cardinality(2..n) = IF 2 > n THEN 0 ELSE n - 2 + 1
    <3>1. n \in Int /\ 2 \in Int
      BY <1>1
    <3> QED
      BY <3>1, FS_Interval
  <2>4. Cardinality(2..n) = n - 1
    BY <1>1, <2>1, <2>3
  <2>5. Cardinality({i \in DOMAIN pipe[o] : pipe[o][i] # Id}) = n - 1
    BY <2>2, <2>4
  <2> HIDE DEF Id
  <2> QED
    BY <1>1, <2>1, <2>5
<1> QED
  BY <1>2, <1>3

(* A step that leaves the messages, and does not make a subscription       *)
(* intact that was not, changes nothing about it.                          *)
LEMMA CompleteStays ==
  ASSUME NEW o \in Observers, Complete(o), pipe'[o] = pipe[o], views'[o] = views[o],
         since'[o] = since[o], emitted' = emitted, o \in knowsId' <=> o \in knowsId
  PROVE  Complete(o)'
  BY DEF Complete

(* An item that is emitted goes to the end.                                *)
LEMMA CompleteGrows ==
  ASSUME NEW o \in Observers, SourceTypeOK, WsTypeOK, Complete(o),
         pipe'[o] = Append(pipe[o], emitted'), emitted' = emitted + 1, UNCHANGED <<views, since, knowsId>>
  PROVE  Complete(o)'
<1> DEFINE n == Len(pipe[o])
<1>1. /\ pipe[o] \in Seq(Nat) /\ n \in Nat /\ DOMAIN pipe[o] = 1..n
      /\ since[o] \in Nat /\ views[o] \in Nat /\ emitted \in Nat /\ (pipe[o] # <<>> => n >= 1)
  <2>1. Seq(0..MaxVersion) \subseteq Seq(Nat)
    BY ObservedThingAssumption
  <2> QED
    BY <2>1, ObservedThingAssumption DEF SourceTypeOK, WsTypeOK
<1>2. emitted + 1 # Id
  BY <1>1 DEF Id
<1>3. /\ Len(pipe'[o]) = n + 1 /\ DOMAIN pipe'[o] = 1..(n + 1) /\ pipe'[o] # <<>>
      /\ pipe'[o][n + 1] = emitted + 1
      /\ \A i \in 1..n : pipe'[o][i] = pipe[o][i]
  <2>1. pipe'[o] = Append(pipe[o], emitted + 1) /\ emitted + 1 \in Nat
    BY <1>1
  <2>2. /\ Len(Append(pipe[o], emitted + 1)) = n + 1
        /\ Append(pipe[o], emitted + 1)[n + 1] = emitted + 1
    BY <1>1, <2>1
  <2>3. \A i \in 1..n : Append(pipe[o], emitted + 1)[i] = pipe[o][i]
    BY <1>1, <2>1
  <2>4. DOMAIN Append(pipe[o], emitted + 1) = 1..(n + 1) /\ Append(pipe[o], emitted + 1) # <<>>
    <3>1. Append(pipe[o], emitted + 1) \in Seq(Nat)
      BY <1>1, <2>1
    <3>2. DOMAIN Append(pipe[o], emitted + 1) = 1..Len(Append(pipe[o], emitted + 1))
      BY <3>1
    <3>3. DOMAIN Append(pipe[o], emitted + 1) = 1..(n + 1)
      BY <2>2, <3>2
    <3> HIDE DEF n
    <3>4. n + 1 \in 1..(n + 1)
      BY <1>1
    <3>5. Append(pipe[o], emitted + 1) # <<>>
      BY <3>3, <3>4
    <3> QED
      BY <3>3, <3>5
  <2> QED
    BY <2>1, <2>2, <2>3, <2>4
<1> HIDE DEF n
<1>3a. Len(pipe[o]) = n
  BY DEF n
<1>3b. \A a, b, c, d \in Nat : a + b + c = d => a + b + (c + 1) = d + 1
  OBVIOUS
<1>4. CASE o \in knowsId
  <2>0. \A i \in 1..n : pipe[o][i] # Id
    BY <1>1, <1>4 DEF Complete
  <2>1. \A i \in 1..(n + 1) : pipe'[o][i] # Id
    <3> TAKE i \in 1..(n + 1)
    <3>1. CASE i = n + 1
      BY <1>2, <1>3, <3>1
    <3>2. CASE i \in 1..n
      BY <1>3, <2>0, <3>2
    <3> QED
      BY <1>1, <3>1, <3>2
  <2>a. since[o] + views[o] + n = emitted
    BY <1>3a, <1>4 DEF Complete
  <2>2. since[o] + views[o] + (n + 1) = emitted + 1
    <3>1. since[o] \in Nat /\ views[o] \in Nat /\ n \in Nat /\ emitted \in Nat
      BY <1>1
    <3>2. since[o] + views[o] + (n + 1) = (since[o] + views[o] + n) + 1
      <4>1. \A a, b, c \in Nat : a + b + (c + 1) = (a + b + c) + 1
        OBVIOUS
      <4> QED
        BY <3>1, <4>1
    <3>3. (since[o] + views[o] + n) + 1 = emitted + 1
      BY <2>a
    <3> QED
      BY <3>2, <3>3
  <2> QED
    BY <1>3, <1>4, <2>1, <2>2 DEF Complete
<1>5. CASE o \notin knowsId
  <2>0. n >= 1 /\ \A i \in 1..n : pipe[o][i] = Id <=> i = 1
    BY <1>1, <1>5 DEF Complete
  <2>1. \A i \in 1..(n + 1) : pipe'[o][i] = Id <=> i = 1
    <3> TAKE i \in 1..(n + 1)
    <3>1. CASE i = n + 1
      BY <1>1, <1>2, <1>3, <2>0, <3>1
    <3>2. CASE i \in 1..n
      BY <1>3, <2>0, <3>2
    <3> QED
      BY <1>1, <3>1, <3>2
  <2>a. views[o] = 0 /\ since[o] + n = emitted + 1
    BY <1>3a, <1>5 DEF Complete
  <2>2. views[o] = 0 /\ since[o] + (n + 1) = (emitted + 1) + 1
    BY <1>1, <2>a
  <2> QED
    BY <1>3, <1>5, <2>1, <2>2 DEF Complete
<1> QED
  BY <1>4, <1>5

(* A message that is read is the id, or an item that is shown.             *)
LEMMA CompleteShrinks ==
  ASSUME NEW o \in Observers, SourceTypeOK, WsTypeOK, Complete(o), WsRead(o)
  PROVE  Complete(o)'
<1> DEFINE n == Len(pipe[o])
<1>1. /\ pipe[o] \in Seq(0..MaxVersion) /\ n \in Nat /\ DOMAIN pipe[o] = 1..n
      /\ since[o] \in Nat /\ views[o] \in Nat /\ emitted \in Nat /\ pipe[o] # <<>> /\ n >= 1
  BY ObservedThingAssumption DEF SourceTypeOK, WsTypeOK, WsRead
<1>2. pipe'[o] = Tail(pipe[o]) /\ Head(pipe[o]) = pipe[o][1]
  BY <1>1 DEF WsRead, Given, WsTypeOK
<1>3. /\ Len(pipe'[o]) = n - 1 /\ DOMAIN pipe'[o] = 1..(n - 1)
      /\ \A i \in 1..(n - 1) : pipe'[o][i] = pipe[o][i + 1]
  BY <1>1, <1>2
<1>4. UNCHANGED <<emitted, since>>
  BY DEF WsRead, sourceVars
<1>5. CASE o \in knowsId
  <2>1. Head(pipe[o]) # Id
    BY <1>1, <1>2, <1>5 DEF Complete
  <2>2. views'[o] = views[o] + 1 /\ knowsId' = knowsId
    BY <1>5, <2>1 DEF WsRead, WsTypeOK
  <2>3. \A i \in 1..(n - 1) : pipe'[o][i] # Id
    <3> TAKE i \in 1..(n - 1)
    <3>1. i + 1 \in 1..n
      BY <1>1
    <3> QED
      BY <1>1, <1>3, <1>5, <3>1 DEF Complete
  <2>4. since[o] + views[o] + n = emitted
    BY <1>5 DEF Complete
  <2>5. since[o] + (views[o] + 1) + (n - 1) = emitted
    <3> HIDE DEF n
    <3>1. \A a, b, c, d \in Nat : a + b + c = d => a + (b + 1) + (c - 1) = d
      OBVIOUS
    <3> QED
      BY <1>1, <2>4, <3>1
  <2> QED
    BY <1>3, <1>4, <1>5, <2>2, <2>3, <2>5 DEF Complete
<1>6. CASE o \notin knowsId
  <2>1. Head(pipe[o]) = Id
    BY <1>1, <1>2, <1>6 DEF Complete
  <2>2. views' = views /\ o \in knowsId'
    BY <1>6, <2>1 DEF WsRead
  <2>3. \A i \in 1..(n - 1) : pipe'[o][i] # Id
    <3> TAKE i \in 1..(n - 1)
    <3>1. i + 1 \in 1..n /\ i + 1 # 1
      BY <1>1
    <3> QED
      BY <1>1, <1>3, <1>6, <3>1 DEF Complete
  <2>4. views[o] = 0 /\ since[o] + n = emitted + 1
    BY <1>6 DEF Complete
  <2>5. since[o] + views[o] + (n - 1) = emitted
    BY <1>1, <2>4
  <2> QED
    BY <1>3, <1>4, <2>2, <2>3, <2>5 DEF Complete
<1> QED
  BY <1>5, <1>6

(* Every step over WebSockets keeps the messages complete.                 *)
LEMMA WsCompletes ==
  ASSUME SourceTypeOK, WsTypeOK, SourceInv, WsComplete, WsNext
  PROVE  WsComplete'
<1> DEFINE Early(o) == stage[o] \in {"none", "connecting", "sent", "task"}
           EarlyEmpty(o) == Early(o) => pipe[o] = <<>> /\ o \notin knowsId /\ views[o] = 0 /\ o \notin wsSubs
<1>0. \A o \in Observers : EarlyEmpty(o) /\ (Intact(o) => Complete(o))
  BY DEF WsComplete
<1>1. ASSUME \A o \in Observers : EarlyEmpty(o)' /\ (Intact(o) => Complete(o))' PROVE WsComplete'
  BY <1>1 DEF WsComplete
<1> HIDE DEF Early
<1>2. ASSUME NEW o \in Observers, WsOnMessage(o) \/ WsSubscribe(o) \/ WsConnected(o) \/ WsConnectFails(o)
                                  \/ WsReadNone(o) \/ WsDispose(o) \/ WsUnsubscribe(o) \/ WsOnClose(o)
      PROVE  WsComplete'
  <2>1. /\ UNCHANGED <<sourceVars, since, pipe, knowsId, views, disturbed>>
        /\ wsSubs' \subseteq wsSubs
    BY <1>2 DEF WsOnMessage, WsSubscribe, WsConnected, WsConnectFails, WsReadNone, WsDispose,
                WsUnsubscribe, WsOnClose, wsVars
  <2>2. \A p \in Observers : Early(p)' => Early(p)
    BY <1>2 DEF WsOnMessage, WsSubscribe, WsConnected, WsConnectFails, WsReadNone, WsDispose,
                WsUnsubscribe, WsOnClose, wsVars, Advance, Early, WsTypeOK
  <2>3. \A p \in Observers : Intact(p)' => Intact(p) \/ Early(p)
    BY <1>2 DEF WsOnMessage, WsSubscribe, WsConnected, WsConnectFails, WsReadNone, WsDispose,
                WsUnsubscribe, WsOnClose, wsVars, Advance, Early, Intact, WsTypeOK, SourceTypeOK,
                Observe, Leave, CloseLink, observerVars
  <2> SUFFICES ASSUME NEW p \in Observers PROVE EarlyEmpty(p)' /\ (Intact(p) => Complete(p))'
    BY <1>1
  <2>4. EarlyEmpty(p)'
    BY <1>0, <2>1, <2>2
  <2>5. Intact(p)' => Complete(p)'
    <3> SUFFICES ASSUME Intact(p)' PROVE Complete(p)'
      OBVIOUS
    <3>1. Complete(p)
      BY <1>0, <2>1, <2>3 DEF Intact
    <3> QED
      BY <2>1, <3>1, CompleteStays DEF sourceVars
  <2> QED
    BY <2>4, <2>5
<1>3. ASSUME NEW o \in Observers, WsHandle(o) PROVE WsComplete'
  <2>1. /\ Early(o) /\ ~Early(o)' /\ stage' = [stage EXCEPT ![o] = "answered"]
        /\ pipe' = [pipe EXCEPT ![o] = IF link[o] = "open" THEN Append(@, Id) ELSE @]
        /\ since' = [since EXCEPT ![o] = emitted]
        /\ UNCHANGED <<sourceVars, observerVars, knowsId, views, disturbed>>
    BY <1>3 DEF WsHandle, Advance, Early, WsTypeOK
  <2>2. /\ wsSubs' \in {wsSubs, wsSubs \cup {o}} /\ \A p \in Observers : link'[p] = "open" => link[p] = "open"
        /\ \A p \in Observers : p # o => link'[p] = link[p]
    BY <1>3 DEF WsHandle, Subscribed, CloseLink, WsTypeOK
  <2> SUFFICES ASSUME NEW p \in Observers PROVE EarlyEmpty(p)' /\ (Intact(p) => Complete(p))'
    BY <1>1
  <2>3. CASE p = o
    <3> SUFFICES ASSUME Intact(o)' PROVE Complete(o)'
      BY <2>1, <2>3
    <3>1. link[o] = "open" /\ pipe[o] = <<>> /\ o \notin knowsId /\ views[o] = 0
      BY <1>0, <2>1, <2>2 DEF Intact
    <3>2. pipe'[o] = <<Id>>
      BY <2>1, <3>1 DEF WsTypeOK
    <3>3. since'[o] = emitted /\ emitted' = emitted /\ emitted \in Nat
      BY <2>1 DEF SourceTypeOK, sourceVars
    <3>4. since'[o] + Len(<<Id>>) = emitted' + 1
      BY <3>3
    <3>5. <<Id>> # <<>> /\ \A i \in DOMAIN <<Id>> : <<Id>>[i] = Id <=> i = 1
      OBVIOUS
    <3> QED
      BY <2>1, <3>1, <3>2, <3>4, <3>5 DEF Complete
  <2>4. CASE p # o
    <3>1. /\ pipe'[p] = pipe[p] /\ since'[p] = since[p] /\ (p \in wsSubs' <=> p \in wsSubs)
          /\ (Early(p)' <=> Early(p))
      BY <2>1, <2>2, <2>4 DEF WsTypeOK, SourceTypeOK, Early
    <3>2. EarlyEmpty(p)'
      BY <1>0, <2>1, <3>1
    <3>3. Intact(p)' => Intact(p)
      BY <2>1, <2>2, <2>4, <3>1 DEF Intact, observerVars
    <3> QED
      BY <1>0, <2>1, <3>1, <3>2, <3>3, CompleteStays DEF sourceVars
  <2> QED
    BY <2>3, <2>4
<1>4. ASSUME NEW o \in Observers, WsRead(o) PROVE WsComplete'
  <2>1. /\ UNCHANGED <<sourceVars, since, stage, link, wsSubs, disturbed, status>>
        /\ pipe' = [pipe EXCEPT ![o] = Tail(@)] /\ pipe[o] # <<>>
        /\ \A p \in Observers : p # o => views'[p] = views[p] /\ (p \in knowsId' <=> p \in knowsId)
    BY <1>4 DEF WsRead, Given, Show, observerVars, WsTypeOK
  <2> SUFFICES ASSUME NEW p \in Observers PROVE EarlyEmpty(p)' /\ (Intact(p) => Complete(p))'
    BY <1>1
  <2>2. Intact(p)' <=> Intact(p)
    BY <2>1 DEF Intact
  <2>3. Early(p)' <=> Early(p)
    BY <2>1 DEF Early
  <2>4. CASE p = o
    <3>1. ~Early(o)
      BY <1>0, <2>1
    <3> QED
      BY <1>0, <1>4, <2>2, <2>3, <2>4, <3>1, CompleteShrinks
  <2>5. CASE p # o
    <3>1. pipe'[p] = pipe[p]
      BY <2>1, <2>5 DEF WsTypeOK
    <3> QED
      BY <1>0, <2>1, <2>2, <2>3, <2>5, <3>1, CompleteStays DEF sourceVars
  <2> QED
    BY <2>4, <2>5
<1>5. ASSUME NEW o \in Observers, WsLost(o) PROVE WsComplete'
  <2>1. /\ UNCHANGED <<sourceVars, since, stage, wsSubs, disturbed, status, knowsId, views>>
        /\ pipe' = [pipe EXCEPT ![o] = <<>>] /\ link'[o] # "open"
        /\ \A p \in Observers : p # o => link'[p] = link[p]
    BY <1>5 DEF WsLost, CloseLink, observerVars, WsTypeOK
  <2> SUFFICES ASSUME NEW p \in Observers PROVE EarlyEmpty(p)' /\ (Intact(p) => Complete(p))'
    BY <1>1
  <2>2. Early(p)' <=> Early(p)
    BY <2>1 DEF Early
  <2>3. CASE p = o
    BY <1>0, <2>1, <2>2, <2>3 DEF Intact, WsTypeOK
  <2>4. CASE p # o
    <3>1. pipe'[p] = pipe[p] /\ (Intact(p)' <=> Intact(p))
      BY <2>1, <2>4 DEF WsTypeOK, Intact
    <3> QED
      BY <1>0, <2>1, <2>2, <3>1, CompleteStays DEF sourceVars
  <2> QED
    BY <2>3, <2>4
<1>6. ASSUME WsEmission PROVE WsComplete'
  <2> DEFINE open == {o \in wsSubs : link[o] = "open"}
  <2>1. PICK reached \in SUBSET open :
          /\ IF open = wsSubs THEN reached = open /\ UNCHANGED wsSubs
             ELSE \E o \in wsSubs \ open : wsSubs' = wsSubs \ {o}
          /\ disturbed' = (disturbed \/ reached # open)
          /\ pipe' = [o \in Observers |-> IF o \in reached THEN Append(pipe[o], emitted')
                                          ELSE pipe[o]]
    BY <1>6 DEF WsEmission
  <2>2. UNCHANGED <<since, observerVars, stage, link, knowsId, views>> /\ Emission
    BY <1>6 DEF WsEmission
  <2>3. emitted' = emitted + 1
    BY <2>2, ObservedThingAssumption DEF Emission, SourceTypeOK, SourceInv
  <2>4. wsSubs' \subseteq wsSubs
    BY <2>1
  <2> HIDE DEF open
  <2> SUFFICES ASSUME NEW p \in Observers PROVE EarlyEmpty(p)' /\ (Intact(p) => Complete(p))'
    BY <1>1
  <2>5. Early(p)' <=> Early(p)
    BY <2>2 DEF Early
  <2>6. EarlyEmpty(p)'
    <3>1. p \in reached => p \in wsSubs
      BY <2>1 DEF open
    <3> QED
      BY <1>0, <2>1, <2>2, <2>4, <2>5, <3>1
  <2>7. ASSUME Intact(p)' PROVE Complete(p)'
    <3>1. p \in wsSubs /\ link[p] = "open" /\ ~disturbed /\ reached = open /\ status[p] = "on"
      BY <2>1, <2>2, <2>4, <2>7, Zenon DEF Intact, observerVars
    <3>2. Complete(p) /\ p \in reached
      BY <1>0, <3>1 DEF Intact, open
    <3>3. pipe'[p] = Append(pipe[p], emitted')
      BY <2>1, <3>2
    <3> QED
      BY <2>2, <2>3, <3>2, <3>3, CompleteGrows
  <2> QED
    BY <2>6, <2>7
<1> QED
  BY <1>2, <1>3, <1>4, <1>5, <1>6 DEF WsNext, WsServerTask, WsClientTask, WsOther

(* Over WebSockets an observer is shown, or about to be sent, every item   *)
(* emitted since it subscribed, as long as nobody else's closing           *)
(* connection cuts an emission short (DefaultThing.emit_event,             *)
(* WebsocketHandler._handle_on_event).                                     *)
THEOREM WsSkipsNothingTheorem == Spec => []WsSkipsNothing
<1> DEFINE Inv == binding = "ws" => WsComplete
<1>1. Init => Inv
  BY DEF Init, WsInit, WsComplete, Intact
<1>2. DataInv /\ Inv /\ [Next]_vars => Inv'
  <2> SUFFICES ASSUME DataInv, Inv, [Next]_vars, binding' = "ws" PROVE WsComplete'
    OBVIOUS
  <2>1. CASE StoreLocally \/ ToggleThing \/ UNCHANGED vars
    BY <2>1 DEF StoreLocally, ToggleThing, Store, Toggle, vars, wsVars, observerVars, sourceVars,
                WsComplete, Intact, Complete
  <2>2. CASE WsNext /\ WsOnly
    <3>1. SourceTypeOK /\ WsTypeOK /\ SourceInv /\ WsComplete
      BY <2>2 DEF DataInv, TypeInv, TypeOK, WsOnly
    <3> QED
      BY <2>2, <3>1, WsCompletes
  <2>3. CASE HttpOnly \/ CoapOnly \/ TopicOnly
    BY <2>3 DEF HttpOnly, CoapOnly, TopicOnly
  <2> QED
    BY <2>1, <2>2, <2>3, NextCases
<1>3. DataInv /\ IdleInv /\ Inv => WsSkipsNothing
  <2> SUFFICES ASSUME DataInv, IdleInv, Inv, NEW o \in wsSubs,
                      ~disturbed, status[o] = "on", link[o] = "open"
               PROVE  since[o] + views[o] + Cardinality({i \in DOMAIN pipe[o] : pipe[o][i] # Id}) = emitted
    BY DEF WsSkipsNothing
  <2>1. binding = "ws" /\ WsComplete
    BY DEF IdleInv
  <2>2. SourceTypeOK /\ WsTypeOK /\ o \in Observers
    BY <2>1 DEF DataInv, TypeInv, TypeOK, WsTypeOK
  <2>3. Complete(o)
    BY <2>1, <2>2 DEF WsComplete, Intact
  <2> QED
    BY <2>2, <2>3, ItemsCounted
<1> QED
  BY <1>1, <1>2, <1>3, DataInvariance, IdleInvariance, PTL DEF Spec

-----------------------------------------------------------------------------
(* Over MQTT and Zenoh an update goes from hand to hand.                   *)

(* An update that was emitted while an observer listens is in the queue,   *)
(* with a loop that is to publish it, or on its way to the observer.       *)
OnItsWay(o, v) ==
  \/ o \in listening /\ (Holds(Update(v)) \/ \E i \in DOMAIN queue : queue[i] = Update(v))
  \/ \E i \in DOMAIN inbox[o] : inbox[o][i] = v

(* No step loses an update an observer is owed, but that by which a loop   *)
(* that holds it ends with the runner that was stopped, until the observer *)
(* is shown it or leaves: a failed publication, another start, a refresh   *)
(* and a thing that is removed keep it (mqtt/runner.py and zenoh/runner.py,*)
(* _publish_queued_messages).                                              *)
OwedStays ==
  binding = "topic" =>
    \A o \in Observers : \A v \in 1..MaxVersion :
      OnItsWay(o, v) /\ status'[o] # "left" =>
        \/ OnItsWay(o, v)' \/ seen'[o] = v
        \/ ~running /\ \E g \in Holders : loops[g].item = Update(v) /\ LoopEnds(g)

(* An element of a sequence is its head or in its tail, and stays when the *)
(* sequence is extended.                                                   *)
LEMMA ElementStays ==
  ASSUME NEW S, NEW s \in Seq(S), NEW i \in DOMAIN s
  PROVE  /\ s # <<>> /\ (s[i] = Head(s) \/ \E j \in DOMAIN Tail(s) : Tail(s)[j] = s[i])
         /\ \A t \in Seq(S) : \E j \in DOMAIN (s \o t) : (s \o t)[j] = s[i]
         /\ \A m \in S : \E j \in DOMAIN Append(s, m) : Append(s, m)[j] = s[i]
<1>1. i \in 1..Len(s) /\ Len(s) \in Nat /\ s # <<>>
  OBVIOUS
<1>2. s[i] = Head(s) \/ \E j \in DOMAIN Tail(s) : Tail(s)[j] = s[i]
  <2>1. CASE i = 1
    BY <1>1, <2>1
  <2>2. CASE i # 1
    <3>1. i - 1 \in 1..Len(Tail(s)) /\ Tail(s)[i - 1] = s[i]
      BY <1>1, <2>2
    <3> QED
      BY <3>1
  <2> QED
    BY <2>1, <2>2
<1>3. ASSUME NEW t \in Seq(S) PROVE \E j \in DOMAIN (s \o t) : (s \o t)[j] = s[i]
  <2>1. i \in DOMAIN (s \o t) /\ (s \o t)[i] = s[i]
    BY <1>1
  <2> QED
    BY <2>1
<1>4. ASSUME NEW m \in S PROVE \E j \in DOMAIN Append(s, m) : Append(s, m)[j] = s[i]
  <2>1. i \in DOMAIN Append(s, m) /\ Append(s, m)[i] = s[i]
    BY <1>1
  <2> QED
    BY <2>1
<1> QED
  BY <1>1, <1>2, <1>3, <1>4

(* What extending a sequence keeps of its type.                            *)
LEMMA AppendType ==
  ASSUME NEW S, NEW s \in Seq(S), NEW m \in S
  PROVE  <<m>> \in Seq(S) /\ Append(s, m) = s \o <<m>>
  OBVIOUS

(* Concatenation is associative.                                           *)
LEMMA ConcatType ==
  ASSUME NEW S, NEW s \in Seq(S), NEW t \in Seq(S), NEW u \in Seq(S)
  PROVE  t \o u \in Seq(S) /\ (s \o t) \o u = s \o (t \o u)
  OBVIOUS

(* A queue that is only extended, while the loops hold what they held and  *)
(* the observers stay as they are, keeps what is owed.                     *)
LEMMA ExtendedKeeps ==
  ASSUME NEW o \in Observers, NEW v \in 1..MaxVersion, TopicTypeOK, OnItsWay(o, v),
         o \in listening => o \in listening', inbox'[o] = inbox[o], Holds(Update(v)) => Holds(Update(v))',
         NEW t \in Seq(QueueItem), queue' = queue \o t
  PROVE  OnItsWay(o, v)'
<1>1. CASE o \in listening /\ \E i \in DOMAIN queue : queue[i] = Update(v)
  <2>1. PICK i \in DOMAIN queue : queue[i] = Update(v)
    BY <1>1
  <2>2. queue \in Seq(QueueItem)
    BY DEF TopicTypeOK
  <2>3. \E j \in DOMAIN (queue \o t) : (queue \o t)[j] = Update(v)
    BY <2>1, <2>2, ElementStays
  <2> QED
    BY <1>1, <2>3 DEF OnItsWay, Update
<1>2. CASE o \in listening /\ Holds(Update(v))
  BY <1>2 DEF OnItsWay, Update
<1>3. CASE \E i \in DOMAIN inbox[o] : inbox[o][i] = v
  BY <1>3 DEF OnItsWay
<1> QED
  BY <1>1, <1>2, <1>3 DEF OnItsWay

(* What a loop holds stays in its hands while it does not get rid of it.   *)
LEMMA HeldStays ==
  ASSUME TopicTypeOK, NEW g \in Loops, NEW l, loops' = [loops EXCEPT ![g] = l], NEW h \in Holders,
         h = g => l.at \in {"publish", "sleep"} /\ l.item = loops[h].item
  PROVE  h \in Holders' /\ loops'[h].item = loops[h].item
<1>1. /\ loops'[g] = l /\ \A k \in Loops \ {g} : loops'[k] = loops[k]
      /\ Holders' = IF l.at \in {"publish", "sleep"} THEN Holders \cup {g} ELSE Holders \ {g}
  BY LoopSteps
<1>2. h \in Loops
  BY DEF Holders
<1> QED
  BY <1>1, <1>2

(* What is published reaches those that listen, and what was on its way to *)
(* them stays so.                                                          *)
LEMMA SentArrives ==
  ASSUME TopicTypeOK, NEW o \in Observers, NEW v \in 1..MaxVersion, NEW m \in QueueItem,
         Sent(m) \/ UNCHANGED inbox
  PROVE  /\ (\E i \in DOMAIN inbox[o] : inbox[o][i] = v) => \E i \in DOMAIN inbox'[o] : inbox'[o][i] = v
         /\ Sent(m) /\ o \in listening /\ m = Update(v) => \E i \in DOMAIN inbox'[o] : inbox'[o][i] = v
<1>1. inbox[o] \in Seq(Nat) /\ m.version \in Nat
  <2>1. Seq(0..MaxVersion) \subseteq Seq(Nat)
    BY ObservedThingAssumption
  <2> QED
    BY <2>1, ItemTypes, ObservedThingAssumption DEF TopicTypeOK
<1>2. \/ inbox'[o] = inbox[o]
      \/ inbox'[o] = Append(inbox[o], m.version)
  BY DEF Sent, TopicTypeOK
<1>3. ASSUME NEW i \in DOMAIN inbox[o], inbox[o][i] = v PROVE \E j \in DOMAIN inbox'[o] : inbox'[o][j] = v
  <2>1. i \in DOMAIN Append(inbox[o], m.version) /\ Append(inbox[o], m.version)[i] = v
    BY <1>1, <1>3
  <2> QED
    BY <1>2, <1>3, <2>1
<1>4. ASSUME Sent(m), o \in listening, m = Update(v) PROVE \E i \in DOMAIN inbox'[o] : inbox'[o][i] = v
  <2>1. inbox'[o] = Append(inbox[o], v)
    BY <1>4 DEF Sent, Update, TopicTypeOK
  <2>2. Len(inbox[o]) + 1 \in DOMAIN Append(inbox[o], v) /\ Append(inbox[o], v)[Len(inbox[o]) + 1] = v
    BY <1>1
  <2> QED
    BY <2>1, <2>2
<1> QED
  BY <1>3, <1>4

(* Steps of the loops.                                                     *)
LEMMA LoopOwes ==
  ASSUME SourceTypeOK, TopicTypeOK, NEW g \in Loops, LoopTask(g) \/ PublishFails(g),
         NEW o \in Observers, NEW v \in 1..MaxVersion, OnItsWay(o, v),
         ~(LoopEnds(g) /\ g \in Holders /\ loops[g].item = Update(v))
  PROVE  OnItsWay(o, v)'
<1>0. UNCHANGED listening
  BY DEF LoopTask, Take, Publish, PublishFails, TryAgain, LoopEnds, brokerVars
<1>1. CASE \E i \in DOMAIN inbox[o] : inbox[o][i] = v
  <2>1. CASE Publish(g) \/ PublishFails(g)
    <3>1. loops[g].item \in QueueItem
      BY <2>1, ItemTypes, ObservedThingAssumption DEF Publish, PublishFails, TopicTypeOK
    <3>2. Sent(loops[g].item) \/ UNCHANGED inbox
      BY <2>1 DEF Publish, PublishFails
    <3> QED
      BY <1>1, <3>1, <3>2, SentArrives DEF OnItsWay
  <2>2. CASE UNCHANGED inbox
    BY <1>1, <2>2 DEF OnItsWay
  <2> QED
    BY <2>1, <2>2 DEF LoopTask, Take, TryAgain, LoopEnds, brokerVars
<1>2. ASSUME NEW h \in Holders, loops[h].item = Update(v), o \in listening PROVE OnItsWay(o, v)'
  <2>0. h \in Loops /\ loops[h].at \in {"publish", "sleep"} 
    BY DEF Holders
  <2> SUFFICES \/ \E k \in Holders' : loops'[k].item = Update(v)
               \/ \E i \in DOMAIN inbox'[o] : inbox'[o][i] = v
    BY <1>0, <1>2, <2>0 DEF OnItsWay, Holds
  <2>1. CASE Take(g)
    <3>1. PICK l : loops' = [loops EXCEPT ![g] = l]
      BY <2>1 DEF Take
    <3>2. h # g
      BY <2>0, <2>1 DEF Take
    <3>3. h \in Holders' /\ loops'[h].item = loops[h].item
      BY <1>2, <3>1, <3>2, HeldStays
    <3> QED
      BY <1>2, <3>3
  <2>2. CASE Publish(g)
    <3>1. PICK l : loops' = [loops EXCEPT ![g] = l]
      BY <2>2 DEF Publish
    <3>2. CASE h = g
      <4>1. Sent(loops[g].item) /\ loops[g].item = Update(v) /\ loops[g].item \in QueueItem
        BY <1>2, <2>2, <3>2, ItemTypes, ObservedThingAssumption DEF Publish, TopicTypeOK
      <4> QED
        BY <1>2, <4>1, SentArrives
    <3>3. CASE h # g
      <4>1. h \in Holders' /\ loops'[h].item = loops[h].item
        BY <3>1, <3>3, HeldStays
      <4> QED
        BY <1>2, <4>1
    <3> QED
      BY <3>2, <3>3
  <2>3. CASE PublishFails(g)
    <3> DEFINE l == Kept(loops[g].item)
    <3>1. loops' = [loops EXCEPT ![g] = l] /\ l.at = "sleep" /\ l.item = loops[g].item
      BY <2>3 DEF PublishFails, Kept
    <3> HIDE DEF l
    <3>2. h = g => l.at \in {"publish", "sleep"} /\ l.item = loops[h].item
      BY <3>1
    <3>3. h \in Holders' /\ loops'[h].item = loops[h].item
      BY <3>1, <3>2, HeldStays
    <3> QED
      BY <1>2, <3>3
  <2>4. CASE TryAgain(g)
    <3> DEFINE l == [loops[g] EXCEPT !.at = "publish"]
    <3>1. loops' = [loops EXCEPT ![g] = l]
      BY <2>4 DEF TryAgain
    <3>2. l = [at |-> "publish", item |-> loops[g].item]
      BY <2>4, ItemTypes, ObservedThingAssumption DEF TryAgain, TopicTypeOK
    <3>3. l.at = "publish" /\ l.item = loops[g].item
      BY <3>2
    <3> HIDE DEF l
    <3>4. h = g => l.at \in {"publish", "sleep"} /\ l.item = loops[h].item
      BY <3>3
    <3>5. h \in Holders' /\ loops'[h].item = loops[h].item
      BY <3>1, <3>4, HeldStays
    <3> QED
      BY <1>2, <3>5
  <2>5. CASE LoopEnds(g)
    <3>1. PICK l : loops' = [loops EXCEPT ![g] = l]
      BY <2>5 DEF LoopEnds
    <3>2. h # g
      BY <1>2, <2>5
    <3>3. h \in Holders' /\ loops'[h].item = loops[h].item
      BY <1>2, <3>1, <3>2, HeldStays
    <3> QED
      BY <1>2, <3>3
  <2> QED
    BY <2>1, <2>2, <2>3, <2>4, <2>5 DEF LoopTask
<1>3. ASSUME NEW i \in DOMAIN queue, queue[i] = Update(v), o \in listening PROVE OnItsWay(o, v)'
  <2>0. queue \in Seq(QueueItem) 
    BY DEF TopicTypeOK
  <2>1. CASE queue' = queue
    BY <1>0, <1>3, <2>1 DEF OnItsWay, Update
  <2>2. CASE Take(g)
    <3>1. queue' = Tail(queue) /\ loops'[g].at = "publish" /\ loops'[g].item = Head(queue)
      BY <2>2 DEF Take, TopicTypeOK
    <3>2. Update(v) = Head(queue) \/ \E j \in DOMAIN Tail(queue) : Tail(queue)[j] = Update(v)
      BY <1>3, <2>0, ElementStays
    <3>3. CASE Update(v) = Head(queue)
      BY <1>0, <1>3, <2>0, <3>1, <3>3 DEF OnItsWay, Holds, Holders, Update
    <3>4. CASE \E j \in DOMAIN Tail(queue) : Tail(queue)[j] = Update(v)
      BY <1>0, <1>3, <2>0, <3>1, <3>4 DEF OnItsWay, Update
    <3> QED
      BY <3>2, <3>3, <3>4
  <2> QED
    BY <2>1, <2>2 DEF LoopTask, Publish, PublishFails, TryAgain, LoopEnds
<1> QED
  BY <1>1, <1>2, <1>3 DEF OnItsWay, Holds

(* Steps of the topic bindings.                                            *)
LEMMA OwedKept ==
  ASSUME SourceTypeOK, TopicTypeOK, TopicInv, TopicNext,
         NEW o \in Observers, NEW v \in 1..MaxVersion, OnItsWay(o, v), status'[o] # "left"
  PROVE  \/ OnItsWay(o, v)' \/ seen'[o] = v
         \/ \E g \in Holders : loops[g].item = Update(v) /\ LoopEnds(g)
<1> USE DEF sourceVars, observerVars, runnerVars, requestVars, readVars, loopVars, brokerVars,
           topicVars
<1>0. /\ queue \in Seq(QueueItem) /\ <<>> \in Seq(QueueItem) /\ queue = queue \o <<>>
      /\ inbox[o] \in Seq(0..MaxVersion) /\ v \in 0..MaxVersion /\ v \in Nat /\ seen[o] \in Nat
      /\ \A w \in 0..MaxVersion : Update(w) \in QueueItem /\ Ack(w) \in QueueItem
  <2>1. /\ queue \in Seq(QueueItem) /\ inbox[o] \in Seq(0..MaxVersion)
        /\ v \in 0..MaxVersion /\ v \in Nat /\ seen[o] \in Nat
    BY ObservedThingAssumption DEF SourceTypeOK, TopicTypeOK
  <2>2. \A w \in 0..MaxVersion : Update(w) \in QueueItem /\ Ack(w) \in QueueItem
    BY ItemTypes, ObservedThingAssumption DEF TopicTypeOK
  <2>3. \A q \in Seq(QueueItem) : <<>> \in Seq(QueueItem) /\ q = q \o <<>>
    OBVIOUS
  <2> QED
    BY <2>1, <2>2, <2>3
<1>1. CASE UNCHANGED <<queue, inbox, loops>> /\ (o \in listening => o \in listening')
  <2>1. Holds(Update(v)) => Holds(Update(v))'
    BY <1>1 DEF Holds, Holders, Update
  <2> QED
    BY <1>0, <1>1, <2>1, ExtendedKeeps
<1>2. CASE Refresh \/ TopicStop \/ TopicRequest \/ Buffered \/ HandleRead \/ FindValue \/ HandleWrite
  BY <1>1, <1>2 DEF Refresh, TopicStop, TopicRequest, Buffered, HandleRead, FindValue, HandleWrite
<1>3. CASE TopicStart
  <2>1. Holds(Update(v)) => Holds(Update(v))'
    <3> SUFFICES ASSUME NEW h \in Holders, loops[h].item = Update(v)
                 PROVE  \E k \in Holders' : loops'[k].item = Update(v)
      BY DEF Holds, Update
    <3>1. starts \in Loops /\ loops' = [loops EXCEPT ![starts] = [at |-> "get"]] /\ loops[starts].at = "ended"
      BY <1>3, TopicObservationAssumption DEF TopicStart, TopicTypeOK, Loops, TopicInv, SlotInv
    <3>2. h # starts
      BY <3>1 DEF Holders
    <3> DEFINE l == [at |-> "get"]
    <3> HIDE DEF l
    <3>3. loops' = [loops EXCEPT ![starts] = l]
      BY <3>1 DEF l
    <3>4. h \in Holders' /\ loops'[h].item = loops[h].item
      BY <3>1, <3>2, <3>3, HeldStays
    <3> QED
      BY <3>4
  <2>2. UNCHANGED <<queue, inbox, listening>>
    BY <1>3 DEF TopicStart
  <2> QED
    BY <1>0, <2>1, <2>2, ExtendedKeeps
<1>4. ASSUME NEW w \in 0..MaxVersion, AnswerRead(w) PROVE OnItsWay(o, v)'
  <2>1. UNCHANGED <<listening, inbox, loops>> /\ queue' = Append(queue, Update(w))
    BY <1>4 DEF AnswerRead
  <2>2. <<Update(w)>> \in Seq(QueueItem) /\ Append(queue, Update(w)) = queue \o <<Update(w)>>
    BY <1>0, AppendType
  <2>3. Holds(Update(v)) => Holds(Update(v))'
    BY <2>1 DEF Holds, Holders, Update
  <2> QED
    BY <1>0, <2>1, <2>2, <2>3, ExtendedKeeps
<1>5. CASE TopicEmission
  <2>1. emitted' \in 0..MaxVersion
    BY <1>5, EmissionTypes DEF TopicEmission, SourceTypeOK
  <2>2. PICK u \in {<<>>, <<Update(emitted')>>}, a \in {<<>>, <<Ack(emitted')>>} : queue' = queue \o u \o a
    BY <1>5 DEF TopicEmission, Queued
  <2>3. <<Update(emitted')>> \in Seq(QueueItem) /\ <<Ack(emitted')>> \in Seq(QueueItem)
    BY <1>0, <2>1
  <2>4. u \in Seq(QueueItem) /\ a \in Seq(QueueItem)
    BY <1>0, <2>3
  <2>5. u \o a \in Seq(QueueItem) /\ queue' = queue \o (u \o a)
    <3> HIDE DEF sourceVars, observerVars, runnerVars, requestVars, readVars, loopVars, brokerVars, topicVars
    <3>1. queue \in Seq(QueueItem)
      BY <1>0
    <3>2. u \o a \in Seq(QueueItem) /\ (queue \o u) \o a = queue \o (u \o a)
      BY <2>4, <3>1, ConcatType
    <3> QED
      BY <2>2, <3>2
  <2>6. UNCHANGED <<listening, inbox, loops>>
    BY <1>5 DEF TopicEmission
  <2>7. Holds(Update(v)) => Holds(Update(v))'
    BY <2>6 DEF Holds, Holders, Update
  <2> QED
    BY <2>5, <2>6, <2>7, ExtendedKeeps
<1>6. CASE \E g \in Loops : LoopTask(g) \/ PublishFails(g)
  BY <1>6, LoopOwes
<1>7. CASE \E p \in Observers : TopicSubscribe(p) \/ Listens(p)
  <2>1. UNCHANGED <<queue, inbox, loops>> /\ (o \in listening => o \in listening')
    BY <1>7 DEF TopicSubscribe, Observe, Listens
  <2> QED
    BY <1>1, <2>1
<1>8. ASSUME NEW p \in Observers, TopicUnsubscribe(p) PROVE OnItsWay(o, v)'
  <2>1. p # o
    BY <1>8 DEF TopicUnsubscribe, Leave, SourceTypeOK
  <2>2. UNCHANGED <<queue, loops>> /\ inbox'[o] = inbox[o] /\ (o \in listening => o \in listening')
    BY <1>8, <2>1 DEF TopicUnsubscribe, Leave, TopicTypeOK
  <2>3. Holds(Update(v)) => Holds(Update(v))'
    BY <2>2 DEF Holds, Holders, Update
  <2> QED
    BY <1>0, <2>2, <2>3, ExtendedKeeps
<1>9. ASSUME NEW p \in Observers, TopicRead(p) PROVE OnItsWay(o, v)' \/ seen'[o] = v
  <2>1. /\ UNCHANGED <<queue, listening, loops>> /\ inbox[p] # <<>>
        /\ inbox'[o] = IF p = o THEN Tail(inbox[o]) ELSE inbox[o]
        /\ seen'[o] = IF p = o THEN Head(inbox[o]) ELSE seen[o]
    BY <1>9 DEF TopicRead, Show, TopicTypeOK, SourceTypeOK
  <2>2. CASE o \in listening /\ (Holds(Update(v)) \/ \E i \in DOMAIN queue : queue[i] = Update(v))
    BY <2>1, <2>2 DEF OnItsWay, Holds, Holders, Update
  <2>3. ASSUME NEW i \in DOMAIN inbox[o], inbox[o][i] = v PROVE OnItsWay(o, v)' \/ seen'[o] = v
    <3>1. v = Head(inbox[o]) \/ \E j \in DOMAIN Tail(inbox[o]) : Tail(inbox[o])[j] = v
      BY <1>0, <2>3, ElementStays
    <3> QED
      BY <2>1, <2>3, <3>1 DEF OnItsWay
  <2> QED
    BY <2>2, <2>3 DEF OnItsWay
<1> QED
  BY <1>2, <1>3, <1>4, <1>5, <1>6, <1>7, <1>8, <1>9 DEF TopicNext, TopicServerTask, TopicClientTask

(* Over MQTT and Zenoh an update that is owed is lost with the loop that   *)
(* holds it when the runner is stopped, and in no other way.               *)
THEOREM OwedStaysTheorem == Spec => [][OwedStays]_vars
<1>1. ASSUME DataInv, [Next]_vars PROVE OwedStays
  <2> SUFFICES ASSUME binding = "topic", NEW o \in Observers, NEW v \in 1..MaxVersion,
                      OnItsWay(o, v), status'[o] # "left"
               PROVE  \/ OnItsWay(o, v)' \/ seen'[o] = v
                      \/ \E g \in Holders : loops[g].item = Update(v) /\ LoopEnds(g)
    BY DEF OwedStays, LoopEnds
  <2>1. CASE StoreLocally \/ ToggleThing \/ UNCHANGED vars
    BY <2>1
       DEF StoreLocally, ToggleThing, OnItsWay, Holds, Holders, Update, vars, observerVars,
           topicVars, loopVars, brokerVars
  <2>2. CASE TopicNext /\ TopicOnly
    <3>1. SourceTypeOK /\ TopicTypeOK /\ TopicInv
      BY <1>1 DEF DataInv, TypeInv, TypeOK
    <3> QED
      BY <2>2, <3>1, OwedKept
  <2>3. CASE WsOnly \/ HttpOnly \/ CoapOnly
    BY <2>3 DEF WsOnly, HttpOnly, CoapOnly
  <2> QED
    BY <1>1, <2>1, <2>2, <2>3, NextCases
<1> QED
  BY <1>1, DataInvariance, PTL DEF Spec
=============================================================================
