-------------------------- MODULE MqttRunnerProofs --------------------------
(***************************************************************************)
(* Proofs that a message from the broker is in one place at any time, that *)
(* the buffer keeps to its size, and that messages to the broker are       *)
(* published in order and none forgotten, for any number of messages and   *)
(* of generations of loops, overlapping or not.                            *)
(***************************************************************************)
EXTENDS MqttRunner, FiniteSetTheorems, SequenceTheorems, TLAPS

(* The types the argument about inbound messages needs.                    *)
InboundTypes ==
  /\ deliver \in [Generations -> {"none", "deliver", "put", "backoff", "reconnect", "ended"}]
  /\ carried \in [Generations -> SUBSET Inbound]
  /\ broker \in SUBSET Inbound
  /\ buffer \in SUBSET Inbound
  /\ handled \in SUBSET Inbound
  /\ emitted \in 0..MaxOutbound

(* A loop has a message in hand only while it is about to put it, or once  *)
(* it has ended: it never takes another one before.                        *)
EmptyHands ==
  \A g \in Generations : deliver[g] \notin {"put", "ended"} => carried[g] = {}

(* A hand holds at most one message, so a put takes one place.             *)
OneInHand ==
  \A g \in Generations : \A m, n \in carried[g] : m = n

BufferFits == IsFiniteSet(buffer) /\ Cardinality(buffer) <= BufferSize

IInv == InboundTypes /\ EmptyHands /\ OneInHand /\ BufferFits /\ InOnePlace

(* The initial state satisfies the inductive invariant.                    *)
LEMMA InitInv == Init => IInv
  <1> SUFFICES ASSUME Init PROVE IInv
    OBVIOUS
  <1>1. InboundTypes
    BY RunnerAssumption DEF Init, InboundTypes
  <1>2. EmptyHands /\ OneInHand /\ InOnePlace
    BY DEF Init, EmptyHands, OneInHand, InOnePlace
  <1>3. BufferFits
    BY FS_EmptySet, RunnerAssumption DEF Init, BufferFits
  <1> QED BY <1>1, <1>2, <1>3 DEF IInv

(* Putting a hand of at most one message into a buffer that is not full.   *)
LEMMA PutFits ==
  ASSUME NEW g \in Generations, IInv, ~Full
  PROVE  IsFiniteSet(buffer \cup carried[g]) /\ Cardinality(buffer \cup carried[g]) <= BufferSize
  <1>1. CASE carried[g] = {}
    BY <1>1 DEF IInv, BufferFits
  <1>2. CASE carried[g] # {}
    <2>1. PICK m \in carried[g] : carried[g] = {m}
      BY <1>2 DEF IInv, OneInHand
    <2>2. Cardinality(buffer) \in Nat
      BY FS_CardinalityType DEF IInv, BufferFits
    <2>3. /\ IsFiniteSet(buffer \cup {m})
          /\ Cardinality(buffer \cup {m}) =
               IF m \in buffer THEN Cardinality(buffer) ELSE Cardinality(buffer) + 1
      BY FS_AddElement DEF IInv, BufferFits
    <2> QED BY <2>1, <2>2, <2>3, RunnerAssumption DEF Full
  <1> QED BY <1>1, <1>2

(* A handling loop takes a message out of the buffer.                      *)
LEMMA TakeFits ==
  ASSUME NEW m \in buffer, BufferFits
  PROVE  IsFiniteSet(buffer \ {m}) /\ Cardinality(buffer \ {m}) <= BufferSize
  <1>1. IsFiniteSet(buffer \ {m}) /\ Cardinality(buffer \ {m}) = Cardinality(buffer) - 1
    BY FS_RemoveElement DEF BufferFits
  <1>2. Cardinality(buffer) \in Nat
    BY FS_CardinalityType DEF BufferFits
  <1> QED BY <1>1, <1>2, RunnerAssumption DEF BufferFits

(* Every step preserves the inductive invariant.                           *)
LEMMA StepInv == IInv /\ [Next]_vars => IInv'
  <1> SUFFICES ASSUME IInv, [Next]_vars PROVE IInv'
    OBVIOUS
  <1> USE DEF IInv, InboundTypes, EmptyHands, OneInHand, BufferFits, InOnePlace
  <1>1. CASE UNCHANGED <<deliverVars, buffer, handleVars, emitted>>
    BY <1>1 DEF deliverVars, handleVars
  <1>2. CASE Emit
    BY <1>2, RunnerAssumption DEF Emit, deliverVars, handleVars
  <1>3. ASSUME NEW g \in Generations, StartLoops(g) PROVE IInv'
    BY <1>3 DEF StartLoops
  <1>4. ASSUME NEW g \in Generations, DeliverMessage(g) PROVE IInv'
    BY <1>4 DEF DeliverMessage, handleVars, publishVars
  <1>5. ASSUME NEW g \in Generations,
               \/ DeliverTimeout(g) \/ DeliverError(g) \/ DeliverRetries(g)
               \/ Reconnected(g, TRUE) \/ Reconnected(g, FALSE)
        PROVE IInv'
    <2>1. UNCHANGED <<carried, broker, buffer, handled, emitted>>
      BY <1>5 DEF DeliverTimeout, DeliverError, DeliverRetries, Reconnected, handleVars, publishVars
    <2>2. /\ deliver[g] \notin {"put", "ended"}
          /\ \E s \in {"deliver", "ended", "backoff", "reconnect"} :
               deliver' = [deliver EXCEPT ![g] = s]
      BY <1>5 DEF DeliverTimeout, DeliverError, DeliverRetries, Reconnected, DeliverTop
    <2>3. carried[g] = {}
      BY <2>2
    <2>4. EmptyHands' /\ InboundTypes'
      BY <2>1, <2>2, <2>3
    <2> QED BY <2>1, <2>4
  <1>6. ASSUME NEW g \in Generations, Put(g) PROVE IInv'
    <2>1. BufferFits'
      BY <1>6, PutFits DEF Put
    <2> QED BY <1>6, <2>1 DEF Put, AfterPut, DeliverTop, handleVars, publishVars
  <1>7. ASSUME NEW g \in Generations, PutTimeout(g) PROVE IInv'
    BY <1>7 DEF PutTimeout, DeliverTop, handleVars, publishVars
  <1>8. ASSUME NEW g \in Generations, Handle(g) PROVE IInv'
    <2>1. BufferFits'
      BY <1>8, TakeFits DEF Handle
    <2> QED BY <1>8, <2>1 DEF Handle, deliverVars, publishVars
  <1>9. ASSUME NEW g \in Generations, HandleTimeout(g) PROVE IInv'
    BY <1>9 DEF HandleTimeout, deliverVars, publishVars
  <1>10. ASSUME NEW g \in Generations, PublishLoop(g) PROVE IInv'
    BY <1>10 DEF PublishLoop, PublishGet, PublishTimeout, PublishSent, PublishDone,
                 PublishFails, PublishBackoffEnds, deliverVars, handleVars
  <1>11. ASSUME NEW k \in Tasks, Conn(k) PROVE IInv'
    BY <1>11, <1>1 DEF Conn, AcquireConn, DropClient, publishVars
  <1>12. CASE BeginStart \/ StartFails \/ BeginStop \/ EndStop \/ LoseConnection \/ Idle
    BY <1>12, <1>1 DEF BeginStart, StartFails, BeginStop, EndStop, LoseConnection, Idle,
                       vars, publishVars
  <1>13. CASE UNCHANGED vars
    BY <1>13, <1>1 DEF vars, publishVars
  <1> QED
    BY <1>2, <1>3, <1>4, <1>5, <1>6, <1>7, <1>8, <1>9, <1>10, <1>11, <1>12, <1>13
       DEF Next, DeliverLoop, HandleLoop

(* The inductive invariant holds in every reachable state.                 *)
THEOREM Invariance == Spec => []IInv
  BY InitInv, StepInv, PTL DEF Spec

(* No inbound message is ever lost to a second copy of itself: a request   *)
(* published to the topics of a handler reaches it at most once per        *)
(* delivery by the broker (_deliver_messages, _handle_messages).           *)
THEOREM InOnePlaceTheorem == Spec => []InOnePlace
  <1>1. IInv => InOnePlace
    BY DEF IInv
  <1> QED BY <1>1, Invariance, PTL

(* The initial state is well typed.                                        *)
LEMMA InitType == Init => TypeOK
  <1> SUFFICES ASSUME Init PROVE TypeOK
    OBVIOUS
  <1>1. buffer \in SUBSET Inbound /\ Cardinality(buffer) <= BufferSize
    BY FS_EmptySet, RunnerAssumption DEF Init
  <1>2. queue \in Seq(1..MaxOutbound) /\ published \in [Generations -> Seq(1..MaxOutbound)]
    BY DEF Init
  <1>3. losses \in 0..MaxLosses /\ emitted \in 0..MaxOutbound
    BY RunnerAssumption DEF Init
  <1>4. /\ deliver \in [Generations -> {"none", "deliver", "put", "backoff", "reconnect", "ended"}]
        /\ carried \in [Generations -> SUBSET Inbound]
        /\ handle \in [Generations -> {"none", "get", "ended"}]
        /\ publish \in [Generations -> {"none", "get", "publish", "acking", "backoff", "ended"}]
        /\ inHand \in [Generations -> SUBSET (1..MaxOutbound)]
    BY DEF Init
  <1>5. /\ control = "stopped" /\ stopRequested \in BOOLEAN
        /\ client = "none" /\ lockConn \in Tasks \cup {Nobody}
        /\ broker \in SUBSET Inbound /\ handled \in SUBSET Inbound
    BY DEF Init
  <1> QED BY <1>1, <1>2, <1>3, <1>4, <1>5 DEF TypeOK

(* Every step preserves the types; the buffer's are part of IInv.          *)
LEMMA StepType == TypeOK /\ IInv' /\ [Next]_vars => TypeOK'
  <1> SUFFICES ASSUME TypeOK, IInv', [Next]_vars PROVE TypeOK'
    OBVIOUS
  <1> USE RunnerAssumption DEF TypeOK
  <1>0. buffer' \in SUBSET Inbound /\ Cardinality(buffer') <= BufferSize
    BY DEF IInv, InboundTypes, BufferFits
  <1>1. CASE Emit
    BY <1>1, <1>0 DEF Emit, controlVars, connVars, deliverVars, handleVars
  <1>2. CASE BeginStart \/ BeginStop
    BY <1>2, <1>0 DEF BeginStart, BeginStop, RequestStop,
                      connVars, deliverVars, handleVars, publishVars
  <1>8. CASE StartFails \/ EndStop
    BY <1>8, <1>0 DEF StartFails, EndStop, EndConnect, deliverVars, handleVars, publishVars
  <1>9. CASE LoseConnection
    <2>1. losses' \in 0..MaxLosses
      BY <1>9 DEF LoseConnection
    <2> QED BY <1>9, <1>0, <2>1 DEF LoseConnection, controlVars, deliverVars, handleVars,
                                     publishVars
  <1>10. CASE Idle \/ UNCHANGED vars
    BY <1>10 DEF Idle, vars, controlVars, connVars, deliverVars, handleVars, publishVars
  <1>3. ASSUME NEW k \in Tasks, Conn(k) PROVE TypeOK'
    BY <1>3, <1>0 DEF Conn, AcquireConn, DropClient,
                      controlVars, deliverVars, handleVars, publishVars
  <1>4. ASSUME NEW g \in Generations, StartLoops(g) PROVE TypeOK'
    BY <1>4, <1>0 DEF StartLoops, EndConnect
  <1>5. ASSUME NEW g \in Generations, DeliverLoop(g) PROVE TypeOK'
    <2> USE DEF DeliverTop, controlVars, connVars, handleVars, publishVars
    <2>1. CASE DeliverMessage(g)
      BY <2>1, <1>0 DEF DeliverMessage
    <2>2. CASE DeliverTimeout(g) \/ DeliverError(g) \/ DeliverRetries(g)
      BY <2>2, <1>0 DEF DeliverTimeout, DeliverError, DeliverRetries
    <2>3. CASE Reconnected(g, TRUE) \/ Reconnected(g, FALSE)
      BY <2>3, <1>0 DEF Reconnected, EndConnect
    <2>4. CASE Put(g)
      BY <2>4, <1>0 DEF Put, AfterPut
    <2>5. CASE PutTimeout(g)
      BY <2>5, <1>0 DEF PutTimeout
    <2> QED BY <1>5, <2>1, <2>2, <2>3, <2>4, <2>5 DEF DeliverLoop
  <1>6. ASSUME NEW g \in Generations, HandleLoop(g) PROVE TypeOK'
    BY <1>6, <1>0 DEF HandleLoop, Handle, HandleTimeout, HandleTop,
       controlVars, connVars, deliverVars, publishVars
  <1>7. ASSUME NEW g \in Generations, PublishLoop(g) PROVE TypeOK'
    <2> USE DEF controlVars, connVars, deliverVars, handleVars
    <2>1. CASE PublishGet(g)
      <3>1. Head(queue) \in 1..MaxOutbound /\ Tail(queue) \in Seq(1..MaxOutbound)
        BY <2>1, SMTT(30) DEF PublishGet
      <3> QED BY <2>1, <1>0, <3>1 DEF PublishGet
    <2>2. CASE PublishSent(g)
      <3>1. PICK o \in 1..MaxOutbound :
              published' = [published EXCEPT ![g] = Received(published[g], o)]
        BY <2>2 DEF PublishSent
      <3>2. Append(published[g], o) \in Seq(1..MaxOutbound)
        OBVIOUS
      <3>3. Received(published[g], o) \in {published[g], Append(published[g], o)}
        BY DEF Received
      <3>4. published' \in [Generations -> Seq(1..MaxOutbound)]
        BY <3>1, <3>2, <3>3
      <3> QED BY <2>2, <1>0, <3>4 DEF PublishSent
    <2>3. CASE PublishTimeout(g) \/ PublishDone(g) \/ PublishFails(g) \/ PublishBackoffEnds(g)
      BY <2>3, <1>0 DEF PublishTimeout, PublishDone, PublishFails, PublishBackoffEnds,
                        Retried, PublishTop
    <2> QED BY <1>7, <2>1, <2>2, <2>3 DEF PublishLoop
  <1> QED BY <1>1, <1>2, <1>3, <1>4, <1>5, <1>6, <1>7, <1>8, <1>9, <1>10 DEF Next

(* Every variable keeps its type; in particular the delivery loops never   *)
(* put more messages into the buffer than it holds.                        *)
THEOREM TypeCorrect == Spec => []TypeOK
  BY InitType, StepType, Invariance, PTL DEF Spec


-----------------------------------------------------------------------------
(* Outbound messages rise on their way: what a loop has published comes    *)
(* before what it has in hand, and that before what is queued.             *)

(* A publishing loop that was not started or waits for a message has none. *)
FreeHands ==
  \A g \in Generations :
    /\ deliver[g] = "none" => publish[g] = "none"
    /\ publish[g] \in {"none", "get"} => inHand[g] = {}

QueuedInOrder ==
  \A i \in 1..Len(queue) :
    /\ queue[i] <= emitted
    /\ \A j \in 1..Len(queue) : i < j => queue[i] < queue[j]

(* A message in hand has left the queue, and is in one hand alone.         *)
HeldInOrder ==
  \A g \in Generations : \A o \in inHand[g] :
    /\ o <= emitted
    /\ \A i \in 1..Len(queue) : o < queue[i]
    /\ \A h \in Generations : \A n \in inHand[h] : n = o <=> g = h

(* A loop has not published beyond its hand, nor what is in another's.     *)
SentInOrder ==
  \A g \in Generations : \A i \in 1..Len(published[g]) :
    /\ published[g][i] <= emitted
    /\ \A j \in 1..Len(queue) : published[g][i] < queue[j]
    /\ \A o \in inHand[g] : published[g][i] <= o
    /\ \A h \in Generations \ {g} : published[g][i] \notin inHand[h]

OutInv == FreeHands /\ QueuedInOrder /\ HeldInOrder /\ SentInOrder /\ PublishedInOrder

(* The types of what this is about.                                        *)
OutTypes ==
  /\ emitted \in Nat
  /\ queue \in Seq(Nat)
  /\ inHand \in [Generations -> SUBSET Nat]
  /\ published \in [Generations -> Seq(Nat)]
  /\ publish \in [Generations -> {"none", "get", "publish", "acking", "backoff", "ended"}]
  /\ deliver \in [Generations -> {"none", "deliver", "put", "backoff", "reconnect", "ended"}]

(* Messages are numbers.                                                   *)
LEMMA NumbersType == TypeOK => OutTypes
  <1> SUFFICES ASSUME TypeOK PROVE OutTypes
    OBVIOUS
  <1>0. ASSUME NEW s \in Seq(1..MaxOutbound) PROVE s \in Seq(Nat)
    <2>1. 1..MaxOutbound \subseteq Nat
      BY RunnerAssumption
    <2> QED BY <2>1, SeqMonotonic
  <1>1. queue \in Seq(Nat)
    BY <1>0 DEF TypeOK
  <1>2. \A g \in Generations : published[g] \in Seq(Nat)
    BY <1>0 DEF TypeOK
  <1>3. published \in [Generations -> Seq(Nat)]
    BY <1>2 DEF TypeOK
  <1> QED BY <1>1, <1>3 DEF TypeOK, OutTypes

(* A new message comes after all others.                                   *)
LEMMA EmitInOrder ==
  ASSUME OutTypes, OutInv, Emit
  PROVE  OutInv'
  <1>1. /\ emitted' = emitted + 1 /\ queue' = Append(queue, emitted + 1)
        /\ UNCHANGED <<deliver, publish, inHand, published>>
    BY DEF Emit, deliverVars
  <1>2. /\ Len(queue) \in Nat /\ Len(queue') = Len(queue) + 1
        /\ queue'[Len(queue) + 1] = emitted + 1
        /\ \A i \in 1..Len(queue) : queue'[i] = queue[i] /\ queue[i] \in Nat
    BY <1>1 DEF OutTypes
  <1>3. \A i \in 1..Len(queue') : i \in 1..Len(queue) \/ i = Len(queue) + 1
    BY <1>2
  <1>4. emitted \in Nat
    BY DEF OutTypes
  <1>5. QueuedInOrder'
    <2> SUFFICES ASSUME NEW i \in 1..Len(queue'), NEW j \in 1..Len(queue')
                 PROVE  queue'[i] <= emitted' /\ (i < j => queue'[i] < queue'[j])
      BY DEF QueuedInOrder
    <2>1. CASE i \in 1..Len(queue)
      BY <1>1, <1>2, <1>3, <1>4, <2>1 DEF OutInv, QueuedInOrder
    <2>2. CASE i = Len(queue) + 1
      BY <1>1, <1>2, <1>3, <1>4, <2>2
    <2> QED BY <1>3, <2>1, <2>2
  <1>6. HeldInOrder'
    <2> SUFFICES ASSUME NEW g \in Generations, NEW o \in inHand[g]
                 PROVE  /\ o <= emitted'
                        /\ \A i \in 1..Len(queue') : o < queue'[i]
                        /\ \A h \in Generations : \A n \in inHand[h] : n = o <=> g = h
      BY <1>1 DEF HeldInOrder
    <2>1. o \in Nat /\ o <= emitted
      BY DEF OutTypes, OutInv, HeldInOrder
    <2>2. ASSUME NEW i \in 1..Len(queue') PROVE o < queue'[i]
      BY <1>2, <1>3, <1>4, <2>1 DEF OutInv, HeldInOrder
    <2> QED BY <1>1, <1>4, <2>1, <2>2 DEF OutInv, HeldInOrder
  <1>7. SentInOrder'
    <2> SUFFICES ASSUME NEW g \in Generations, NEW i \in 1..Len(published[g])
                 PROVE  /\ published[g][i] <= emitted'
                        /\ \A j \in 1..Len(queue') : published[g][i] < queue'[j]
                        /\ \A o \in inHand[g] : published[g][i] <= o
                        /\ \A h \in Generations \ {g} : published[g][i] \notin inHand[h]
      BY <1>1 DEF SentInOrder
    <2>1. published[g][i] \in Nat /\ published[g][i] <= emitted
      BY DEF OutTypes, OutInv, SentInOrder
    <2>2. ASSUME NEW j \in 1..Len(queue') PROVE published[g][i] < queue'[j]
      BY <1>2, <1>3, <1>4, <2>1 DEF OutInv, SentInOrder
    <2> QED BY <1>1, <1>4, <2>1, <2>2 DEF OutInv, SentInOrder
  <1> QED BY <1>1, <1>5, <1>6, <1>7 DEF OutInv, FreeHands, PublishedInOrder

(* The oldest message of the queue moves into a hand.                      *)
LEMMA GetInOrder ==
  ASSUME OutTypes, OutInv, NEW g \in Generations, PublishGet(g)
  PROVE  OutInv'
  <1>1. /\ publish[g] = "get" /\ inHand[g] = {} /\ queue # <<>>
        /\ queue' = Tail(queue)
        /\ inHand' = [inHand EXCEPT ![g] = {Head(queue)}]
        /\ publish' = [publish EXCEPT ![g] = "publish"]
        /\ UNCHANGED <<emitted, deliver, published>>
    BY DEF PublishGet, deliverVars, OutInv, FreeHands
  <1>2. /\ Len(queue) \in Nat \ {0} /\ Len(queue') = Len(queue) - 1
        /\ Head(queue) = queue[1] /\ Head(queue) \in Nat
        /\ \A i \in 1..Len(queue') : queue'[i] = queue[i + 1] /\ queue'[i] \in Nat
    BY <1>1 DEF OutTypes
  <1>3. \A i \in 1..Len(queue') : i + 1 \in 1..Len(queue) /\ 1 < i + 1
    BY <1>2
  <1>4. 1 \in 1..Len(queue)
    BY <1>2
  <1>5. QueuedInOrder'
    <2> SUFFICES ASSUME NEW i \in 1..Len(queue'), NEW j \in 1..Len(queue')
                 PROVE  queue'[i] <= emitted /\ (i < j => queue'[i] < queue'[j])
      BY <1>1 DEF QueuedInOrder
    <2>1. i + 1 \in 1..Len(queue) /\ j + 1 \in 1..Len(queue) /\ (i < j => i + 1 < j + 1)
      BY <1>2, <1>3
    <2> QED BY <1>2, <2>1 DEF OutInv, QueuedInOrder
  <1>6. /\ Head(queue) <= emitted
        /\ \A i \in 1..Len(queue') : Head(queue) < queue'[i]
    BY <1>2, <1>3, <1>4 DEF OutInv, QueuedInOrder
  <1>7. \A h \in Generations : inHand'[h] = IF h = g THEN {Head(queue)} ELSE inHand[h]
    BY <1>1 DEF OutTypes
  <1>8. ASSUME NEW h \in Generations, NEW o \in inHand[h]
        PROVE  /\ o <= emitted /\ o < Head(queue)
               /\ \A i \in 1..Len(queue') : o < queue'[i]
    <2>1. o <= emitted /\ o < Head(queue)
      BY <1>2, <1>4 DEF OutInv, HeldInOrder
    <2> QED BY <1>2, <1>3, <2>1 DEF OutInv, HeldInOrder
  <1>9. HeldInOrder'
    <2> SUFFICES ASSUME NEW h \in Generations, NEW o \in inHand'[h]
                 PROVE  /\ o <= emitted
                        /\ \A i \in 1..Len(queue') : o < queue'[i]
                        /\ \A k \in Generations : \A n \in inHand'[k] : n = o <=> h = k
      BY <1>1 DEF HeldInOrder
    <2>1. o <= emitted /\ \A i \in 1..Len(queue') : o < queue'[i]
      BY <1>6, <1>7, <1>8
    <2>2. ASSUME NEW k \in Generations, NEW n \in inHand'[k] PROVE n = o <=> h = k
      <3>1. CASE h = g /\ k = g
        BY <1>7, <3>1
      <3>2. CASE h # g /\ k # g
        BY <1>7, <3>2 DEF OutInv, HeldInOrder
      <3>3. CASE (h = g /\ k # g)
        <4>1. n \in inHand[k] /\ o = Head(queue)
          BY <1>7, <3>3
        <4>2. n < Head(queue) /\ n \in Nat
          BY <1>8, <4>1 DEF OutTypes
        <4> QED BY <1>2, <3>3, <4>1, <4>2
      <3>4. CASE (h # g /\ k = g)
        <4>1. o \in inHand[h] /\ n = Head(queue)
          BY <1>7, <3>4
        <4>2. o < Head(queue) /\ o \in Nat
          BY <1>8, <4>1 DEF OutTypes
        <4> QED BY <1>2, <3>4, <4>1, <4>2
      <3> QED BY <3>1, <3>2, <3>3, <3>4
    <2> QED BY <2>1, <2>2
  <1>10. SentInOrder'
    <2> SUFFICES ASSUME NEW h \in Generations, NEW i \in 1..Len(published[h])
                 PROVE  /\ published[h][i] <= emitted
                        /\ \A j \in 1..Len(queue') : published[h][i] < queue'[j]
                        /\ \A o \in inHand'[h] : published[h][i] <= o
                        /\ \A k \in Generations \ {h} : published[h][i] \notin inHand'[k]
      BY <1>1 DEF SentInOrder
    <2>1. /\ published[h][i] \in Nat /\ published[h][i] <= emitted
          /\ published[h][i] < Head(queue)
      BY <1>2, <1>4 DEF OutTypes, OutInv, SentInOrder
    <2>2. ASSUME NEW j \in 1..Len(queue') PROVE published[h][i] < queue'[j]
      BY <1>2, <1>3 DEF OutInv, SentInOrder
    <2>3. ASSUME NEW o \in inHand'[h] PROVE published[h][i] <= o
      BY <1>2, <1>7, <2>1 DEF OutInv, SentInOrder
    <2>4. ASSUME NEW k \in Generations \ {h} PROVE published[h][i] \notin inHand'[k]
      BY <1>2, <1>7, <2>1 DEF OutInv, SentInOrder
    <2> QED BY <2>1, <2>2, <2>3, <2>4
  <1>11. FreeHands'
    BY <1>1, <1>7 DEF OutTypes, OutInv, FreeHands
  <1> QED BY <1>1, <1>5, <1>9, <1>10, <1>11 DEF OutInv, PublishedInOrder

(* The message in hand is after everything its loop has published, except  *)
(* itself, which is the last and is not recorded twice.                    *)
LEMMA SendInOrder ==
  ASSUME OutTypes, OutInv, NEW g \in Generations, PublishSent(g)
  PROVE  OutInv'
  <1>1. PICK o \in inHand[g] :
          /\ published' = [published EXCEPT ![g] = Received(published[g], o)]
          /\ publish[g] = "publish"
          /\ publish' = [publish EXCEPT ![g] = "acking"]
          /\ UNCHANGED <<emitted, deliver, inHand, queue>>
    BY DEF PublishSent, deliverVars
  <1>2. FreeHands'
    BY <1>1 DEF OutTypes, OutInv, FreeHands
  <1>3. CASE Received(published[g], o) = published[g]
    <2>1. published' = published
      BY <1>1, <1>3 DEF OutTypes
    <2> QED
      BY <1>1, <1>2, <2>1
         DEF OutInv, QueuedInOrder, HeldInOrder, SentInOrder, PublishedInOrder
  <1>4. CASE Received(published[g], o) # published[g]
    <2> DEFINE p == published[g]
    <2>1. o \in Nat /\ p \in Seq(Nat) /\ Len(p) \in Nat
      BY DEF OutTypes
    <2>2. published'[g] = Append(p, o) /\ (p # <<>> => p[Len(p)] # o)
      BY <1>1, <1>4 DEF Received, OutTypes
    <2>3. \A h \in Generations \ {g} : published'[h] = published[h]
      BY <1>1 DEF OutTypes
    <2>4. /\ Len(published'[g]) = Len(p) + 1 /\ published'[g][Len(p) + 1] = o
          /\ \A i \in 1..Len(p) : published'[g][i] = p[i] /\ p[i] \in Nat
      BY <2>1, <2>2
    <2>5. \A i \in 1..Len(published'[g]) : i \in 1..Len(p) \/ i = Len(p) + 1
      BY <2>1, <2>4
    <2>6. ASSUME NEW i \in 1..Len(p) PROVE p[i] < o
      <3>1. p[i] <= o /\ p[Len(p)] <= o /\ p[Len(p)] # o /\ p[i] \in Nat /\ p[Len(p)] \in Nat
        <4>1. Len(p) \in 1..Len(p) /\ p # <<>>
          BY <2>1
        <4> QED BY <2>2, <2>4, <4>1 DEF OutInv, SentInOrder
      <3>2. CASE i = Len(p)
        BY <2>1, <3>1, <3>2
      <3>3. CASE i # Len(p)
        <4>1. i < Len(p) /\ Len(p) \in 1..Len(p)
          BY <2>1, <3>3
        <4>2. p[i] < p[Len(p)]
          BY <4>1 DEF OutInv, PublishedInOrder
        <4> QED BY <2>1, <3>1, <4>2
      <3> QED BY <3>2, <3>3
    <2>7. SentInOrder'
      <3> SUFFICES ASSUME NEW h \in Generations, NEW i \in 1..Len(published'[h])
                   PROVE  /\ published'[h][i] <= emitted
                          /\ \A j \in 1..Len(queue) : published'[h][i] < queue[j]
                          /\ \A n \in inHand[h] : published'[h][i] <= n
                          /\ \A k \in Generations \ {h} : published'[h][i] \notin inHand[k]
        BY <1>1 DEF SentInOrder
      <3>1. CASE h # g
        BY <2>3, <3>1 DEF OutInv, SentInOrder
      <3>2. CASE h = g /\ i \in 1..Len(p)
        BY <2>4, <3>2 DEF OutInv, SentInOrder
      <3>3. CASE h = g /\ i = Len(p) + 1
        <4>1. published'[h][i] = o
          BY <2>4, <3>3
        <4>2. \A n \in inHand[g] : n = o
          BY DEF OutInv, HeldInOrder
        <4>3. \A k \in Generations \ {g} : o \notin inHand[k]
          BY DEF OutInv, HeldInOrder
        <4> QED BY <2>1, <3>3, <4>1, <4>2, <4>3 DEF OutInv, HeldInOrder
      <3> QED BY <2>5, <3>1, <3>2, <3>3
    <2>8. PublishedInOrder'
      <3> SUFFICES ASSUME NEW h \in Generations, NEW i \in 1..Len(published'[h])
                   PROVE  /\ \A j \in 1..Len(published'[h]) :
                               i < j => published'[h][i] < published'[h][j]
                          /\ \A k \in Generations : \A j \in 1..Len(published'[k]) :
                               published'[h][i] = published'[k][j] => h = k
        BY DEF PublishedInOrder
      <3>1. ASSUME NEW j \in 1..Len(published'[h]), i < j
            PROVE  published'[h][i] < published'[h][j]
        <4>1. CASE h # g
          BY <2>3, <3>1, <4>1 DEF OutInv, PublishedInOrder
        <4>2. CASE h = g /\ j \in 1..Len(p)
          <5>1. i \in 1..Len(p)
            BY <2>1, <2>5, <3>1, <4>2
          <5> QED BY <2>4, <3>1, <4>2, <5>1 DEF OutInv, PublishedInOrder
        <4>3. CASE h = g /\ j = Len(p) + 1
          <5>1. i \in 1..Len(p)
            BY <2>1, <2>5, <3>1, <4>3
          <5> QED BY <2>4, <2>6, <4>3, <5>1
        <4> QED BY <2>5, <4>1, <4>2, <4>3
      <3>2. ASSUME NEW k \in Generations \ {g}, NEW j \in 1..Len(published[k])
            PROVE  published[k][j] # o
        BY DEF OutInv, SentInOrder
      <3>3. ASSUME NEW k \in Generations, NEW j \in 1..Len(published'[k]),
                   published'[h][i] = published'[k][j]
            PROVE  h = k
        <4>1. CASE h # g /\ k # g
          BY <2>3, <3>3, <4>1 DEF OutInv, PublishedInOrder
        <4>2. CASE h = g /\ k # g
          <5>1. published'[k] = published[k]
            BY <2>3, <4>2
          <5>2. CASE i \in 1..Len(p)
            BY <2>4, <3>3, <4>2, <5>1, <5>2 DEF OutInv, PublishedInOrder
          <5>3. CASE i = Len(p) + 1
            BY <2>4, <3>2, <3>3, <4>2, <5>1, <5>3
          <5> QED BY <2>5, <4>2, <5>2, <5>3
        <4>3. CASE h # g /\ k = g
          <5>1. published'[h] = published[h]
            BY <2>3, <4>3
          <5>2. CASE j \in 1..Len(p)
            BY <2>4, <3>3, <4>3, <5>1, <5>2 DEF OutInv, PublishedInOrder
          <5>3. CASE j = Len(p) + 1
            BY <2>4, <3>2, <3>3, <4>3, <5>1, <5>3
          <5> QED BY <2>5, <4>3, <5>2, <5>3
        <4> QED BY <4>1, <4>2, <4>3
      <3> QED BY <3>1, <3>3
    <2> QED BY <1>1, <1>2, <2>7, <2>8 DEF OutInv, QueuedInOrder, HeldInOrder
  <1> QED BY <1>3, <1>4

(* A hand that is emptied, or a loop that goes on to another await.        *)
LEMMA LoopInOrder ==
  ASSUME OutTypes, OutInv, UNCHANGED <<emitted, queue, published>>, FreeHands',
         \A g \in Generations : inHand'[g] \in {inHand[g], {}}
  PROVE  OutInv'
  <1>1. \A g \in Generations : inHand'[g] \subseteq inHand[g]
    OBVIOUS
  <1>2. HeldInOrder'
    BY <1>1 DEF OutInv, HeldInOrder
  <1>3. SentInOrder'
    BY <1>1 DEF OutInv, SentInOrder
  <1> QED BY <1>2, <1>3 DEF OutInv, QueuedInOrder, PublishedInOrder

(* Every step keeps the outbound messages in order.                        *)
LEMMA StepInOrder ==
  ASSUME OutTypes, OutInv, [Next]_vars
  PROVE  OutInv'
  <1>1. CASE Emit
    BY <1>1, EmitInOrder
  <1>2. ASSUME NEW g \in Generations, PublishGet(g) PROVE OutInv'
    BY <1>2, GetInOrder
  <1>3. ASSUME NEW g \in Generations, PublishSent(g) PROVE OutInv'
    BY <1>3, SendInOrder
  <1>4. ASSUME NEW g \in Generations,
               PublishTimeout(g) \/ PublishDone(g) \/ PublishFails(g) \/ PublishBackoffEnds(g)
        PROVE  OutInv'
    <2>1. UNCHANGED <<emitted, queue, published, deliver>>
      BY <1>4 DEF PublishTimeout, PublishDone, PublishFails, PublishBackoffEnds, Retried,
                  deliverVars
    <2>2. \A h \in Generations : inHand'[h] \in {inHand[h], {}}
      BY <1>4 DEF PublishTimeout, PublishDone, PublishFails, PublishBackoffEnds, Retried,
                  OutTypes
    <2>3. FreeHands'
      BY <1>4, <2>1 DEF PublishTimeout, PublishDone, PublishFails, PublishBackoffEnds,
                  Retried, PublishTop, OutTypes, OutInv, FreeHands
    <2> QED BY <2>1, <2>2, <2>3, LoopInOrder
  <1>5. ASSUME NEW g \in Generations, StartLoops(g) PROVE OutInv'
    <2>1. UNCHANGED <<emitted, queue, published, inHand>>
      BY <1>5 DEF StartLoops
    <2>2. FreeHands'
      BY <1>5, <2>1 DEF StartLoops, OutTypes, OutInv, FreeHands
    <2> QED BY <2>1, <2>2, LoopInOrder
  <1>6. ASSUME NEW g \in Generations, DeliverLoop(g) PROVE OutInv'
    <2>1. UNCHANGED publishVars
      BY <1>6 DEF DeliverLoop, DeliverMessage, DeliverTimeout, DeliverError, DeliverRetries,
                  Reconnected, Put, PutTimeout
    <2>2. \A h \in Generations : deliver'[h] = "none" => deliver[h] = "none"
      BY <1>6 DEF DeliverLoop, DeliverMessage, DeliverTimeout, DeliverError, DeliverRetries,
                  Reconnected, Put, PutTimeout, DeliverTop, OutTypes
    <2> QED BY <2>1, <2>2, LoopInOrder DEF publishVars, OutInv, FreeHands
  <1>7. CASE UNCHANGED <<deliver, publishVars>>
    BY <1>7, LoopInOrder DEF publishVars, OutInv, FreeHands
  <1>8. ASSUME NEW g \in Generations, HandleLoop(g) PROVE OutInv'
    BY <1>7, <1>8 DEF HandleLoop, Handle, HandleTimeout, deliverVars
  <1>9. ASSUME NEW k \in Tasks, Conn(k) PROVE OutInv'
    BY <1>7, <1>9 DEF Conn, AcquireConn, DropClient, deliverVars
  <1>10. CASE BeginStart \/ StartFails \/ BeginStop \/ EndStop \/ LoseConnection \/ Idle
              \/ UNCHANGED vars
    BY <1>7, <1>10 DEF BeginStart, StartFails, BeginStop, EndStop, LoseConnection, Idle,
                       vars, deliverVars
  <1> QED
    BY <1>1, <1>2, <1>3, <1>4, <1>5, <1>6, <1>8, <1>9, <1>10 DEF Next, PublishLoop

(* Each publishing loop publishes in the order of the queue and none what  *)
(* another has, however often publications fail, are retried or are cut    *)
(* short, for any number of messages and of overlapping generations.       *)
THEOREM PublishedInOrderTheorem == Spec => []PublishedInOrder
  <1>1. Init => OutInv
    BY DEF Init, OutInv, FreeHands, QueuedInOrder, HeldInOrder, SentInOrder, PublishedInOrder
  <1>2. TypeOK /\ OutInv /\ [Next]_vars => OutInv'
    BY NumbersType, StepInOrder
  <1>3. OutInv => PublishedInOrder
    BY DEF OutInv
  <1> QED BY <1>1, <1>2, <1>3, TypeCorrect, PTL DEF Spec

-----------------------------------------------------------------------------
(* Outbound messages are not lost.                                         *)

(* Where message o is: in the queue, in the hand of a loop, or published.  *)
Queued(o) == \E i \in 1..Len(queue) : queue[i] = o
Held(o) == \E g \in Generations : o \in inHand[g]
Sent(o) == \E g \in Generations : \E i \in 1..Len(published[g]) : published[g][i] = o

NoneForgotten == \A o \in 1..emitted : Queued(o) \/ Held(o) \/ Sent(o)

(* What a loop acknowledges has been published.                            *)
AckedIsSent ==
  \A g \in Generations : publish[g] = "acking" =>
    \A o \in inHand[g] : \E i \in 1..Len(published[g]) : published[g][i] = o

(* A message that its loop does not get published stays in that hand.      *)
LEMMA StaysSomewhere ==
  ASSUME OutTypes, NoneForgotten, emitted' = emitted,
         \A o \in 1..emitted : Queued(o) => Queued(o)' \/ Held(o)' \/ Sent(o)',
         \A o \in 1..emitted : Held(o) => Held(o)' \/ Sent(o)',
         \A o \in 1..emitted : Sent(o) => Sent(o)'
  PROVE  NoneForgotten'
  BY DEF NoneForgotten

(* Recording a publication keeps what was recorded and adds the message.   *)
LEMMA ReceivedKeeps ==
  ASSUME NEW s \in Seq(Nat), NEW o \in Nat
  PROVE  /\ \A i \in 1..Len(s) : i \in 1..Len(Received(s, o)) /\ Received(s, o)[i] = s[i]
         /\ \E i \in 1..Len(Received(s, o)) : Received(s, o)[i] = o
<1>1. CASE s # <<>> /\ s[Len(s)] = o
  <2>1. Received(s, o) = s /\ Len(s) \in 1..Len(s)
    BY <1>1 DEF Received
  <2> QED
    BY <1>1, <2>1
<1>2. CASE ~(s # <<>> /\ s[Len(s)] = o)
  <2>1. Received(s, o) = Append(s, o)
    BY <1>2 DEF Received
  <2>2. /\ Len(Append(s, o)) = Len(s) + 1 /\ Append(s, o)[Len(s) + 1] = o /\ Len(s) \in Nat
        /\ \A i \in 1..Len(s) : Append(s, o)[i] = s[i]
    OBVIOUS
  <2>3. Len(s) + 1 \in 1..Len(Append(s, o)) /\ \A i \in 1..Len(s) : i \in 1..Len(Append(s, o))
    BY <2>2
  <2> QED
    BY <2>1, <2>2, <2>3
<1> QED
  BY <1>1, <1>2

(* Every step leaves each message somewhere.                               *)
LEMMA ForgetsNone ==
  ASSUME OutTypes, OutInv, AckedIsSent, NoneForgotten, [Next]_vars
  PROVE  AckedIsSent' /\ NoneForgotten'
<1>1. CASE UNCHANGED <<publish, inHand, emitted, queue, published>>
  BY <1>1 DEF AckedIsSent, NoneForgotten, Queued, Held, Sent
<1>2. CASE Emit
  <2>1. /\ emitted' = emitted + 1 /\ queue' = Append(queue, emitted + 1)
        /\ UNCHANGED <<publish, inHand, published>> /\ emitted \in Nat /\ queue \in Seq(Nat)
    BY <1>2 DEF Emit, OutTypes
  <2>2. /\ Len(queue') = Len(queue) + 1 /\ queue'[Len(queue) + 1] = emitted + 1 /\ Len(queue) \in Nat
        /\ \A i \in 1..Len(queue) : queue'[i] = queue[i]
    <3>1. emitted + 1 \in Nat
      BY <2>1
    <3> QED
      BY <2>1, <3>1
  <2>3. \A i \in 1..Len(queue) : i \in 1..Len(queue')
    BY <2>2
  <2>4. ASSUME NEW o \in 1..emitted PROVE Queued(o)' \/ Held(o)' \/ Sent(o)'
    BY <2>1, <2>2, <2>3 DEF NoneForgotten, Queued, Held, Sent
  <2>5. \E i \in 1..Len(queue') : queue'[i] = emitted + 1
    <3>1. Len(queue) + 1 \in 1..Len(queue')
      BY <2>2
    <3> QED
      BY <2>2, <3>1
  <2>6. \A o \in 1..(emitted + 1) : o \in 1..emitted \/ o = emitted + 1
    BY <2>1
  <2>7. AckedIsSent'
    BY <2>1 DEF AckedIsSent
  <2>8. ASSUME NEW o \in 1..emitted' PROVE Queued(o)' \/ Held(o)' \/ Sent(o)'
    <3>1. o \in 1..emitted \/ o = emitted + 1
      BY <2>1, <2>6
    <3> QED
      BY <2>4, <2>5, <3>1 DEF Queued
  <2> QED
    BY <2>7, <2>8 DEF NoneForgotten
<1>3. ASSUME NEW g \in Generations, PublishGet(g) PROVE AckedIsSent' /\ NoneForgotten'
  <2>1. /\ queue # <<>> /\ queue' = Tail(queue) /\ inHand[g] = {}
        /\ inHand' = [inHand EXCEPT ![g] = {Head(queue)}]
        /\ publish' = [publish EXCEPT ![g] = "publish"] /\ UNCHANGED <<emitted, published>>
    BY <1>3 DEF PublishGet, OutInv, FreeHands
  <2>2. AckedIsSent'
    BY <2>1 DEF AckedIsSent, OutTypes
  <2>3. \A o : Sent(o) => Sent(o)'
    BY <2>1 DEF Sent
  <2>4. \A o : Held(o) => Held(o)'
    BY <2>1 DEF Held, OutTypes
  <2>5. ASSUME NEW o, Queued(o) PROVE Queued(o)' \/ Held(o)'
    <3>1. PICK i \in 1..Len(queue) : queue[i] = o
      BY <2>5 DEF Queued
    <3>2. CASE i = 1
      <4>1. o = Head(queue)
        BY <2>1, <3>1, <3>2 DEF OutTypes
      <4> QED
        BY <2>1, <4>1 DEF Held, OutTypes
    <3>3. CASE i # 1
      <4>1. i - 1 \in 1..Len(Tail(queue)) /\ Tail(queue)[i - 1] = queue[i]
        BY <2>1, <3>1, <3>3 DEF OutTypes
      <4> QED
        BY <2>1, <3>1, <4>1 DEF Queued
    <3> QED
      BY <3>2, <3>3
  <2> QED
    BY <2>1, <2>2, <2>3, <2>4, <2>5, StaysSomewhere
<1>4. ASSUME NEW g \in Generations, PublishSent(g) PROVE AckedIsSent' /\ NoneForgotten'
  <2>1. PICK o \in inHand[g] : published' = [published EXCEPT ![g] = Received(@, o)]
    BY <1>4 DEF PublishSent
  <2>2. /\ publish' = [publish EXCEPT ![g] = "acking"] /\ UNCHANGED <<emitted, queue, inHand>>
        /\ publish[g] = "publish"
    BY <1>4 DEF PublishSent
  <2>3. /\ \A h \in Generations : \A i \in 1..Len(published[h]) :
             i \in 1..Len(published'[h]) /\ published'[h][i] = published[h][i]
        /\ \E i \in 1..Len(published'[g]) : published'[g][i] = o
    <3>1. published[g] \in Seq(Nat) /\ o \in Nat
      BY DEF OutTypes
    <3>2. \A h \in Generations : published'[h] = IF h = g THEN Received(published[g], o) ELSE published[h]
      BY <2>1 DEF OutTypes
    <3> QED
      BY <3>1, <3>2, ReceivedKeeps
  <2>4. \A n : Sent(n) => Sent(n)'
    BY <2>3 DEF Sent
  <2>5. NoneForgotten'
    BY <2>2, <2>4, StaysSomewhere DEF Queued, Held
  <2>6. AckedIsSent'
    <3>1. \A n \in inHand[g] : n = o
      BY DEF OutInv, HeldInOrder
    <3> SUFFICES ASSUME NEW h \in Generations, publish'[h] = "acking", NEW n \in inHand[h]
                 PROVE  \E i \in 1..Len(published'[h]) : published'[h][i] = n
      BY <2>2 DEF AckedIsSent
    <3>2. CASE h = g
      BY <2>3, <3>1, <3>2
    <3>3. CASE h # g
      <4>1. publish[h] = "acking"
        BY <2>2, <3>3 DEF OutTypes
      <4>2. PICK i \in 1..Len(published[h]) : published[h][i] = n
        BY <4>1 DEF AckedIsSent
      <4> QED
        BY <2>3, <4>2
    <3> QED
      BY <3>2, <3>3
  <2> QED
    BY <2>5, <2>6
<1>5. ASSUME NEW g \in Generations, PublishTimeout(g) \/ PublishFails(g) \/ PublishBackoffEnds(g)
      PROVE  AckedIsSent' /\ NoneForgotten'
  <2>1. /\ UNCHANGED <<inHand, emitted, queue, published>>
        /\ \E s \in {"get", "publish", "backoff", "ended"} : publish' = [publish EXCEPT ![g] = s]
    BY <1>5 DEF PublishTimeout, PublishFails, PublishBackoffEnds, Retried, PublishTop
  <2>2. NoneForgotten'
    BY <2>1, StaysSomewhere DEF Queued, Held, Sent
  <2>3. AckedIsSent'
    BY <2>1 DEF AckedIsSent, OutTypes
  <2> QED
    BY <2>2, <2>3
<1>6. ASSUME NEW g \in Generations, PublishDone(g) PROVE AckedIsSent' /\ NoneForgotten'
  <2>1. /\ publish[g] = "acking" /\ inHand' = [inHand EXCEPT ![g] = {}]
        /\ UNCHANGED <<emitted, queue, published>>
        /\ \E s \in {"get", "ended"} : publish' = [publish EXCEPT ![g] = s]
    BY <1>6 DEF PublishDone, PublishTop
  <2>2. \A o : Queued(o) => Queued(o)'
    BY <2>1 DEF Queued
  <2>3. \A o : Sent(o) => Sent(o)'
    BY <2>1 DEF Sent
  <2>4. ASSUME NEW o, Held(o) PROVE Held(o)' \/ Sent(o)'
    <3>1. PICK h \in Generations : o \in inHand[h]
      BY <2>4 DEF Held
    <3>2. CASE h = g
      <4>1. Sent(o)
        BY <2>1, <3>1, <3>2 DEF AckedIsSent, Sent
      <4> QED
        BY <2>3, <4>1
    <3>3. CASE h # g
      BY <2>1, <3>1, <3>3 DEF Held, OutTypes
    <3> QED
      BY <3>2, <3>3
  <2>5. NoneForgotten'
    BY <2>1, <2>2, <2>3, <2>4, StaysSomewhere
  <2>6. AckedIsSent'
    BY <2>1 DEF AckedIsSent, OutTypes
  <2> QED
    BY <2>5, <2>6
<1>7. ASSUME NEW g \in Generations, StartLoops(g) PROVE AckedIsSent' /\ NoneForgotten'
  <2>1. /\ UNCHANGED <<inHand, emitted, queue, published>>
        /\ publish' = [publish EXCEPT ![g] = "get"]
    BY <1>7 DEF StartLoops
  <2>2. NoneForgotten'
    BY <2>1, StaysSomewhere DEF Queued, Held, Sent
  <2>3. AckedIsSent'
    BY <2>1 DEF AckedIsSent, OutTypes
  <2> QED
    BY <2>2, <2>3
<1>8. ASSUME NEW g \in Generations, DeliverLoop(g) PROVE AckedIsSent' /\ NoneForgotten'
  BY <1>1, <1>8 DEF DeliverLoop, DeliverMessage, DeliverTimeout, DeliverError, DeliverRetries,
                    Reconnected, Put, PutTimeout, publishVars
<1>9. ASSUME NEW g \in Generations, HandleLoop(g) PROVE AckedIsSent' /\ NoneForgotten'
  BY <1>1, <1>9 DEF HandleLoop, Handle, HandleTimeout, publishVars
<1>10. ASSUME NEW k \in Tasks, Conn(k) PROVE AckedIsSent' /\ NoneForgotten'
  BY <1>1, <1>10 DEF Conn, AcquireConn, DropClient, publishVars
<1>11. CASE BeginStart \/ StartFails \/ BeginStop \/ EndStop \/ LoseConnection \/ Idle
            \/ UNCHANGED vars
  BY <1>1, <1>11 DEF BeginStart, StartFails, BeginStop, EndStop, LoseConnection, Idle,
                     vars, publishVars
<1> QED
  BY <1>2, <1>3, <1>4, <1>5, <1>6, <1>7, <1>8, <1>9, <1>10, <1>11 DEF Next, PublishLoop

(* A message a handler has queued is in its queue, in the hand of a        *)
(* publishing loop, or published: none is dropped by a publication that    *)
(* fails or is retried, by a stop or by loops that overlap, other than     *)
(* with the hand of a loop that ends (_publish_queued_messages).           *)
THEOREM NoneForgottenTheorem == Spec => []NoneForgotten
<1>1. Init => OutInv
  BY DEF Init, OutInv, FreeHands, QueuedInOrder, HeldInOrder, SentInOrder, PublishedInOrder
<1>2. Init => AckedIsSent /\ NoneForgotten
  BY DEF Init, AckedIsSent, NoneForgotten
<1>3. TypeOK /\ OutInv /\ [Next]_vars => OutInv'
  BY NumbersType, StepInOrder
<1>4. TypeOK /\ OutInv /\ AckedIsSent /\ NoneForgotten /\ [Next]_vars
      => AckedIsSent' /\ NoneForgotten'
  BY NumbersType, ForgetsNone
<1> QED
  BY <1>1, <1>2, <1>3, <1>4, TypeCorrect, PTL DEF Spec
=============================================================================
