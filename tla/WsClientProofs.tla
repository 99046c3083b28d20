--------------------------- MODULE WsClientProofs ---------------------------
(***************************************************************************)
(* Proofs about WsClient, for any number of calls and servers: who uses a  *)
(* connection keeps it, who holds the lock gives it back, and an answer    *)
(* that does not overtake its request wakes it.                            *)
(***************************************************************************)
EXTENDS WsClient, TLAPS

(* The lock is held exactly by the request that awaits a connect or the    *)
(* end of a receive loop.                                                  *)
LockHeld ==
  \A r \in Requests : pc[r] \in {"connecting", "stopping"} <=> lock = r

(* A request is counted on its own URL, from the start of its _init_conn   *)
(* to the decrease of its _stop_conn.                                      *)
RefsCounted ==
  /\ \A r \in Requests :
       pc[r] \in InUse \cup {"connecting", "stop"} <=> r \in refs[UrlOf[r]]
  /\ \A u \in Urls : refs[u] \subseteq OfUrl(u)

(* The state of the connection follows from who refers to it and from who  *)
(* is closing it.                                                          *)
ConnOwned ==
  /\ \A r \in Requests :
       /\ pc[r] \in InUse => conn[UrlOf[r]] \in {"open", "dead"}
       /\ pc[r] = "connecting" => conn[UrlOf[r]] = "absent"
       /\ pc[r] = "stopping" => conn[UrlOf[r]] = "closed" /\ refs[UrlOf[r]] = {}
  /\ \A u \in Urls :
       /\ conn[u] \in {"open", "dead"} => refs[u] # {}
       /\ conn[u] = "closed" => \E r \in OfUrl(u) : pc[r] = "stopping"

(* The stop event exists with the connection, and is set only to close it. *)
EventFollowsConn ==
  \A u \in Urls :
    /\ stopEvent[u] = "absent" <=> conn[u] = "absent"
    /\ stopEvent[u] = "set" => conn[u] = "closed"

(* A live receive loop has a connection, its table of messages once it has *)
(* started, and has not missed a request to stop.                          *)
ReceiverOwned ==
  /\ \A r \in Requests :
       /\ receiver[r] \in LiveReceiver =>
            /\ conn[UrlOf[r]] # "absent"
            /\ conn[UrlOf[r]] = "closed" => stopEvent[UrlOf[r]] = "set"
       /\ receiver[r] \in {"reading", "backoff"} => UrlOf[r] \in messageTables
  /\ OneReceiver

(* What is stored belongs to a connection that is there.                   *)
TablesOwned ==
  /\ \A u \in messageTables : conn[u] # "absent"
  /\ \A r \in messages \cup conditions : conn[UrlOf[r]] # "absent"
  /\ NotifiedHasResponse

IInv ==
  /\ TypeOK
  /\ LockHeld
  /\ RefsCounted
  /\ ConnOwned
  /\ EventFollowsConn
  /\ ReceiverOwned
  /\ TablesOwned

-----------------------------------------------------------------------------
(* The invariant is inductive.                                             *)

(* A client that has made no call yet satisfies it.                        *)
LEMMA InitInv == Init => IInv
BY RequestsAssumption
   DEF Init, IInv, TypeOK, LockHeld, RefsCounted, ConnOwned, EventFollowsConn,
       ReceiverOwned, OneReceiver, TablesOwned, NotifiedHasResponse, InUse,
       LiveReceiver, OfUrl, PcStates, ReceiverStates

(* Every step of a call, a receive loop, the server or the network keeps   *)
(* it.                                                                     *)
LEMMA StepInv == IInv /\ [Next]_vars => IInv'
<1> SUFFICES ASSUME IInv, [Next]_vars PROVE IInv'
  OBVIOUS
<1> USE RequestsAssumption
    DEF IInv, TypeOK, LockHeld, RefsCounted, ConnOwned, EventFollowsConn,
        ReceiverOwned, OneReceiver, TablesOwned, NotifiedHasResponse, InUse,
        LiveReceiver, OfUrl, PcStates, ReceiverStates,
        requestVars, poolVars, tableVars, wireVars
<1>1. ASSUME NEW r \in Requests, Start(r) PROVE IInv'
  BY <1>1 DEF Start, GoTo
<1>2. ASSUME NEW r \in Requests, AcquireInit(r) PROVE IInv'
  BY <1>2 DEF AcquireInit, Count, Reusable, GoTo, HasConn
<1>3. ASSUME NEW r \in Requests, Connected(r) PROVE IInv'
  BY <1>3 DEF Connected, GoTo
<1>4. ASSUME NEW r \in Requests, ConnectFails(r) PROVE IInv'
  BY <1>4 DEF ConnectFails, GoTo, FinishWith
<1>5. ASSUME NEW r \in Requests, Send(r) PROVE IInv'
  BY <1>5 DEF Send, GoTo, FinishWith
<1>6. ASSUME NEW r \in Requests, Written(r) PROVE IInv'
  BY <1>6 DEF Written, GoTo
<1>7. ASSUME NEW r \in Requests, WriteFails(r) PROVE IInv'
  BY <1>7 DEF WriteFails, GoTo, FinishWith
<1>8. ASSUME NEW r \in Requests, StartWait(r) PROVE IInv'
  BY <1>8 DEF StartWait, GoTo
<1>9. ASSUME NEW r \in Requests, Wake(r) PROVE IInv'
  BY <1>9 DEF Wake, GoTo, FinishWith
<1>10. ASSUME NEW r \in Requests, Timeout(r) PROVE IInv'
  BY <1>10 DEF Timeout, GoTo, FinishWith
<1>11. ASSUME NEW r \in Requests, LeaveShared(r) PROVE IInv'
  BY <1>11 DEF LeaveShared, Leave, HasAny, GoTo
<1>12. ASSUME NEW r \in Requests, LeaveUnconnected(r) PROVE IInv'
  BY <1>12 DEF LeaveUnconnected, Leave, HasAny, GoTo, Forget
<1>13. ASSUME NEW r \in Requests, LeaveLast(r) PROVE IInv'
  BY <1>13 DEF LeaveLast, Leave, HasAny, HasConn, GoTo
<1>14. ASSUME NEW r \in Requests, Stopped(r) PROVE IInv'
  BY <1>14 DEF Stopped, Forget, GoTo
<1>15. ASSUME NEW r \in Requests, ReceiverStarts(r) PROVE IInv'
  BY <1>15 DEF ReceiverStarts, HasConn, ReceiverTop
<1>16. ASSUME NEW r \in Requests, Receive(r) PROVE IInv'
  BY <1>16 DEF Receive, Notified, ReceiverTop
<1>17. ASSUME NEW r \in Requests, ReceiveNone(r) PROVE IInv'
  BY <1>17 DEF ReceiveNone
<1>18. ASSUME NEW r \in Requests, BackoffEnds(r) PROVE IInv'
  BY <1>18 DEF BackoffEnds, ReceiverTop
<1>19. ASSUME NEW r \in Requests, Respond(r) PROVE IInv'
  BY <1>19 DEF Respond
<1>20. ASSUME NEW u \in Urls, PeerCloses(u) PROVE IInv'
  BY <1>20 DEF PeerCloses
<1>21. CASE UNCHANGED vars
  BY <1>21 DEF vars
<1> QED
  BY <1>1, <1>2, <1>3, <1>4, <1>5, <1>6, <1>7, <1>8, <1>9, <1>10, <1>11,
     <1>12, <1>13, <1>14, <1>15, <1>16, <1>17, <1>18, <1>19, <1>20, <1>21
     DEF Next, Request, Open, Exchange, Close, Receiver

(* Every state of a behaviour satisfies the invariant.                     *)
THEOREM Invariance == Spec => []IInv
<1>1. Init => IInv
  BY InitInv
<1>2. IInv /\ [Next]_vars => IInv'
  BY StepInv
<1> QED
  BY <1>1, <1>2, PTL DEF Spec

-----------------------------------------------------------------------------
(* What the invariant says of the properties the runs check.               *)

(* Every table of the client keeps its type.                               *)
THEOREM TypeCorrect == Spec => []TypeOK
<1>1. IInv => TypeOK
  BY DEF IInv
<1> QED
  BY <1>1, Invariance, PTL

(* No request loses its connection to another request's _stop_conn.        *)
THEOREM RefsProtectConnTheorem == Spec => []RefsProtectConn
<1>1. IInv => RefsProtectConn
  BY DEF IInv, RefsCounted, ConnOwned, RefsProtectConn
<1> QED
  BY <1>1, Invariance, PTL

(* Every URL has at most one receive loop, and none is orphaned.           *)
THEOREM OneReceiverTheorem == Spec => []OneReceiver
<1>1. IInv => OneReceiver
  BY DEF IInv, ReceiverOwned
<1> QED
  BY <1>1, Invariance, PTL

(* The assertions of _raise_message never fail.                            *)
THEOREM NotifiedHasResponseTheorem == Spec => []NotifiedHasResponse
<1>1. IInv => NotifiedHasResponse
  BY DEF IInv, TablesOwned
<1> QED
  BY <1>1, Invariance, PTL

(* The client forgets everything about a URL nobody uses.                  *)
THEOREM NothingLeftTheorem == Spec => []NothingLeft
<1>1. IInv => NothingLeft
  BY RequestsAssumption
     DEF IInv, TypeOK, ConnOwned, EventFollowsConn, ReceiverOwned,
         TablesOwned, NothingLeft, OfUrl
<1> QED
  BY <1>1, Invariance, PTL

-----------------------------------------------------------------------------
(* Who holds the lock can go on.                                           *)

(* A stop event that is there has a live receive loop to see it, or has    *)
(* been seen.                                                              *)
EventHasReceiver ==
  \A u \in Urls :
    \/ stopEvent[u] = "absent"
    \/ stopEvent[u] = "clear" /\ conn[u] = "closed"
    \/ \E q \in OfUrl(u) : receiver[q] \in LiveReceiver

(* No step of a call or of a receive loop leaves an event behind.          *)
LEMMA StepEvent == IInv /\ EventHasReceiver /\ [Next]_vars => EventHasReceiver'
<1> SUFFICES ASSUME IInv, EventHasReceiver, [Next]_vars PROVE EventHasReceiver'
  OBVIOUS
<1> USE RequestsAssumption
    DEF IInv, TypeOK, LockHeld, RefsCounted, ConnOwned, EventFollowsConn, ReceiverOwned,
        OneReceiver, EventHasReceiver, InUse, LiveReceiver, OfUrl, requestVars, poolVars,
        tableVars, wireVars
<1>1. ASSUME NEW r \in Requests, Start(r) \/ AcquireInit(r) PROVE EventHasReceiver'
  BY <1>1 DEF Start, AcquireInit, Count, Reusable, GoTo
<1>2. ASSUME NEW r \in Requests, Connected(r) PROVE EventHasReceiver'
  BY <1>2 DEF Connected, GoTo
<1>3. ASSUME NEW r \in Requests, ConnectFails(r) PROVE EventHasReceiver'
  BY <1>3 DEF ConnectFails, GoTo, FinishWith
<1>4. ASSUME NEW r \in Requests, Exchange(r) PROVE EventHasReceiver'
  BY <1>4 DEF Exchange, Send, Written, WriteFails, StartWait, Wake, Timeout, GoTo, FinishWith
<1>5. ASSUME NEW r \in Requests, LeaveShared(r) PROVE EventHasReceiver'
  BY <1>5 DEF LeaveShared, Leave, HasAny, GoTo
<1>6. ASSUME NEW r \in Requests, LeaveUnconnected(r) PROVE EventHasReceiver'
  BY <1>6 DEF LeaveUnconnected, Leave, HasAny, GoTo, Forget
<1>7. ASSUME NEW r \in Requests, LeaveLast(r) PROVE EventHasReceiver'
  BY <1>7 DEF LeaveLast, Leave, HasAny, HasConn, GoTo
<1>8. ASSUME NEW r \in Requests, Stopped(r) PROVE EventHasReceiver'
  BY <1>8 DEF Stopped, Forget, GoTo
<1>9. ASSUME NEW r \in Requests, ReceiverStarts(r) PROVE EventHasReceiver'
  BY <1>9 DEF ReceiverStarts, HasConn, ReceiverTop
<1>10. ASSUME NEW r \in Requests, Receive(r) PROVE EventHasReceiver'
  BY <1>10 DEF Receive, Notified, ReceiverTop
<1>11. ASSUME NEW r \in Requests, ReceiveNone(r) PROVE EventHasReceiver'
  BY <1>11 DEF ReceiveNone
<1>12. ASSUME NEW r \in Requests, BackoffEnds(r) PROVE EventHasReceiver'
  BY <1>12 DEF BackoffEnds, ReceiverTop
<1>13. ASSUME NEW r \in Requests, Respond(r) PROVE EventHasReceiver'
  BY <1>13 DEF Respond
<1>14. ASSUME NEW u \in Urls, PeerCloses(u) PROVE EventHasReceiver'
  BY <1>14 DEF PeerCloses
<1>15. CASE UNCHANGED vars
  BY <1>15 DEF vars
<1> QED
  BY <1>1, <1>2, <1>3, <1>4, <1>5, <1>6, <1>7, <1>8, <1>9, <1>10, <1>11, <1>12, <1>13, <1>14, <1>15
     DEF Next, Request, Open, Close, Receiver

(* No receive loop has gone back to reading a socket the peer has closed:  *)
(* the last user leaves, and sets the stop event, before the sleep that    *)
(* follows the None is over.                                               *)
DeadIsNoticed == \A r \in Requests : conn[UrlOf[r]] = "dead" => ~Deaf(r)

(* The same of the sockets that _stop_conn has closed.                     *)
ClosedIsNoticed == \A r \in Requests : conn[UrlOf[r]] = "closed" => ~Deaf(r)

(* A close of an open socket queues a None, and a loop that looks at its   *)
(* event after a close ends: only the close of a dead socket can find a    *)
(* loop that reads in vain.                                                *)
LEMMA StepNoticed ==
  IInv /\ DeadIsNoticed /\ ClosedIsNoticed /\ [Next]_vars => ClosedIsNoticed'
<1> SUFFICES ASSUME IInv, DeadIsNoticed, ClosedIsNoticed, [Next]_vars PROVE ClosedIsNoticed'
  OBVIOUS
<1> USE RequestsAssumption
    DEF IInv, TypeOK, LockHeld, RefsCounted, ConnOwned, EventFollowsConn, ReceiverOwned,
        OneReceiver, DeadIsNoticed, ClosedIsNoticed, Deaf, InUse, LiveReceiver, OfUrl,
        requestVars, poolVars, tableVars, wireVars
<1>1. ASSUME NEW r \in Requests, Start(r) \/ AcquireInit(r) PROVE ClosedIsNoticed'
  BY <1>1 DEF Start, AcquireInit, Count, Reusable, GoTo
<1>2. ASSUME NEW r \in Requests, Connected(r) PROVE ClosedIsNoticed'
  BY <1>2 DEF Connected, GoTo
<1>3. ASSUME NEW r \in Requests, ConnectFails(r) PROVE ClosedIsNoticed'
  BY <1>3 DEF ConnectFails, GoTo, FinishWith
<1>4. ASSUME NEW r \in Requests, Exchange(r) PROVE ClosedIsNoticed'
  BY <1>4 DEF Exchange, Send, Written, WriteFails, StartWait, Wake, Timeout, GoTo, FinishWith
<1>5. ASSUME NEW r \in Requests, LeaveShared(r) PROVE ClosedIsNoticed'
  BY <1>5 DEF LeaveShared, Leave, HasAny, GoTo
<1>6. ASSUME NEW r \in Requests, LeaveUnconnected(r) PROVE ClosedIsNoticed'
  BY <1>6 DEF LeaveUnconnected, Leave, HasAny, GoTo, Forget
<1>7. ASSUME NEW r \in Requests, LeaveLast(r) PROVE ClosedIsNoticed'
  BY <1>7 DEF LeaveLast, Leave, HasAny, HasConn, GoTo
<1>8. ASSUME NEW r \in Requests, Stopped(r) PROVE ClosedIsNoticed'
  BY <1>8 DEF Stopped, Forget, GoTo
<1>9. ASSUME NEW r \in Requests, ReceiverStarts(r) PROVE ClosedIsNoticed'
  BY <1>9 DEF ReceiverStarts, HasConn, ReceiverTop
<1>10. ASSUME NEW r \in Requests, Receive(r) PROVE ClosedIsNoticed'
  BY <1>10 DEF Receive, Notified, ReceiverTop
<1>11. ASSUME NEW r \in Requests, ReceiveNone(r) PROVE ClosedIsNoticed'
  BY <1>11 DEF ReceiveNone
<1>12. ASSUME NEW r \in Requests, BackoffEnds(r) PROVE ClosedIsNoticed'
  BY <1>12 DEF BackoffEnds, ReceiverTop
<1>13. ASSUME NEW r \in Requests, Respond(r) PROVE ClosedIsNoticed'
  BY <1>13 DEF Respond
<1>14. ASSUME NEW u \in Urls, PeerCloses(u) PROVE ClosedIsNoticed'
  BY <1>14 DEF PeerCloses
<1>15. CASE UNCHANGED vars
  BY <1>15 DEF vars
<1> QED
  BY <1>1, <1>2, <1>3, <1>4, <1>5, <1>6, <1>7, <1>8, <1>9, <1>10, <1>11, <1>12, <1>13, <1>14, <1>15
     DEF Next, Request, Open, Close, Receiver

(* A receive loop that will come to look at its stop event: it is about to *)
(* start, sleeps, or has the None of its socket to read.                   *)
LoopLooks(q) ==
  \/ receiver[q] \in {"starting", "backoff"}
  \/ receiver[q] = "reading" /\ UrlOf[q] \in noneQueued

(* The request that holds the lock of all URLs awaits a connect, which     *)
(* ends, or the end of a receive loop, which has answered or will look at  *)
(* the stop event it finds set (_stop_conn).                               *)
LockIsReleased ==
  \A r \in Requests : lock = r =>
    \/ pc[r] = "connecting"
    \/ /\ pc[r] = "stopping" /\ conn[UrlOf[r]] = "closed"
       /\ \/ stopEvent[UrlOf[r]] = "clear"
          \/ /\ stopEvent[UrlOf[r]] = "set"
             /\ \E q \in OfUrl(UrlOf[r]) : LoopLooks(q)

(* _lock_conn is kept for ever (ws/client.py:112-118) in one way only: the *)
(* peer closed a socket, its loop took the None and went back to reading,  *)
(* and the last user left after that.  Whatever else calls, timeouts,      *)
(* failed connects and lost peers do, its holder awaits something that     *)
(* ends.                                                                   *)
THEOREM LockIsReleasedTheorem == Spec /\ []DeadIsNoticed => []LockIsReleased
<1>1. Init => EventHasReceiver /\ ClosedIsNoticed
  BY RequestsAssumption DEF Init, EventHasReceiver, ClosedIsNoticed
<1>2. IInv /\ EventHasReceiver /\ ClosedIsNoticed => LockIsReleased
  BY RequestsAssumption
     DEF IInv, TypeOK, LockHeld, ConnOwned, EventFollowsConn, EventHasReceiver, LockIsReleased,
         ClosedIsNoticed, Deaf, LoopLooks, LiveReceiver, OfUrl
<1>3. IInv /\ EventHasReceiver /\ [Next]_vars => EventHasReceiver'
  BY StepEvent
<1>4. IInv /\ DeadIsNoticed /\ ClosedIsNoticed /\ [Next]_vars => ClosedIsNoticed'
  BY StepNoticed
<1> QED
  BY <1>1, <1>2, <1>3, <1>4, Invariance, PTL DEF Spec

-----------------------------------------------------------------------------
(* A response wakes its request.                                           *)

(* The request waits before its response is read: the response does not    *)
(* overtake the end of the write and, with a timeout, the start of the     *)
(* task of the wait.                                                       *)
NotOvertaken == \A r \in Requests : pc[r] \in {"writing", "registered"} => r \notin messages

(* What is on the wire or stored answers a request that has been written,  *)
(* and a request that waits has its condition.                             *)
AnswersWritten ==
  /\ \A r \in Requests :
       /\ pc[r] \in {"idle", "init", "connecting", "send"} =>
            r \notin toServer \cup toClient \cup messages
       /\ pc[r] \in {"registered", "waiting"} => r \in conditions
  /\ ResponseNotifies

(* Every step keeps that, if no response overtakes the end of its write.   *)
LEMMA StepAnswers ==
  IInv /\ NotOvertaken /\ NotOvertaken' /\ AnswersWritten /\ [Next]_vars => AnswersWritten'
<1> SUFFICES ASSUME IInv, NotOvertaken, NotOvertaken', AnswersWritten, [Next]_vars
             PROVE  AnswersWritten'
  OBVIOUS
<1> USE RequestsAssumption
    DEF IInv, TypeOK, LockHeld, RefsCounted, ConnOwned, EventFollowsConn, AnswersWritten,
        NotOvertaken, ResponseNotifies, InUse, OfUrl, requestVars, poolVars, tableVars, wireVars
<1>1. ASSUME NEW r \in Requests, Start(r) \/ AcquireInit(r) PROVE AnswersWritten'
  BY <1>1 DEF Start, AcquireInit, Count, Reusable, GoTo
<1>2. ASSUME NEW r \in Requests, Connected(r) PROVE AnswersWritten'
  BY <1>2 DEF Connected, GoTo
<1>3. ASSUME NEW r \in Requests, ConnectFails(r) PROVE AnswersWritten'
  BY <1>3 DEF ConnectFails, GoTo, FinishWith
<1>4. ASSUME NEW r \in Requests, Exchange(r) PROVE AnswersWritten'
  BY <1>4 DEF Exchange, Send, Written, WriteFails, StartWait, Wake, Timeout, GoTo, FinishWith
<1>5. ASSUME NEW r \in Requests, LeaveShared(r) PROVE AnswersWritten'
  BY <1>5 DEF LeaveShared, Leave, HasAny, GoTo
<1>6. ASSUME NEW r \in Requests, LeaveUnconnected(r) PROVE AnswersWritten'
  BY <1>6 DEF LeaveUnconnected, Leave, HasAny, GoTo, Forget
<1>7. ASSUME NEW r \in Requests, LeaveLast(r) PROVE AnswersWritten'
  BY <1>7 DEF LeaveLast, Leave, HasAny, HasConn, GoTo
<1>8. ASSUME NEW r \in Requests, Stopped(r) PROVE AnswersWritten'
  BY <1>8 DEF Stopped, Forget, GoTo
<1>9. ASSUME NEW r \in Requests, ReceiverStarts(r) PROVE AnswersWritten'
  BY <1>9 DEF ReceiverStarts, HasConn, ReceiverTop
<1>10. ASSUME NEW r \in Requests, Receive(r) PROVE AnswersWritten'
  BY <1>10 DEF Receive, Notified, ReceiverTop
<1>11. ASSUME NEW r \in Requests, ReceiveNone(r) PROVE AnswersWritten'
  BY <1>11 DEF ReceiveNone
<1>12. ASSUME NEW r \in Requests, BackoffEnds(r) PROVE AnswersWritten'
  BY <1>12 DEF BackoffEnds, ReceiverTop
<1>13. ASSUME NEW r \in Requests, Respond(r) PROVE AnswersWritten'
  BY <1>13 DEF Respond
<1>14. ASSUME NEW u \in Urls, PeerCloses(u) PROVE AnswersWritten'
  BY <1>14 DEF PeerCloses
<1>15. CASE UNCHANGED vars
  BY <1>15 DEF vars
<1> QED
  BY <1>1, <1>2, <1>3, <1>4, <1>5, <1>6, <1>7, <1>8, <1>9, <1>10, <1>11, <1>12, <1>13, <1>14, <1>15
     DEF Next, Request, Open, Close, Receiver

(* _send_message returns "the condition that will be notified when the     *)
(* response arrives" (wotpy/protocols/ws/client.py:127-128), unless the    *)
(* response is read before the await of the write has returned: that is    *)
(* the only way in which a request goes on waiting for a response that has *)
(* been stored, whatever other requests, stops and reconnections do.       *)
THEOREM ResponseNotifiesTheorem == Spec /\ []NotOvertaken => []ResponseNotifies
<1>1. Init => AnswersWritten
  BY DEF Init, AnswersWritten, ResponseNotifies
<1>2. AnswersWritten => ResponseNotifies
  BY DEF AnswersWritten
<1>3. IInv /\ NotOvertaken /\ NotOvertaken' /\ AnswersWritten /\ [Next]_vars => AnswersWritten'
  BY StepAnswers
<1> QED
  BY <1>1, <1>2, <1>3, Invariance, PTL DEF Spec

-----------------------------------------------------------------------------
(* WsClient implements ConnPool.                                           *)

(* Counting a reference, connecting and leaving are the steps of ConnPool; *)
(* everything else leaves the pool as it is.                               *)
LEMMA PoolStep == IInv /\ [Next]_vars => [Pool!Next]_(Pool!vars)
<1> SUFFICES ASSUME IInv, [Next]_vars PROVE [Pool!Next]_(Pool!vars)
  OBVIOUS
<1> USE RequestsAssumption DEF Pool!vars
<1>1. ASSUME NEW r \in Requests, AcquireInit(r) PROVE Pool!Enter(UrlOf[r], r)
  BY <1>1 DEF AcquireInit, Count, Pool!Enter, Pool!Increase
<1>2. ASSUME NEW r \in Requests, Connected(r) PROVE Pool!Open(UrlOf[r])
  BY <1>2 DEF IInv, TypeOK, RefsCounted, Connected, Pool!Open
<1>3. ASSUME NEW r \in Requests,
             LeaveShared(r) \/ LeaveUnconnected(r) \/ LeaveLast(r)
      PROVE  Pool!Leave(UrlOf[r], r)
  <2>1. refs' = [refs EXCEPT ![UrlOf[r]] = @ \ {r}]
    BY <1>3 DEF LeaveShared, LeaveUnconnected, LeaveLast, Leave
  <2>2. {u \in Urls : conn'[u] \in {"open", "dead"}}
          = IF refs'[UrlOf[r]] = {}
            THEN {u \in Urls : conn[u] \in {"open", "dead"}} \ {UrlOf[r]}
            ELSE {u \in Urls : conn[u] \in {"open", "dead"}}
    BY <1>3, <2>1
       DEF IInv, TypeOK, EventFollowsConn, LeaveShared, LeaveUnconnected,
           LeaveLast, Leave, HasAny, HasConn, Forget
  <2> QED
    BY <2>1, <2>2 DEF IInv, TypeOK, Pool!Leave, Pool!Decrease
<1>4. ASSUME NEW r \in Requests,
             \/ Start(r) \/ ConnectFails(r) \/ Exchange(r) \/ Stopped(r)
             \/ Receiver(r) \/ Respond(r)
      PROVE  UNCHANGED Pool!vars
  BY <1>4
     DEF IInv, TypeOK, ConnOwned, requestVars, poolVars, tableVars, wireVars,
         Start, ConnectFails, Exchange, Send, Written, WriteFails, StartWait,
         Wake, Timeout, Stopped, Forget, Receiver, ReceiverStarts, Receive,
         ReceiveNone, BackoffEnds, Respond
<1>5. ASSUME NEW u \in Urls, PeerCloses(u) PROVE UNCHANGED Pool!vars
  BY <1>5 DEF IInv, TypeOK, PeerCloses
<1>6. CASE UNCHANGED vars
  BY <1>6 DEF vars, poolVars
<1> QED
  BY <1>1, <1>2, <1>3, <1>4, <1>5, <1>6
     DEF Next, Request, Open, Close, Pool!Next

(* The client uses its connections as ConnPool promises.                   *)
THEOREM Refinement == Spec => PoolSpec
<1>1. Init => Pool!Init
  BY DEF Init, Pool!Init
<1>2. IInv /\ [Next]_vars => [Pool!Next]_(Pool!vars)
  BY PoolStep
<1> QED
  BY <1>1, <1>2, Invariance, PTL DEF Spec, PoolSpec, Pool!Spec
=============================================================================
