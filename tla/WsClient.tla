------------------------------ MODULE WsClient ------------------------------
(***************************************************************************)
(* The request side of the WebSocket protocol client                       *)
(* (wotpy/protocols/ws/client.py).                                         *)
(*                                                                         *)
(* Every invoke_action, write_property and read_property call is a         *)
(* request: it takes a reference on the connection to its URL, opening the *)
(* connection and starting its receive loop when there is none; sends a    *)
(* message; waits on an asyncio.Condition for the response with that       *)
(* message id; and drops the reference, closing the connection and waiting *)
(* for the receive loop to end when it was the last.  Requests, receive    *)
(* loops and the server interleave at the awaits of the code.              *)
(*                                                                         *)
(* A request, its reference id and its message id are one element of       *)
(* Requests (each is a fresh uuid4 per call).  A receive loop is named by  *)
(* the request that created its task.  The contents of messages are left   *)
(* out: a response is the request it answers.                              *)
(*                                                                         *)
(* External: a socket loses its peer at any time.  When a socket closes,   *)
(* tornado queues one None behind what has arrived; read_message takes     *)
(* from that queue, and waits for ever once the None has been taken.       *)
(* Responses the peer had sent may or may not have arrived by then.        *)
(***************************************************************************)
CONSTANTS
  Requests,   \* calls made on this client
  Urls,       \* WebSocket URLs of the servers
  UrlOf,      \* the URL each call resolves to
  Timed,      \* the calls made with a timeout (the others wait for ever)
  NoRequest   \* nobody holds the lock

ASSUME RequestsAssumption ==
  /\ UrlOf \in [Requests -> Urls]
  /\ Timed \subseteq Requests
  /\ NoRequest \notin Requests

VARIABLES
  pc,            \* where each request is
  outcome,       \* how each request ended
  lock,          \* _lock_conn: the request that holds it
  refs,          \* _ref_counter
  conn,          \* _conns, and the state of the socket in it
  stopEvent,     \* _receive_stop_events
  receiver,      \* the receive loop task each request created
  messageTables, \* keys of _messages
  messages,      \* responses stored in _messages
  conditions,    \* conditions registered in _msg_conditions
  toServer,      \* requests on the wire
  toClient,      \* responses on the wire
  noneQueued     \* the URLs whose socket has closed with its None unread

requestVars == <<pc, outcome>>
poolVars == <<lock, refs, conn, stopEvent, receiver>>
tableVars == <<messageTables, messages, conditions>>
wireVars == <<toServer, toClient, noneQueued>>
vars == <<requestVars, poolVars, tableVars, wireVars>>

(* "init" and "stop" wait for the lock; "connecting" and "stopping" hold   *)
(* it; between "writing" and "registered" the request awaits the socket.   *)
PcStates == {"idle", "init", "connecting", "send", "writing", "registered",
             "waiting", "notified", "stop", "stopping", "done"}

(* States in which a request relies on the shared connection.              *)
InUse == {"send", "writing", "registered", "waiting", "notified"}

ReceiverStates == {"none", "starting", "reading", "backoff", "ended", "crashed"}

LiveReceiver == {"starting", "reading", "backoff"}

OfUrl(u) == {r \in Requests : UrlOf[r] = u}

TypeOK ==
  /\ pc \in [Requests -> PcStates]
  /\ outcome \in [Requests -> {"none", "response", "timeout", "error", "assertion"}]
  /\ lock \in Requests \cup {NoRequest}
  /\ refs \in [Urls -> SUBSET Requests]
  /\ conn \in [Urls -> {"absent", "open", "dead", "closed"}]
  /\ stopEvent \in [Urls -> {"absent", "clear", "set"}]
  /\ receiver \in [Requests -> ReceiverStates]
  /\ messageTables \in SUBSET Urls
  /\ messages \in SUBSET Requests
  /\ conditions \in SUBSET Requests
  /\ toServer \in SUBSET Requests
  /\ toClient \in SUBSET Requests
  /\ noneQueued \in SUBSET Urls

Init ==
  /\ pc = [r \in Requests |-> "idle"]
  /\ outcome = [r \in Requests |-> "none"]
  /\ lock = NoRequest
  /\ refs = [u \in Urls |-> {}]
  /\ conn = [u \in Urls |-> "absent"]
  /\ stopEvent = [u \in Urls |-> "absent"]
  /\ receiver = [r \in Requests |-> "none"]
  /\ messageTables = {}
  /\ messages = {}
  /\ conditions = {}
  /\ toServer = {}
  /\ toClient = {}
  /\ noneQueued = {}

-----------------------------------------------------------------------------
(* Opening: _init_conn.                                                    *)

GoTo(r, state) == pc' = [pc EXCEPT ![r] = state]

FinishWith(r, state, result) ==
  /\ GoTo(r, state)
  /\ outcome' = [outcome EXCEPT ![r] = result]

Start(r) ==
  /\ pc[r] = "idle"
  /\ GoTo(r, "init")
  /\ UNCHANGED <<outcome, poolVars, tableVars, wireVars>>

HasConn(u) == conn[u] # "absent"

(* Mutant of Reusable: a connection the peer has dropped is opened anew.   *)
ReusableIfOpen(u) == conn[u] = "open"

(* Any connection in the table is reused, dead or alive.                   *)
Reusable(u) == HasConn(u)

(* Mutant of Count: only the request that opens the connection is counted. *)
CountOpener(r) ==
  refs' = IF Reusable(UrlOf[r]) THEN refs
          ELSE [refs EXCEPT ![UrlOf[r]] = @ \cup {r}]

Count(r) == refs' = [refs EXCEPT ![UrlOf[r]] = @ \cup {r}]

(* The lock is taken and the reference counted; without a connection to    *)
(* reuse, the connect is awaited with the lock held.                       *)
AcquireInit(r) ==
  /\ pc[r] = "init"
  /\ lock = NoRequest
  /\ Count(r)
  /\ IF Reusable(UrlOf[r])
     THEN GoTo(r, "send") /\ UNCHANGED lock
     ELSE GoTo(r, "connecting") /\ lock' = r
  /\ UNCHANGED <<outcome, conn, stopEvent, receiver, tableVars, wireVars>>

Connected(r) ==
  LET u == UrlOf[r] IN
    /\ pc[r] = "connecting"
    /\ conn' = [conn EXCEPT ![u] = "open"]
    /\ stopEvent' = [stopEvent EXCEPT ![u] = "clear"]
    /\ receiver' = [receiver EXCEPT ![r] = "starting"]
    /\ lock' = NoRequest
    /\ GoTo(r, "send")
    /\ UNCHANGED <<outcome, refs, tableVars, wireVars>>

(* The exception of the connect leaves the reference to the finally clause *)
(* of the request.                                                         *)
ConnectFails(r) ==
  /\ pc[r] = "connecting"
  /\ lock' = NoRequest
  /\ FinishWith(r, "stop", "error")
  /\ UNCHANGED <<refs, conn, stopEvent, receiver, tableVars, wireVars>>

-----------------------------------------------------------------------------
(* Sending and waiting: _send_message, _wait_condition, _raise_message.    *)

(* write_message raises at once on a socket that is not open (and with no  *)
(* connection there would be no condition to wait on).                     *)
Send(r) ==
  /\ pc[r] = "send"
  /\ IF conn[UrlOf[r]] = "open"
     THEN /\ GoTo(r, "writing")
          /\ toServer' = toServer \cup {r}
          /\ UNCHANGED outcome
     ELSE FinishWith(r, "stop", "error") /\ UNCHANGED toServer
  /\ UNCHANGED <<poolVars, tableVars, toClient, noneQueued>>

(* The condition is registered after the await of the write.  wait_for     *)
(* with a timeout runs the wait in a task of its own (Python 3.10, 3.11),  *)
(* one step later; without one it waits at once.                           *)
Written(r) ==
  /\ pc[r] = "writing"
  /\ conditions' = conditions \cup {r}
  /\ GoTo(r, IF r \in Timed THEN "registered" ELSE "waiting")
  /\ UNCHANGED <<outcome, poolVars, messageTables, messages, wireVars>>

WriteFails(r) ==
  /\ pc[r] = "writing"
  /\ conn[UrlOf[r]] # "open"
  /\ FinishWith(r, "stop", "error")
  /\ UNCHANGED <<poolVars, tableVars, wireVars>>

StartWait(r) ==
  /\ pc[r] = "registered"
  /\ GoTo(r, "waiting")
  /\ UNCHANGED <<outcome, poolVars, tableVars, wireVars>>

(* The two assertions of _raise_message guard the result.                  *)
Wake(r) ==
  /\ pc[r] = "notified"
  /\ FinishWith(r, "stop",
       IF UrlOf[r] \in messageTables /\ r \in messages
       THEN "response" ELSE "assertion")
  /\ UNCHANGED <<poolVars, tableVars, wireVars>>

Timeout(r) ==
  /\ r \in Timed
  /\ pc[r] \in {"registered", "waiting", "notified"}
  /\ FinishWith(r, "stop", "timeout")
  /\ UNCHANGED <<poolVars, tableVars, wireVars>>

-----------------------------------------------------------------------------
(* Closing: _stop_conn.                                                    *)

(* Mutant of HasAny: references left by others are ignored.                *)
NeverHasAny(u, r) == FALSE

(* has_any after the decrease for r.                                       *)
HasAny(u, r) == refs[u] \ {r} # {}

(* Mutant of Forget: the conditions and messages of the connection stay.   *)
ForgetConnOnly(u) ==
  /\ conn' = [conn EXCEPT ![u] = "absent"]
  /\ noneQueued' = noneQueued \ {u}
  /\ UNCHANGED tableVars

(* Mutant of Forget: the slot of the connection is lost with it.           *)
ForgetSlot(u) ==
  /\ conn' = [v \in Urls \ {u} |-> conn[v]]
  /\ messageTables' = messageTables \ {u}
  /\ messages' = messages \ OfUrl(u)
  /\ conditions' = conditions \ OfUrl(u)
  /\ noneQueued' = noneQueued \ {u}

(* The entries of a URL are dropped from every table, and the socket, with *)
(* the queue it has, is nobody's any more.                                 *)
Forget(u) ==
  /\ conn' = [conn EXCEPT ![u] = "absent"]
  /\ messageTables' = messageTables \ {u}
  /\ messages' = messages \ OfUrl(u)
  /\ conditions' = conditions \ OfUrl(u)
  /\ noneQueued' = noneQueued \ {u}

Leave(r) ==
  /\ refs' = [refs EXCEPT ![UrlOf[r]] = @ \ {r}]
  /\ pc[r] = "stop"
  /\ lock = NoRequest

(* Others still use the connection.                                        *)
LeaveShared(r) ==
  /\ Leave(r)
  /\ HasAny(UrlOf[r], r)
  /\ GoTo(r, "done")
  /\ UNCHANGED <<outcome, lock, conn, stopEvent, receiver, tableVars, wireVars>>

(* The last user of a connection that was never made.                      *)
LeaveUnconnected(r) ==
  LET u == UrlOf[r] IN
    /\ Leave(r)
    /\ ~HasAny(u, r)
    /\ stopEvent[u] = "absent"
    /\ Forget(u)
    /\ GoTo(r, "done")
    /\ UNCHANGED <<outcome, lock, stopEvent, receiver, toServer, toClient>>

(* The last user closes the socket, whose None is yet to come unless the   *)
(* peer had closed it, tells the receive loop to stop and polls, with the  *)
(* lock held, until the loop has cleared the event.                        *)
LeaveLast(r) ==
  LET u == UrlOf[r] IN
    /\ Leave(r)
    /\ ~HasAny(u, r)
    /\ stopEvent[u] # "absent"
    /\ conn' = [conn EXCEPT ![u] = IF HasConn(u) THEN "closed" ELSE @]
    /\ stopEvent' = [stopEvent EXCEPT ![u] = "set"]
    /\ lock' = r
    /\ GoTo(r, "stopping")
    /\ toServer' = toServer \ OfUrl(u)
    /\ noneQueued' = noneQueued \cup {v \in {u} : conn[v] = "open"}
    /\ UNCHANGED <<outcome, receiver, tableVars, toClient>>

(* The loop has acknowledged; what the closed socket had buffered is lost. *)
Stopped(r) ==
  LET u == UrlOf[r] IN
    /\ pc[r] = "stopping"
    /\ stopEvent[u] # "set"
    /\ stopEvent' = [stopEvent EXCEPT ![u] = "absent"]
    /\ Forget(u)
    /\ lock' = NoRequest
    /\ GoTo(r, "done")
    /\ toClient' = toClient \ OfUrl(u)
    /\ UNCHANGED <<outcome, refs, receiver, toServer>>

-----------------------------------------------------------------------------
(* The receive loop created by request r: _receive_loop.                   *)

(* Mutant of ReceiverTop: the loop ends without clearing the event.        *)
ReceiverTopKeepingEvent(r) ==
  LET u == UrlOf[r] IN
    /\ receiver' = [receiver EXCEPT ![r] =
         IF stopEvent[u] = "set" THEN "ended" ELSE "reading"]
    /\ UNCHANGED stopEvent

(* The test of the while statement: a set event ends the loop, which then  *)
(* clears it; a missing event would raise and kill the task.               *)
ReceiverTop(r) ==
  LET u == UrlOf[r] IN
    /\ receiver' = [receiver EXCEPT ![r] =
         IF stopEvent[u] = "set" THEN "ended"
         ELSE IF stopEvent[u] = "clear" THEN "reading" ELSE "crashed"]
    /\ stopEvent' = [stopEvent EXCEPT ![u] = IF @ = "set" THEN "clear" ELSE @]

ReceiverStarts(r) ==
  LET u == UrlOf[r] IN
    /\ receiver[r] = "starting"
    /\ IF HasConn(u)
       THEN messageTables' = messageTables \cup {u} /\ ReceiverTop(r)
       ELSE /\ receiver' = [receiver EXCEPT ![r] = "ended"]
            /\ UNCHANGED <<messageTables, stopEvent>>
    /\ UNCHANGED <<requestVars, lock, refs, conn, messages, conditions, wireVars>>

(* Mutant of Notified: every waiting request of the URL is notified.       *)
NotifiedAll(m) ==
  {r \in OfUrl(UrlOf[m]) : pc[r] = "waiting" /\ m \in conditions}

(* The requests that storing the response to m wakes: m, if its condition  *)
(* is registered and m already waits on it.                                *)
Notified(m) == {r \in {m} : pc[r] = "waiting" /\ m \in conditions}

(* Reading a response, storing it, notifying its condition and testing for *)
(* the stop event run without a suspension.                                *)
Receive(r) ==
  /\ receiver[r] = "reading"
  /\ \E m \in toClient :
       /\ UrlOf[m] = UrlOf[r]
       /\ toClient' = toClient \ {m}
       /\ messages' = messages \cup {m}
       /\ pc' = [q \in Requests |-> IF q \in Notified(m) THEN "notified" ELSE pc[q]]
  /\ ReceiverTop(r)
  /\ UNCHANGED <<outcome, lock, refs, conn, messageTables, conditions, toServer, noneQueued>>

(* The None of the close is taken, after which nothing comes from this     *)
(* socket, and the loop sleeps.  Unless it is told to stop by the end of   *)
(* its sleep, the loop goes back to a read that does not return.           *)
ReceiveNone(r) ==
  LET u == UrlOf[r] IN
    /\ receiver[r] = "reading"
    /\ u \in noneQueued
    /\ noneQueued' = noneQueued \ {u}
    /\ toClient' = toClient \ OfUrl(u)
    /\ receiver' = [receiver EXCEPT ![r] = "backoff"]
    /\ UNCHANGED <<requestVars, lock, refs, conn, stopEvent, tableVars, toServer>>

BackoffEnds(r) ==
  /\ receiver[r] = "backoff"
  /\ ReceiverTop(r)
  /\ UNCHANGED <<requestVars, lock, refs, conn, tableVars, wireVars>>

-----------------------------------------------------------------------------
(* The server and the network (external).                                  *)

Respond(r) ==
  /\ r \in toServer
  /\ conn[UrlOf[r]] = "open"
  /\ toServer' = toServer \ {r}
  /\ toClient' = toClient \cup {r}
  /\ UNCHANGED <<requestVars, poolVars, tableVars, noneQueued>>

PeerCloses(u) ==
  /\ conn[u] = "open"
  /\ conn' = [conn EXCEPT ![u] = "dead"]
  /\ toServer' = toServer \ OfUrl(u)
  /\ noneQueued' = noneQueued \cup {u}
  /\ UNCHANGED <<requestVars, lock, refs, stopEvent, receiver, tableVars, toClient>>

-----------------------------------------------------------------------------
Open(r) == AcquireInit(r) \/ Connected(r) \/ ConnectFails(r)

Exchange(r) ==
  \/ Send(r) \/ Written(r) \/ WriteFails(r)
  \/ StartWait(r) \/ Wake(r) \/ Timeout(r)

Close(r) ==
  LeaveShared(r) \/ LeaveUnconnected(r) \/ LeaveLast(r) \/ Stopped(r)

Request(r) == Open(r) \/ Exchange(r) \/ Close(r)

Receiver(r) ==
  ReceiverStarts(r) \/ Receive(r) \/ ReceiveNone(r) \/ BackoffEnds(r)

(* The receive loop that r created waits on a socket whose None is taken.  *)
Deaf(r) ==
  /\ receiver[r] = "reading"
  /\ conn[UrlOf[r]] \in {"dead", "closed"}
  /\ UrlOf[r] \notin noneQueued

(* The request that closes a connection, with the lock held, polls for a   *)
(* receive loop that will not look at its stop event any more.             *)
Hung == \E r, q \in Requests : pc[r] = "stopping" /\ Deaf(q) /\ UrlOf[q] = UrlOf[r]

Next ==
  \/ \E r \in Requests : Start(r) \/ Request(r) \/ Receiver(r) \/ Respond(r)
  \/ \E u \in Urls : PeerCloses(u)

Spec == Init /\ [][Next]_vars

(* The event loop runs every task that can run, and timers fire.  Nothing  *)
(* is assumed of the server.                                               *)
FairSpec ==
  /\ Spec
  /\ \A r \in Requests : WF_vars(Request(r)) /\ WF_vars(Receiver(r))

-----------------------------------------------------------------------------
(* Safety.                                                                 *)

(* A request that is sending or waiting holds its reference, and the       *)
(* connection it relies on has not been closed or forgotten by another     *)
(* request's _stop_conn (only the peer may have dropped it).               *)
RefsProtectConn ==
  \A r \in Requests : pc[r] \in InUse =>
    /\ r \in refs[UrlOf[r]]
    /\ conn[UrlOf[r]] \in {"open", "dead"}

(* Two receive loops never read the same URL (tornado allows one reader),  *)
(* and no loop dies on a stop event somebody removed under it.             *)
OneReceiver ==
  /\ \A r, q \in Requests :
       /\ receiver[r] \in LiveReceiver
       /\ receiver[q] \in LiveReceiver
       /\ UrlOf[r] = UrlOf[q]
       => r = q
  /\ \A r \in Requests : receiver[r] # "crashed"

(* A notified request finds its response: the assertions of _raise_message *)
(* (ws/client.py:346-347) hold whatever the other requests of the URL do.  *)
NotifiedHasResponse ==
  \A r \in Requests :
    /\ pc[r] = "notified" => UrlOf[r] \in messageTables /\ r \in messages
    /\ outcome[r] # "assertion"

(* When nobody refers to a URL and nobody is closing it, the client keeps  *)
(* nothing of it: no socket, no event, no loop, no message, no condition.  *)
NothingLeft ==
  \A u \in Urls :
    /\ refs[u] = {}
    /\ \A r \in OfUrl(u) : pc[r] # "stopping"
    => /\ conn[u] = "absent" /\ stopEvent[u] = "absent"
       /\ u \notin messageTables
       /\ OfUrl(u) \cap (messages \cup conditions) = {}
       /\ \A r \in OfUrl(u) : receiver[r] \notin LiveReceiver

(* _send_message "returns the condition that will be notified when the     *)
(* response arrives" (ws/client.py:127-128): a request never goes on       *)
(* waiting once the receive loop has taken its response in.                *)
ResponseNotifies ==
  \A r \in Requests : pc[r] = "waiting" => r \notin messages

-----------------------------------------------------------------------------
(* Liveness.                                                               *)

(* A request with a timeout ends, whatever the server, the peer and the    *)
(* requests without a timeout do, unless a _stop_conn polls for a loop     *)
(* that had taken the None of its socket before it was told to stop: the   *)
(* only way in which the lock is kept for ever (ws/client.py:112-118).     *)
TimedRequestsEnd == \A r \in Timed : pc[r] = "init" ~> pc[r] = "done" \/ Hung

(* ClientRequestTimeout is "raised when a protocol client request reaches  *)
(* the timeout" (wotpy/protocols/exceptions.py:51): a call that has run    *)
(* into its timeout returns.                                               *)
TimeoutIsRaised == \A r \in Timed : outcome[r] = "timeout" ~> pc[r] = "done"

-----------------------------------------------------------------------------
(* The shared connection as ConnPool promises it.                          *)

Pool == INSTANCE ConnPool WITH
  Conns <- Urls,
  Users <- Requests,
  users <- refs,
  up <- {u \in Urls : conn[u] \in {"open", "dead"}}

PoolSpec == Pool!Spec
=============================================================================
