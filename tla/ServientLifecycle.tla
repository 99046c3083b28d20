------------------------- MODULE ServientLifecycle -------------------------
(***************************************************************************)
(* Starting and stopping a Servient and its Protocol Binding servers       *)
(* (wotpy/wot/servient.py, and the start and stop methods of the servers   *)
(* in wotpy/protocols).                                                    *)
(*                                                                         *)
(* start() and shutdown() hold the servient's lock while they await the    *)
(* servers one after another.  Adding and removing servers does not take   *)
(* the lock: it is refused only while is_running says so, and it may       *)
(* happen at any of those awaits.  Python refuses to go on iterating over  *)
(* a dictionary whose size has changed.                                    *)
(*                                                                         *)
(* The order in which servers are visited (the order in which they were    *)
(* added) is left open.  The subclass hooks and the catalogue of Thing     *)
(* Descriptions are part of the first and of the last step of start() and  *)
(* shutdown().                                                             *)
(***************************************************************************)
EXTENDS FiniteSets

CONSTANTS
  Servers,            \* Protocol Binding servers
  Protocols,          \* the protocols they speak
  ProtocolOf,         \* the protocol of each server
  PortServers,        \* servers that listen anew on every start (HTTP, WebSockets)
  RestartWhileUp      \* whether a server may be started that is listening already

ASSUME ServersAssumption ==
  /\ IsFiniteSet(Servers)
  /\ ProtocolOf \in [Servers -> Protocols]
  /\ PortServers \subseteq Servers
  /\ RestartWhileUp \in BOOLEAN

VARIABLES
  servers,    \* Servient._servers (its values; one per protocol)
  phase,      \* whether start or shutdown holds _servient_lock
  pending,    \* the servers its loop has still to visit
  size,       \* the size of _servers when the loop began
  running,    \* Servient._is_running
  last,       \* the last call that changed the servient and how it ended, or
              \* that servers were added or removed under the call in progress
  handle,     \* the _server attribute of each server
  listening   \* servers with a socket open to clients

iterationVars == <<phase, pending, size>>
socketVars == <<handle, listening>>
lifecycleVars == <<servers, iterationVars, running, last, socketVars>>

LifecycleTypeOK ==
  /\ servers \in SUBSET Servers
  /\ phase \in {"idle", "starting", "stopping"}
  /\ pending \in SUBSET Servers
  /\ size \in {Cardinality(S) : S \in SUBSET Servers}
  /\ running \in BOOLEAN
  /\ last \in {"none", "edit", "disturbed", "started", "failed", "shutdown"}
  /\ handle \in [Servers -> {"none", "bound", "unbound"}]
  /\ listening \in SUBSET Servers

LifecycleInit ==
  /\ servers = {}
  /\ phase = "idle"
  /\ pending = {}
  /\ size = 0
  /\ running = FALSE
  /\ last = "none"
  /\ handle = [s \in Servers |-> "none"]
  /\ listening = {}

-----------------------------------------------------------------------------
(* Adding and removing servers.                                            *)

(* Mutant of StoppedServientOnly: the check is forgotten.                  *)
AnyServient == TRUE

(* The decorator _stopped_servient_only.                                   *)
StoppedServientOnly == ~running

Edited == last' = IF phase = "idle" THEN "edit" ELSE "disturbed"

SameProtocol(s) == {q \in servers : ProtocolOf[q] = ProtocolOf[s]}

(* The server takes the place of the one with the same protocol, also in   *)
(* the loop that is visiting the servers; a new protocol is visited last.  *)
AddServer(s) ==
  /\ StoppedServientOnly
  /\ s \notin servers
  /\ RestartWhileUp \/ phase # "starting" \/ s \notin listening
  /\ servers' = (servers \ SameProtocol(s)) \cup {s}
  /\ pending' =
       IF phase # "idle" /\ (SameProtocol(s) = {} \/ SameProtocol(s) \cap pending # {})
       THEN (pending \ SameProtocol(s)) \cup {s}
       ELSE pending
  /\ Edited
  /\ UNCHANGED <<phase, size, running, socketVars>>

RemoveServer(s) ==
  /\ StoppedServientOnly
  /\ s \in servers
  /\ servers' = servers \ {s}
  /\ pending' = pending \ {s}
  /\ Edited
  /\ UNCHANGED <<phase, size, running, socketVars>>

-----------------------------------------------------------------------------
(* The loops of start and shutdown.                                        *)

Begin(newPhase) ==
  /\ phase = "idle"
  /\ phase' = newPhase
  /\ last' = "none"
  /\ pending' = servers
  /\ size' = Cardinality(servers)

End(result) ==
  /\ phase' = "idle"
  /\ pending' = {}
  /\ size' = 0
  /\ last' = result

(* A loop that came to its end, over the servers it began with or not.     *)
Completed(result) == IF last = "disturbed" THEN "disturbed" ELSE result

SizeUnchanged == Cardinality(servers) = size

(* The next server of the loop.                                            *)
Visit(s) ==
  /\ s \in pending
  /\ SizeUnchanged

(* "dictionary changed size during iteration".                             *)
IterationBreaks ==
  /\ phase # "idle"
  /\ ~SizeUnchanged
  /\ End("failed")
  /\ UNCHANGED <<servers, running, socketVars>>

-----------------------------------------------------------------------------
(* Servient.start.                                                         *)

BeginStart ==
  /\ RestartWhileUp \/ servers \cap listening = {}
  /\ Begin("starting")
  /\ UNCHANGED <<servers, running, socketVars>>

(* The start of a server.  HTTP and WebSockets put a new HTTPServer in     *)
(* _server and then listen; started again, CoAP does nothing, and MQTT and *)
(* Zenoh connect anew to a broker or router their loops are listening to.  *)
Listen(s) ==
  /\ handle' = [handle EXCEPT ![s] = "bound"]
  /\ listening' = listening \cup {s}

StartServer(s) ==
  /\ phase = "starting"
  /\ Visit(s)
  /\ s \in PortServers => s \notin listening
  /\ Listen(s)
  /\ pending' = pending \ {s}
  /\ UNCHANGED <<servers, phase, size, running, last>>

(* A port server cannot listen on a port in use, its own earlier socket's  *)
(* included, and has replaced the handle of that socket by then.  Another  *)
(* server fails to connect, some of its runners started or none.           *)
StartServerFails(s) ==
  /\ phase = "starting"
  /\ Visit(s)
  /\ IF s \in PortServers
     THEN handle' = [handle EXCEPT ![s] = "unbound"] /\ UNCHANGED listening
     ELSE UNCHANGED socketVars \/ Listen(s)
  /\ End("failed")
  /\ UNCHANGED <<servers, running>>

EndStart ==
  /\ phase = "starting"
  /\ SizeUnchanged
  /\ pending = {}
  /\ running' = TRUE
  /\ End(Completed("started"))
  /\ UNCHANGED <<servers, socketVars>>

(* The TD catalogue cannot listen on its port.                             *)
CatalogueFails ==
  /\ phase = "starting"
  /\ SizeUnchanged
  /\ pending = {}
  /\ End("failed")
  /\ UNCHANGED <<servers, running, socketVars>>

-----------------------------------------------------------------------------
(* Servient.shutdown.                                                      *)

BeginShutdown ==
  /\ Begin("stopping")
  /\ UNCHANGED <<servers, running, socketVars>>

(* Mutant of StopListening: the socket is forgotten, not stopped.          *)
DropHandle(s) ==
  /\ handle' = [handle EXCEPT ![s] = "none"]
  /\ UNCHANGED listening

(* The stop of a server: what _server refers to is stopped and forgotten.  *)
StopListening(s) ==
  /\ handle' = [handle EXCEPT ![s] = "none"]
  /\ listening' = IF handle[s] = "bound" THEN listening \ {s} ELSE listening

StopServer(s) ==
  /\ phase = "stopping"
  /\ Visit(s)
  /\ StopListening(s)
  /\ pending' = pending \ {s}
  /\ UNCHANGED <<servers, phase, size, running, last>>

StopServerFails(s) ==
  /\ phase = "stopping"
  /\ Visit(s)
  /\ End("failed")
  /\ UNCHANGED <<servers, running, socketVars>>

EndShutdown ==
  /\ phase = "stopping"
  /\ SizeUnchanged
  /\ pending = {}
  /\ running' = FALSE
  /\ End(Completed("shutdown"))
  /\ UNCHANGED <<servers, socketVars>>

-----------------------------------------------------------------------------
(* The steps that leave the forms of the Things alone, and start's first   *)
(* step, which regenerates them.                                           *)
LifecycleStep ==
  \/ \E s \in Servers :
       \/ AddServer(s) \/ RemoveServer(s)
       \/ StartServer(s) \/ StartServerFails(s)
       \/ StopServer(s) \/ StopServerFails(s)
  \/ IterationBreaks
  \/ EndStart \/ CatalogueFails
  \/ BeginShutdown \/ EndShutdown

LifecycleNext == BeginStart \/ LifecycleStep

LifecycleSpec == LifecycleInit /\ [][LifecycleNext]_lifecycleVars

-----------------------------------------------------------------------------
(* is_running: "True if the Servient is currently running (i.e. the        *)
(* attached servers have been started)" (servient.py:229-230), whatever    *)
(* starts and stops failed before, for a servient whose servers were left  *)
(* alone under its start and none of whose stops has raised since.         *)
RunningMeansStarted ==
  running /\ phase = "idle" /\ last \notin {"disturbed", "failed"} => servers \subseteq listening

(* shutdown "stops the server configured under this servient"              *)
(* (servient.py:546): after a shutdown that returned, during which servers *)
(* were left alone, no attached server is left listening, whatever starts  *)
(* and shutdowns stopped half way before.                                  *)
ShutdownSilences ==
  phase = "idle" /\ last = "shutdown" => servers \cap listening = {}
=============================================================================
