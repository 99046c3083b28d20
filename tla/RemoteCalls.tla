---------------------------- MODULE RemoteCalls ----------------------------
(***************************************************************************)
(* The calls of an application through any one of the protocol clients:    *)
(* binding is the protocol of the client that Servient.select_client chose *)
(* for the thing.  However different the clients are, each implements      *)
(* RequestResponse.  (The WebSockets client is WsClient's subject.)        *)
(***************************************************************************)
EXTENDS MqttClient, ZenohClient, DirectClient

CONSTANT Scenarios  \* bound: the client, the calls and the failures to explore

ASSUME ScenariosAssumption ==
  \A s \in Scenarios :
    s.binding \in {"mqtt", "zenoh", "direct"} /\ s.calls \subseteq Calls /\ s.failures \in Nat

VARIABLE binding

vars == <<binding, thingVars, callerVars, stream, tableVars, pc, mqttVars, zenohVars, directVars>>

Init ==
  /\ \E s \in Scenarios : binding = s.binding /\ active = s.calls /\ failures = s.failures
  /\ ThingInit /\ TableInit /\ MqttInit /\ ZenohInit /\ DirectInit
  /\ pc = [c \in Calls |-> "idle"]

Mqtt == binding = "mqtt" /\ MqttNext /\ UNCHANGED <<binding, zenohVars, directVars>>

Zenoh == binding = "zenoh" /\ ZenohNext /\ UNCHANGED <<binding, mqttVars, directVars>>

Direct ==
  binding = "direct" /\ DirectNext /\ UNCHANGED <<binding, stream, tableVars, pc, mqttVars, zenohVars>>

(* Every call has ended, and what was published has arrived or is lost.    *)
Done ==
  /\ \A c \in active : phase[c] \in {"returned", "failed"} /\ pc[c] \in {"idle", "done"}
  /\ UNCHANGED vars

Next == Mqtt \/ Zenoh \/ Direct \/ Done

Spec == Init /\ [][Next]_vars

TypeOK ==
  /\ binding \in {"mqtt", "zenoh", "direct"}
  /\ binding = "mqtt" => MqttTypeOK
  /\ binding = "zenoh" => ZenohTypeOK
  /\ binding = "direct" => DirectTypeOK

(* The event loop runs some task that can run, and time passes: waits that *)
(* have a limit, back-offs and attempts to connect end one way or the      *)
(* other.  Nothing is assumed of the thing, the broker or the network.     *)
CallTasks == \E c \in Calls :
  \/ binding = "mqtt" /\ MqttTask(c) /\ UNCHANGED <<binding, zenohVars, directVars>>
  \/ binding = "zenoh" /\ ZenohCallStep(c) /\ UNCHANGED <<binding, mqttVars, directVars>>
  \/ /\ binding = "direct" /\ DirectTask(c)
     /\ UNCHANGED <<binding, stream, tableVars, pc, mqttVars, zenohVars>>

LoopTasks == \E l \in Calls :
  binding = "mqtt" /\ LoopStep(l) /\ UNCHANGED <<binding, zenohVars, directVars>>

FairSpec == Spec /\ WF_vars(CallTasks) /\ WF_vars(LoopTasks)

-----------------------------------------------------------------------------
(* Properties.                                                             *)

Promise == INSTANCE RequestResponse

(* Each client keeps the promise of RequestResponse: carried out at most   *)
(* once, no acknowledgement before the effect, no read of a value that was *)
(* overwritten and acknowledged before the read began, unless a handler    *)
(* came to its end late with it.                                           *)
KeepsPromise == Promise!CallsSpec

(* The calls wait for a subscription in vain, which has no time limit and  *)
(* keeps the lock of the MQTT client.                                      *)
Hung == binding = "mqtt" /\ \E c \in Calls : SubscribesInVain(c)

(* Every call ends, although it may wait for the lock, for a loop to stop, *)
(* or for an answer that never comes; but not when the subscription of a   *)
(* call hangs (wotpy/protocols/mqtt/client.py:262 and 320), nor when it is *)
(* a call without time limit (wotpy/protocols/coap/client.py:204).         *)
CallsEnd ==
  []<>(Hung \/ \A c \in Calls : pc[c] \in {"idle", "done"} /\ (phase[c] = "begun" => WaitsUntimed(c)))
=============================================================================
