---------------------------- MODULE RemoteThing ----------------------------
(***************************************************************************)
(* The far end of the calls: a thing that carries out each request that    *)
(* reaches it (external: any server of the protocol), and what the callers *)
(* observe.  The values of the property are numbered in the order they are *)
(* written.  Only version and running are state of the thing; phase,       *)
(* served, written, completed, overtaken, acked, floor and result record   *)
(* the history of the calls, and no action of a client depends on them     *)
(* except that a call begins once.                                         *)
(*                                                                         *)
(* The handlers of the property and of the action may suspend, before and  *)
(* after the moment at which they find or set the value: what is found or  *)
(* done is one step (Handle), the return of the handler, which gives the   *)
(* answer, another (Answer), and other requests are handled in between.    *)
(***************************************************************************)
EXTENDS Calls

VARIABLES
  active,    \* bound: the calls the application makes
  requests,  \* calls whose request has reached the thing and waits there
  version,   \* the number of the current value of the property
  running, completed, overtaken, phase, served, written, acked, floor, result  \* as in RequestResponse

answerVars == <<running, completed, overtaken>>
thingVars == <<active, requests, version, served, written, answerVars>>
outcomeVars == <<phase, acked, result>>
callerVars == <<outcomeVars, floor>>

(* What a handler has found or done; a read may be asked for twice.        *)
Operation == [of : Calls, attempt : 1..2, version : Nat]

ThingTypeOK ==
  /\ active \subseteq Calls /\ requests \subseteq Calls
  /\ version \in Nat /\ acked \in Nat
  /\ running \subseteq Operation /\ completed \in Nat /\ overtaken \subseteq Nat
  /\ phase \in [Calls -> {"new", "begun", "returned", "failed"}]
  /\ served \subseteq Calls \ Reads
  /\ written \in [Writes -> Nat]
  /\ floor \in [Reads -> Nat] /\ result \in [Reads -> Nat]

ThingInit ==
  /\ requests = {} /\ version = 0 /\ served = {} /\ acked = 0
  /\ running = {} /\ completed = 0 /\ overtaken = {}
  /\ phase = [c \in Calls |-> "new"]
  /\ written = [c \in Writes |-> 0]
  /\ floor = [c \in Reads |-> 0]
  /\ result = [c \in Reads |-> 0]

Start(c) ==
  /\ c \in active /\ phase[c] = "new"
  /\ phase' = [phase EXCEPT ![c] = "begun"]
  /\ floor' = IF c \in Reads THEN [floor EXCEPT ![c] = acked] ELSE floor
  /\ UNCHANGED <<acked, result>>

(* The caller gets an answer of an operation that found or set value v.    *)
Return(c, v) ==
  /\ phase' = [phase EXCEPT ![c] = "returned"]
  /\ acked' = IF c \in Writes /\ v > acked THEN v ELSE acked
  /\ result' = IF c \in Reads THEN [result EXCEPT ![c] = v] ELSE result

ReturnAtOnce(c) ==
  /\ phase' = [phase EXCEPT ![c] = "returned"]
  /\ UNCHANGED <<acked, result>>

Fail(c) ==
  /\ phase' = [phase EXCEPT ![c] = "failed"]
  /\ UNCHANGED <<acked, result>>

VersionAfter(c) == IF c \in Writes THEN version + 1 ELSE version

(* The handler sets the value, does what the action does, or finds the     *)
(* value, for the request in its n-th attempt.                             *)
Handle(c, n) ==
  /\ c \in requests
  /\ requests' = requests \ {c}
  /\ version' = VersionAfter(c)
  /\ running' = running \cup {[of |-> c, attempt |-> n, version |-> VersionAfter(c)]}
  /\ served' = IF c \in Reads THEN served ELSE served \cup {c}
  /\ written' = IF c \in Writes THEN [written EXCEPT ![c] = version + 1] ELSE written
  /\ UNCHANGED <<active, completed, overtaken, callerVars>>

(* The handler of an operation returns.                                    *)
Answer(op) ==
  /\ op \in running
  /\ running' = running \ {op}
  /\ completed' = IF op.of \in Writes /\ op.version > completed THEN op.version ELSE completed
  /\ UNCHANGED <<active, requests, version, served, written, callerVars>>
=============================================================================
