-------------------------- MODULE RequestResponse --------------------------
(***************************************************************************)
(* What the caller of a remote property or action may rely on, whatever    *)
(* the protocol: a write or an invocation is carried out at most once, and *)
(* has been carried out, and its handler has returned, when the call       *)
(* returns; a read returns a value that is not older than what had been    *)
(* acknowledged to this client when the read began, unless that value is   *)
(* one which a slow handler, of this or of another call, came to its end   *)
(* with after a newer write had been answered.  A call may fail at any     *)
(* time, which says nothing about whether it was, or still will be,        *)
(* carried out.                                                            *)
(***************************************************************************)
EXTENDS Calls

VARIABLES
  phase,      \* of each call
  served,     \* writes and invocations that were carried out
  version,    \* the number of the current value, counting writes
  written,    \* the number of the value that each write gave the property
  running,    \* operations that found or set a value, whose handler has not returned
  completed,  \* the highest number set by a write whose handler has returned
  overtaken,  \* numbers that an operation came to its end with when a newer one was completed
  acked,      \* the highest number acknowledged to the client
  floor,      \* what had been acknowledged when each read began
  result      \* the number of the value that each read returned

thingVars == <<served, version, written, running, completed, overtaken>>
callVars == <<phase, thingVars, acked, floor, result>>

CallsInit ==
  /\ phase = [c \in Calls |-> "new"]
  /\ served = {} /\ version = 0 /\ acked = 0
  /\ running = {} /\ completed = 0 /\ overtaken = {}
  /\ written = [c \in Writes |-> 0]
  /\ floor = [c \in Reads |-> 0]
  /\ result = [c \in Reads |-> 0]

Become(c, from, to) == phase[c] = from /\ phase' = [phase EXCEPT ![c] = to]

Begin(c) ==
  /\ Become(c, "new", "begun")
  /\ floor' = IF c \in Reads THEN [floor EXCEPT ![c] = acked] ELSE floor
  /\ UNCHANGED <<thingVars, acked, result>>

(* For the n-th time the call asks, which only a read does twice.          *)
CarryOut(c, n) ==
  /\ phase[c] # "new" /\ c \notin served
  /\ served' = IF c \in Reads THEN served ELSE served \cup {c}
  /\ version' = IF c \in Writes THEN version + 1 ELSE version
  /\ written' = IF c \in Writes THEN [written EXCEPT ![c] = version + 1] ELSE written
  /\ running' = running \cup {[of |-> c, attempt |-> n, version |-> version']}
  /\ UNCHANGED <<phase, completed, overtaken, acked, floor, result>>

(* The answer may be one that everyone sees.                               *)
Complete(op) ==
  /\ op \in running /\ running' = running \ {op}
  /\ completed' = IF op.of \in Writes /\ op.version > completed THEN op.version ELSE completed
  /\ overtaken' \in {overtaken} \cup {overtaken \cup {v} : v \in {op.version} \cap 0..(completed - 1)}
  /\ UNCHANGED <<phase, served, version, written, acked, floor, result>>

Acknowledge(c) ==
  /\ c \in served /\ \A op \in running : op.of # c
  /\ Become(c, "begun", "returned")
  /\ acked' = IF c \in Writes /\ written[c] > acked THEN written[c] ELSE acked
  /\ UNCHANGED <<thingVars, floor, result>>

ReturnUnawaited(c) ==
  /\ c \in Unawaited
  /\ Become(c, "begun", "returned")
  /\ UNCHANGED <<thingVars, acked, floor, result>>

ReturnRead(c, v) ==
  /\ c \in Reads /\ v \in floor[c]..version \cup overtaken
  /\ Become(c, "begun", "returned")
  /\ result' = [result EXCEPT ![c] = v]
  /\ UNCHANGED <<thingVars, acked, floor>>

Fail(c) ==
  /\ Become(c, "begun", "failed")
  /\ UNCHANGED <<thingVars, acked, floor, result>>

CallStep(c) ==
  \/ Begin(c) \/ (\E n \in 1..2 : CarryOut(c, n)) \/ Fail(c)
  \/ Acknowledge(c) \/ ReturnUnawaited(c) \/ (\E v \in 0..version : ReturnRead(c, v))

Step == (\E c \in Calls : CallStep(c)) \/ (\E op \in running : Complete(op))

CallsSpec == CallsInit /\ [][Step]_callVars
=============================================================================
