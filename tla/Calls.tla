------------------------------- MODULE Calls -------------------------------
(***************************************************************************)
(* The calls an application makes to one property and one action of a      *)
(* remote thing, through one protocol client                               *)
(* (wotpy/protocols/client.py).                                            *)
(***************************************************************************)
EXTENDS Naturals

CONSTANTS
  Writes,       \* calls of write_property
  Reads,        \* calls of read_property
  Invocations,  \* calls of invoke_action
  Unawaited     \* writes with wait_ack=False

Calls == Writes \cup Reads \cup Invocations

ASSUME CallsAssumption ==
  /\ Writes \cap Reads = {} /\ Invocations \cap (Writes \cup Reads) = {}
  /\ Unawaited \subseteq Writes
=============================================================================
