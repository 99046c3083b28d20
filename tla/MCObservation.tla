--------------------------- MODULE MCObservation ---------------------------
EXTENDS Observation, TLC

CONSTANTS o1, o2

Scenario(name, what, who, count) ==
  [binding |-> name, kind |-> what, active |-> who, losses |-> count, starts |-> 0, requests |-> 0]

Topic(what, who, count, begins, asks) ==
  [Scenario("topic", what, who, count) EXCEPT !.starts = begins, !.requests = asks]

(* A lost connection concerns WebSockets, a failed publication topics.     *)
(* The kinds differ where the value of a property can be read before its   *)
(* change is emitted, and observers meet where one connection disturbs the *)
(* emission to another and where they share the last event.  Over topics,  *)
(* loops overlap if there are two starts, and the buffer is full if there  *)
(* are two requests.                                                       *)
MCScenarios ==
  { Scenario("ws", "event", {o1, o2}, 1), Scenario("ws", "property", {o1}, 1),
    Scenario("http", "event", {o1}, 0),
    Scenario("coap", "property", {o1}, 0), Scenario("coap", "event", {o1, o2}, 0),
    Topic("property", {o1}, 0, 2, 1), Topic("property", {}, 0, 1, 2), Topic("event", {o1}, 1, 2, 0) }
=============================================================================
