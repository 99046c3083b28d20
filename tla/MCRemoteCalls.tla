---------------------------- MODULE MCRemoteCalls ----------------------------
EXTENDS RemoteCalls, TLC

CONSTANTS w1, w2, r1, r2, i1

Scenario(name, calls, count) == [binding |-> name, calls |-> calls, failures |-> count]

(* Stale answers need two writes and a read, or a write and two reads;     *)
(* recovery a loss and two calls of which one may be closing the           *)
(* connection while the other opens it.                                    *)
MCScenarios ==
  { Scenario("mqtt", {w1, w2, r1}, 0), Scenario("mqtt", {w1, r1}, 2),
    Scenario("mqtt", {r1, r2}, 1), Scenario("mqtt", {w2, i1}, 1),
    Scenario("zenoh", {w1, r1, r2}, 0), Scenario("zenoh", {w1, w2, r1}, 0),
    Scenario("direct", {w1, r1, r2, i1}, 0) }
=============================================================================
