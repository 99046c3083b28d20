---------------------------- MODULE MCMqttRunner ----------------------------
EXTENDS MqttRunner, TLC

CONSTANTS m1, m2, g1, g2

(* Inbound messages, and the generations of loops, are interchangeable.    *)
Symmetry == Permutations(Inbound) \cup Permutations(Generations)
=============================================================================
