----------------------------- MODULE MCServient -----------------------------
EXTENDS Servient, TLC

CONSTANTS web1, web2, broker, t1, t2

MCProtocolOf == [s \in Servers |-> IF s = broker THEN "mqtt" ELSE "http"]

(* Distinct URL names.                                                     *)
MCTitleOf == [t \in Things |-> IF t = t2 THEN "Door" ELSE "Lamp"]
MCUrlNameOf == [t \in Things |-> IF t = t2 THEN "door" ELSE "lamp"]

(* Titles that differ only in case share their URL name, which is also the *)
(* title of t2.                                                            *)
MCCaseTitleOf == [t \in Things |-> IF t = t2 THEN "lamp" ELSE "Lamp"]
MCCaseUrlNameOf == [t \in Things |-> "lamp"]

(* The servers of one protocol are interchangeable.                        *)
Symmetry == Permutations({web1, web2})
=============================================================================
