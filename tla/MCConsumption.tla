--------------------------- MODULE MCConsumption ---------------------------
EXTENDS Consumption

CONSTANTS c1, c2

MCNames == {"Heat", "heat", "lamp"}

MCUrlNameOf == [n \in MCNames |-> IF n = "Heat" THEN "heat" ELSE n]

Scenario(servers, clients, scheme, credential, calls, n) ==
  [servers |-> servers, clients |-> clients, scheme |-> scheme, credential |-> credential,
   calls |-> calls, edits |-> n]

MCScenarios ==
  {Scenario(Protocols, <<p>>, "nosec", "none", {c1}, 4) : p \in Protocols}
    \cup {Scenario(s, DefaultClients, "nosec", "none", {c1}, 3) :
            s \in {{}, {"ws"}, {"coap", "http"}, {"zenoh", "ws"}, Protocols}}
    \cup {Scenario({p}, <<p>>, s, k, {c1}, 2) :
            p \in {"http", "coap"}, s \in {"known", "unsupported"}, k \in {"none", "right", "wrong", "unsupported"}}
    \cup {Scenario({p}, <<p>>, "nosec", "token", {c1, c2}, 2) : p \in {"http", "coap"}}
=============================================================================
