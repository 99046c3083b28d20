------------------------------- MODULE Forms -------------------------------
(***************************************************************************)
(* What a server offers for an interaction and what a client asks for: the *)
(* forms that each server builds, the form that each client picks for a    *)
(* verb, and the verb that the server makes of the request.  An address is *)
(* abstracted to its area, the part that does not depend on the names of   *)
(* the thing and of the interaction; all addresses are complete URLs of    *)
(* one server per protocol.                                                *)
(***************************************************************************)
EXTENDS Sequences, SequencesExt

Protocols == {"http", "ws", "coap", "mqtt", "zenoh"}

Kinds == {"property", "action", "event"}

VerbsOf == [property |-> {"read", "write", "observe"}, action |-> {"invoke"}, event |-> {"subscribe"}]

Verbs == UNION {VerbsOf[k] : k \in Kinds}

KindOf(verb) == CHOOSE k \in Kinds : verb \in VerbsOf[k]

-----------------------------------------------------------------------------
(* The forms of each server, in the order in which it lists them.          *)

Form(area, ops) == [area |-> area, ops |-> ops]

(* Mutant of HttpForms: the form to observe comes first.                   *)
HttpFormsObserveFirst ==
  [property |-> <<Form("property/subscription", {"observe"}), Form("property", {"read", "write"})>>,
   action |-> <<Form("action", {"invoke"})>>,
   event |-> <<Form("event/subscription", {"subscribe"})>>]

HttpForms ==
  [property |-> <<Form("property", {"read", "write"}), Form("property/subscription", {"observe"})>>,
   action |-> <<Form("action", {"invoke"})>>,
   event |-> <<Form("event/subscription", {"subscribe"})>>]

CoapForms ==
  [property |-> <<Form("property", {"read"}), Form("property", {"write"}), Form("property", {"observe"})>>,
   action |-> <<Form("action", {"invoke"})>>,
   event |-> <<Form("event", {"subscribe"})>>]

MqttForms ==
  [property |-> <<Form("requests", {"read"}), Form("requests", {"write"}), Form("updates", {"observe"})>>,
   action |-> <<Form("invocation", {"invoke"})>>,
   event |-> <<Form("event", {"subscribe"})>>]

ZenohForms == MqttForms

WsForms == [k \in Kinds |-> <<Form("thing", {})>>]

ServerForms ==
  [http |-> HttpForms, coap |-> CoapForms, mqtt |-> MqttForms, zenoh |-> ZenohForms, ws |-> WsForms]

-----------------------------------------------------------------------------
(* The clients.                                                            *)

Fits(form, op) == op = "any" \/ op \in form.ops

(* Where a server lists the forms that have the operation.                 *)
Fitting(p, kind, op) ==
  {i \in DOMAIN ServerForms[p][kind] : Fits(ServerForms[p][kind][i], op)}

(* The first of them.                                                      *)
PickForm(p, kind, op) == ServerForms[p][kind][Min(Fitting(p, kind, op))]

HttpOp(verb) == IF verb = "observe" THEN verb ELSE "any"

CoapOp(verb) == verb

MqttOp(verb) == IF verb = "invoke" THEN "any" ELSE verb

ZenohOp(verb) == MqttOp(verb)

WsOp(verb) == "any"

AskedOp(p, verb) ==
  CASE p = "http" -> HttpOp(verb)
    [] p = "coap" -> CoapOp(verb)
    [] p = "mqtt" -> MqttOp(verb)
    [] p = "zenoh" -> ZenohOp(verb)
    [] p = "ws" -> WsOp(verb)

(* A read over a broker also needs the topic of the updates, which carry   *)
(* the answer.                                                             *)
AlsoAsked(p, verb) == IF p \in {"mqtt", "zenoh"} /\ verb = "read" THEN {"observe"} ELSE {}

CanPick(p, verb) ==
  \A op \in {AskedOp(p, verb)} \cup AlsoAsked(p, verb) : Fitting(p, KindOf(verb), op) # {}

AreaFor(p, verb) == PickForm(p, KindOf(verb), AskedOp(p, verb)).area

(* What the request says besides its address.                              *)
HttpMethod(verb) ==
  CASE verb = "write" -> "PUT" [] verb = "invoke" -> "POST" [] OTHER -> "GET"

CoapMethod(verb) ==
  CASE verb = "write" -> "PUT" [] verb = "invoke" -> "POST" [] verb = "read" -> "GET"
    [] OTHER -> "GET with observe"

TopicMethod(verb) ==
  CASE verb \in {"read", "write"} -> verb [] verb = "invoke" -> "publish" [] OTHER -> "listen"

MethodFor(p, verb) ==
  CASE p = "http" -> HttpMethod(verb)
    [] p = "coap" -> CoapMethod(verb)
    [] p \in {"mqtt", "zenoh"} -> TopicMethod(verb)
    [] p = "ws" -> verb

-----------------------------------------------------------------------------
(* What the servers make of a request: area, method and verb.              *)

HttpRoutes ==
  {<<"property", "GET", "read">>, <<"property", "PUT", "write">>,
   <<"property/subscription", "GET", "observe">>, <<"action", "POST", "invoke">>,
   <<"event/subscription", "GET", "subscribe">>}

CoapRoutes ==
  {<<"property", "GET", "read">>, <<"property", "PUT", "write">>,
   <<"property", "GET with observe", "observe">>, <<"action", "POST", "invoke">>,
   <<"event", "GET with observe", "subscribe">>}

MqttRoutes ==
  {<<"requests", "read", "read">>, <<"requests", "write", "write">>, <<"updates", "listen", "observe">>,
   <<"invocation", "publish", "invoke">>, <<"event", "listen", "subscribe">>}

ZenohRoutes == MqttRoutes

WsRoutes == {<<"thing", v, v>> : v \in Verbs}

Routes ==
  [http |-> HttpRoutes, coap |-> CoapRoutes, mqtt |-> MqttRoutes, zenoh |-> ZenohRoutes, ws |-> WsRoutes]

(* The verbs as which the request of a client for a verb is served: one or *)
(* none.                                                                   *)
RoutedTo(p, verb) ==
  {v \in Verbs : <<AreaFor(p, verb), MethodFor(p, verb), v>> \in Routes[p]}
=============================================================================
