-------------------------- MODULE ConsumptionProofs --------------------------
(***************************************************************************)
(* Proofs about names, forms and calls: whatever is added to or removed    *)
(* from a thing, a call reaches what the description it was made with      *)
(* spoke of.                                                               *)
(***************************************************************************)
EXTENDS Consumption, SequenceTheorems, TLAPS

-----------------------------------------------------------------------------
(* Forms and routes.                                                       *)

(* The place of a form or of a client in its list.                         *)
LEMMA MinOfPlaces ==
  ASSUME NEW S, S \subseteq 1..5, S # {}
  PROVE  Min(S) \in S /\ \A y \in S : Min(S) <= y
<1>1. \E x \in S : \A y \in S : x <= y
  <2>1. CASE 1 \in S
    BY <2>1
  <2>2. CASE 1 \notin S /\ 2 \in S
    BY <2>2
  <2>3. CASE 1 \notin S /\ 2 \notin S /\ 3 \in S
    BY <2>3
  <2>4. CASE 1 \notin S /\ 2 \notin S /\ 3 \notin S /\ 4 \in S
    BY <2>4
  <2>5. CASE 1 \notin S /\ 2 \notin S /\ 3 \notin S /\ 4 \notin S
    <3>1. \A y \in S : y = 5
      BY <2>5
    <3>2. 5 \in S
      BY <3>1
    <3> QED
      BY <3>1, <3>2
  <2> QED
    BY <2>1, <2>2, <2>3, <2>4, <2>5
<1> QED
  BY <1>1 DEF Min

(* A verb belongs to one kind of interaction.                              *)
LEMMA KindOfVerb ==
  ASSUME NEW k \in Kinds, NEW verb \in VerbsOf[k]
  PROVE  KindOf(verb) = k /\ verb \in Verbs
<1>1. VerbsOf["property"] = {"read", "write", "observe"} /\ VerbsOf["action"] = {"invoke"}
      /\ VerbsOf["event"] = {"subscribe"}
  BY DEF VerbsOf
<1>2. \A j \in Kinds : verb \in VerbsOf[j] => j = k
  BY <1>1 DEF Kinds
<1>3. KindOf(verb) = k
  BY <1>2 DEF KindOf
<1> QED
  BY <1>3 DEF Verbs

(* The form that is picked is one of the list, and has the operation.      *)
LEMMA Picked ==
  ASSUME NEW p \in Protocols, NEW k \in Kinds, NEW op, Fitting(p, k, op) # {}
  PROVE  \E i \in DOMAIN ServerForms[p][k] :
           /\ PickForm(p, k, op) = ServerForms[p][k][i] /\ Fits(ServerForms[p][k][i], op)
           /\ \A j \in DOMAIN ServerForms[p][k] : Fits(ServerForms[p][k][j], op) => i <= j
<1>1. DOMAIN ServerForms[p][k] \subseteq 1..5
  BY DEF ServerForms, HttpForms, CoapForms, MqttForms, ZenohForms, WsForms, Protocols, Kinds
<1>2. Min(Fitting(p, k, op)) \in Fitting(p, k, op) /\ \A j \in Fitting(p, k, op) : Min(Fitting(p, k, op)) <= j
  BY <1>1, MinOfPlaces DEF Fitting
<1> QED
  BY <1>2 DEF Fitting, PickForm

(* Which form each verb is sent to over HTTP, where the method is the same *)
(* for three of them.                                                      *)
LEMMA HttpAreas ==
  /\ AreaFor("http", "read") = "property"
  /\ AreaFor("http", "observe") = "property/subscription"
  /\ AreaFor("http", "invoke") = "action"
  /\ AreaFor("http", "subscribe") = "event/subscription"
<1> USE DEF ServerForms, HttpForms, Form, Fits, Fitting
<1>1. "http" \in Protocols /\ \A k \in Kinds : \A v \in VerbsOf[k] : KindOf(v) = k
  BY KindOfVerb DEF Protocols
<1>2. KindOf("read") = "property" /\ KindOf("observe") = "property" /\ KindOf("invoke") = "action"
      /\ KindOf("subscribe") = "event" /\ {"property", "action", "event"} = Kinds
  BY <1>1 DEF Kinds, VerbsOf
<1>3. AreaFor("http", "read") = PickForm("http", "property", "any").area
  BY <1>2 DEF AreaFor, AskedOp, HttpOp
<1>4. AreaFor("http", "observe") = PickForm("http", "property", "observe").area
  BY <1>2 DEF AreaFor, AskedOp, HttpOp
<1>5. AreaFor("http", "invoke") = PickForm("http", "action", "any").area
  BY <1>2 DEF AreaFor, AskedOp, HttpOp
<1>6. AreaFor("http", "subscribe") = PickForm("http", "event", "any").area
  BY <1>2 DEF AreaFor, AskedOp, HttpOp
<1>7. PickForm("http", "property", "any").area = "property"
  <2>1. ServerForms["http"]["property"] =
          <<Form("property", {"read", "write"}), Form("property/subscription", {"observe"})>>
    OBVIOUS
  <2>a. DOMAIN ServerForms["http"]["property"] = 1..2 /\ Fits(ServerForms["http"]["property"][1], "any")
    BY <2>1
  <2>b. Fitting("http", "property", "any") # {}
    BY <2>a
  <2>2. PICK i \in 1..2 : PickForm("http", "property", "any") = ServerForms["http"]["property"][i] /\ i <= 1
    <3> HIDE DEF Fits, Fitting, ServerForms
    <3> QED
      BY <1>1, <1>2, <2>a, <2>b, Picked
  <2>3. i = 1
    BY <2>2
  <2> QED
    BY <2>1, <2>2, <2>3
<1>8. PickForm("http", "property", "observe").area = "property/subscription"
  <2>1. ServerForms["http"]["property"] =
          <<Form("property", {"read", "write"}), Form("property/subscription", {"observe"})>>
    OBVIOUS
  <2>a. DOMAIN ServerForms["http"]["property"] = 1..2 /\ Fits(ServerForms["http"]["property"][2], "observe")
    BY <2>1
  <2>b. Fitting("http", "property", "observe") # {}
    BY <2>a
  <2>2. PICK i \in 1..2 : /\ PickForm("http", "property", "observe") = ServerForms["http"]["property"][i]
                         /\ Fits(ServerForms["http"]["property"][i], "observe")
    <3> HIDE DEF Fits, Fitting, ServerForms
    <3> QED
      BY <1>1, <1>2, <2>a, <2>b, Picked
  <2>3. i = 2
    BY <2>1, <2>2
  <2> QED
    BY <2>1, <2>2, <2>3
<1>9. PickForm("http", "action", "any").area = "action"
  <2>1. 1 \in Fitting("http", "action", "any")
    OBVIOUS
  <2> QED
    BY <1>1, <1>2, <2>1, Picked, SMTT(30)
<1>10. PickForm("http", "event", "any").area = "event/subscription"
  <2>1. 1 \in Fitting("http", "event", "any")
    OBVIOUS
  <2> QED
    BY <1>1, <1>2, <2>1, Picked, SMTT(30)
<1> QED
  BY <1>3, <1>4, <1>5, <1>6, <1>7, <1>8, <1>9, <1>10

(* Over CoAP and the brokers what is observed is told apart by the area.   *)
LEMMA ObservedAreas ==
  /\ AreaFor("coap", "observe") = "property" /\ AreaFor("coap", "subscribe") = "event"
  /\ \A p \in {"mqtt", "zenoh"} : AreaFor(p, "observe") = "updates" /\ AreaFor(p, "subscribe") = "event"
<1>1. /\ \A k \in Kinds : \A v \in VerbsOf[k] : KindOf(v) = k
      /\ Protocols = {"http", "ws", "coap", "mqtt", "zenoh"} /\ Kinds = {"property", "action", "event"}
  BY KindOfVerb DEF Protocols, Kinds
<1>2. KindOf("observe") = "property" /\ KindOf("subscribe") = "event"
  BY <1>1 DEF VerbsOf
<1>3. \A p \in {"coap", "mqtt", "zenoh"} :
        /\ AreaFor(p, "observe") = PickForm(p, "property", "observe").area
        /\ AreaFor(p, "subscribe") = PickForm(p, "event", "subscribe").area
  BY <1>2 DEF AreaFor, AskedOp, CoapOp, MqttOp, ZenohOp
<1>4. ASSUME NEW p \in {"coap", "mqtt", "zenoh"}
      PROVE  /\ ServerForms[p]["event"] = <<Form("event", {"subscribe"})>>
             /\ DOMAIN ServerForms[p]["property"] = 1..3
             /\ ServerForms[p]["property"][3] = Form(IF p = "coap" THEN "property" ELSE "updates", {"observe"})
             /\ ServerForms[p]["property"][1].ops = {"read"} /\ ServerForms[p]["property"][2].ops = {"write"}
  <2>1. ServerForms["coap"] = CoapForms /\ ServerForms["mqtt"] = MqttForms /\ ServerForms["zenoh"] = MqttForms
    BY DEF ServerForms, ZenohForms
  <2>2. CASE p = "coap"
    BY <2>1, <2>2 DEF CoapForms, Form
  <2>3. CASE p # "coap"
    <3>1. ServerForms[p] = MqttForms
      BY <2>1, <2>3
    <3> QED
      BY <2>3, <3>1 DEF MqttForms, Form
  <2> QED
    BY <2>2, <2>3
<1>5. ASSUME NEW p \in {"coap", "mqtt", "zenoh"} PROVE PickForm(p, "event", "subscribe").area = "event"
  <2>1. 1 \in Fitting(p, "event", "subscribe") /\ \A i \in DOMAIN ServerForms[p]["event"] : i = 1
    BY <1>4 DEF Fitting, Fits, Form
  <2>2. PickForm(p, "event", "subscribe") = ServerForms[p]["event"][1]
    BY <1>1, <2>1, Picked
  <2> QED
    BY <1>4, <2>2 DEF Form
<1>6. ASSUME NEW p \in {"coap", "mqtt", "zenoh"}
      PROVE  PickForm(p, "property", "observe").area = IF p = "coap" THEN "property" ELSE "updates"
  <2>1. 3 \in Fitting(p, "property", "observe")
    BY <1>4 DEF Fitting, Fits, Form
  <2>2. \A i \in DOMAIN ServerForms[p]["property"] : Fits(ServerForms[p]["property"][i], "observe") => i = 3
    <3> TAKE i \in DOMAIN ServerForms[p]["property"]
    <3>1. i = 1 \/ i = 2 \/ i = 3
      BY <1>4
    <3> QED
      BY <1>4, <3>1 DEF Fits
  <2>3. PickForm(p, "property", "observe") = ServerForms[p]["property"][3]
    BY <1>1, <2>1, <2>2, Picked
  <2> QED
    BY <1>4, <2>3 DEF Form
<1> QED
  BY <1>3, <1>5, <1>6

(* A request is served as the verb that was meant, or not at all.          *)
LEMMA RoutedAsMeant ==
  ASSUME NEW p \in Protocols, NEW verb \in Verbs, NEW v \in RoutedTo(p, verb)
  PROVE  v = verb
<1> USE DEF MethodFor
<1>1. Verbs = {"read", "write", "observe", "invoke", "subscribe"}
  BY DEF Verbs, Kinds, VerbsOf
<1>2. v \in Verbs /\ <<AreaFor(p, verb), MethodFor(p, verb), v>> \in Routes[p]
  BY DEF RoutedTo
<1>3. CASE p = "ws"
  BY <1>2, <1>3 DEF Routes, WsRoutes
<1>4. CASE p = "http"
  BY <1>1, <1>2, <1>4, HttpAreas DEF Routes, HttpRoutes, HttpMethod
<1>5. CASE p = "coap"
  BY <1>1, <1>2, <1>5, ObservedAreas DEF Routes, CoapRoutes, CoapMethod
<1>6. CASE p \in {"mqtt", "zenoh"}
  BY <1>1, <1>2, <1>6, ObservedAreas DEF Routes, MqttRoutes, ZenohRoutes, TopicMethod
<1> QED
  BY <1>3, <1>4, <1>5, <1>6 DEF Protocols

(* The address of a signed request is one under which tokens are kept.     *)
LEMMA HttpAddress ==
  ASSUME NEW r, r.client = "http", r.verb \in {"read", "observe", "invoke", "subscribe"},
         r.entry.name \in Names
  PROVE  UrlOf(r) \in Urls
<1>1. {"property", "property/subscription", "action", "event/subscription"}
        \subseteq {f.area : f \in UNION {Range(HttpForms[k]) : k \in Kinds}}
  <2>1. HttpForms["property"][1].area = "property" /\ HttpForms["property"][2].area = "property/subscription"
        /\ HttpForms["action"][1].area = "action" /\ HttpForms["event"][1].area = "event/subscription"
    BY DEF HttpForms, Form
  <2>2. /\ HttpForms["property"][1] \in Range(HttpForms["property"])
        /\ HttpForms["property"][2] \in Range(HttpForms["property"])
        /\ HttpForms["action"][1] \in Range(HttpForms["action"])
        /\ HttpForms["event"][1] \in Range(HttpForms["event"])
    BY DEF HttpForms, Range
  <2> QED
    BY <2>1, <2>2 DEF Kinds
<1>2. UrlNameOf[r.entry.name] \in Names
  BY InteractionsAssumption
<1>3. AreaFor(r.client, r.verb) \in {"property", "property/subscription", "action", "event/subscription"}
  BY HttpAreas
<1> QED
  BY <1>1, <1>2, <1>3 DEF UrlOf, Urls

-----------------------------------------------------------------------------
(* The interactions of the thing.                                          *)

(* Every interaction was made once, and its URL name is its own.           *)
ThingInv ==
  /\ setup \in Scenarios /\ edits \in Nat /\ {exposed, consumed} \subseteq BOOLEAN
  /\ InteractionsTypeOK /\ NamesDistinct
  /\ \A i, j \in interactions : i.id = j.id => i = j

(* What e says of an interaction is true of it if it is still there.       *)
Known(e) ==
  /\ e \in Entry /\ e.id <= made
  /\ \A i \in interactions : i.id = e.id => i.name = e.name /\ i.kind = e.kind

(* A thing that has just been produced has at most one interaction.        *)
LEMMA ThingInit == Init => ThingInv
<1> SUFFICES ASSUME Init PROVE ThingInv
  OBVIOUS
<1> USE InteractionsAssumption, ConsumptionAssumption DEF Init, InteractionsInit
<1>1. InteractionsTypeOK
  <2>1. interactions \subseteq Interaction /\ made \in 0..MaxIds /\ \A i \in interactions : i.id <= made
    BY DEF Interaction, Ids
  <2> QED
    BY <2>1 DEF InteractionsTypeOK
<1>2. NamesDistinct /\ \A i, j \in interactions : i.id = j.id => i = j
  BY DEF NamesDistinct
<1> QED
  BY <1>1, <1>2 DEF ThingInv

(* The interactions only change by an addition that is not a duplicate, or *)
(* by removals.                                                            *)
LEMMA EditsKeep ==
  ASSUME ThingInv, EditInteractions
  PROVE  /\ ThingInv' /\ made <= made' /\ setup' = setup
         /\ \A i \in interactions' : i \in interactions \/ i.id = made + 1
<1> USE InteractionsAssumption
<1>0. /\ setup \in Scenarios /\ edits \in Nat /\ {exposed, consumed} \subseteq BOOLEAN /\ made \in 0..MaxIds
      /\ interactions \subseteq Interaction /\ handled \subseteq 1..made
      /\ forms \in [Ids -> SUBSET Protocols]
      /\ \A i \in interactions : i.id <= made
  BY DEF ThingInv, InteractionsTypeOK
<1>1. setup' = setup /\ edits' \in Nat /\ {exposed', consumed'} \subseteq BOOLEAN
  BY <1>0 DEF EditInteractions, Edit, consumerVars
<1>2. ASSUME NEW kind \in Kinds, NEW n \in Names, AddInteraction(kind, n), handled' \subseteq 1..made'
      PROVE  /\ InteractionsTypeOK' /\ NamesDistinct' /\ made <= made'
             /\ \A i, j \in interactions' : i.id = j.id => i = j
             /\ \A i \in interactions' : i \in interactions \/ i.id = made + 1
  <2> DEFINE new == [id |-> made + 1, name |-> n, kind |-> kind]
  <2>1. /\ made < MaxIds /\ made' = made + 1 /\ interactions' = interactions \cup {new} /\ forms' = forms
        /\ new \in Interaction /\ new.id = made + 1 /\ new.name = n
    BY <1>0, <1>2 DEF AddInteraction, Interaction, Ids
  <2>2. \A i \in interactions : UrlNameOf[i.name] # UrlNameOf[n]
    BY <1>2 DEF AddInteraction, Duplicate, Found
  <2>3. \A i \in interactions : i.id # made + 1
    BY <1>0 DEF Interaction, Ids
  <2> HIDE DEF new
  <2>4. InteractionsTypeOK'
    <3>1. interactions' \subseteq Interaction /\ made' \in 0..MaxIds /\ forms' \in [Ids -> SUBSET Protocols]
      BY <1>0, <2>1
    <3>2. \A i \in interactions' : i.id <= made'
      BY <1>0, <2>1 DEF Interaction, Ids
    <3> QED
      BY <1>2, <3>1, <3>2 DEF InteractionsTypeOK
  <2>5. NamesDistinct'
    BY <2>1, <2>2 DEF ThingInv, NamesDistinct
  <2>6. \A i, j \in interactions' : i.id = j.id => i = j
    BY <2>1, <2>3 DEF ThingInv
  <2> QED
    BY <1>0, <2>1, <2>4, <2>5, <2>6
<1>3. ASSUME interactions' \subseteq interactions, made' = made, forms' = forms, handled' \subseteq 1..made
      PROVE  /\ InteractionsTypeOK' /\ NamesDistinct' /\ made <= made'
             /\ \A i, j \in interactions' : i.id = j.id => i = j
             /\ \A i \in interactions' : i \in interactions \/ i.id = made + 1
  BY <1>0, <1>3 DEF ThingInv, InteractionsTypeOK, NamesDistinct
<1>4. PICK n \in Names : \/ AddProperty(n) \/ AddAction(n) \/ AddEvent(n) \/ RemoveInteraction(n)
                         \/ \E k \in Kinds : SetHandler(k, n)
  BY DEF EditInteractions
<1>5. CASE AddProperty(n) \/ AddAction(n) \/ AddEvent(n)
  <2>1. \E kind \in Kinds : AddInteraction(kind, n)
    BY <1>5 DEF AddProperty, AddAction, AddEvent, Kinds
  <2>2. handled' \subseteq 1..made'
    <3>1. made' = made + 1 /\ (handled' = handled \/ handled' = handled \cup {made + 1})
      BY <1>5 DEF AddProperty, AddAction, AddEvent, AddInteraction
    <3>2. 1..made \subseteq 1..(made + 1) /\ made + 1 \in 1..(made + 1)
      BY <1>0
    <3> QED
      BY <1>0, <3>1, <3>2
  <2> QED
    BY <1>1, <1>2, <2>1, <2>2 DEF ThingInv
<1>6. CASE RemoveInteraction(n)
  BY <1>0, <1>1, <1>3, <1>6 DEF ThingInv, RemoveInteraction, Without
<1>7. CASE \E k \in Kinds : SetHandler(k, n)
  <2>1. PICK i \in interactions : handled' = handled \cup {i.id} /\ UNCHANGED <<interactions, made, forms>>
    BY <1>7 DEF SetHandler
  <2>2. i.id \in 1..made
    BY <1>0 DEF Interaction, Ids
  <2> QED
    BY <1>0, <1>1, <1>3, <2>1, <2>2 DEF ThingInv
<1> QED
  BY <1>4, <1>5, <1>6, <1>7

(* Steps that leave the interactions alone keep what holds of them.        *)
LEMMA FormsKeep ==
  ASSUME ThingInv, (\E on \in BOOLEAN : SetExposed(on)) \/ RefreshForms
  PROVE  ThingInv' /\ UNCHANGED <<made, interactions, setup>>
<1>1. \E on \in BOOLEAN : forms' = [i \in Ids |-> IF \E j \in interactions : j.id = i
                                              THEN (IF on THEN setup.servers ELSE {}) ELSE forms[i]]
  BY DEF ThingInv, SetExposed, RefreshForms, BuildForms
<1>2. forms' \in [Ids -> SUBSET Protocols]
  BY <1>1, ConsumptionAssumption DEF ThingInv, InteractionsTypeOK
<1>3. /\ UNCHANGED <<made, interactions, setup, handled, consumed>> /\ edits' \in Nat /\ exposed' \in BOOLEAN
  BY DEF ThingInv, SetExposed, RefreshForms, Edit, consumerVars
<1> QED
  BY <1>2, <1>3 DEF ThingInv, InteractionsTypeOK, NamesDistinct

(* What is known of an interaction stays true.                             *)
LEMMA KnownStays ==
  ASSUME ThingInv, NEW e, Known(e), made <= made', made' \in Nat,
         \A i \in interactions' : i \in interactions \/ i.id = made + 1
  PROVE  Known(e)'
<1>1. e.id \in Nat /\ e.id <= made /\ made \in Nat
  BY DEF Known, Entry, Ids, ThingInv, InteractionsTypeOK
<1> QED
  BY <1>1 DEF Known

-----------------------------------------------------------------------------
(* Calls.                                                                  *)

(* What a call is from the moment it is begun.                             *)
Begun ==
  [phase : {"begun", "asking", "issued", "sent", "refused"} \cup Ended, entry : Entry, verb : Verbs,
   client : Protocols, creds : {"none", "right", "wrong"}, token : 0..MaxTokens,
   before : 0..MaxTokens, did : Verbs \cup {"nothing"}, by : {0} \cup Ids, attempt : 1..2]

(* A call knows its interaction; a second attempt is that of a read over   *)
(* HTTP, whose token is newer than all that there were when it began.      *)
CallInv(r) ==
  /\ Known(r.entry) /\ r.verb \in VerbsOf[r.entry.kind]
  /\ r.token <= issued /\ r.before <= issued
  /\ r.phase \in {"asking", "issued"} => r.client = "http" /\ r.verb # "write"
  /\ r.attempt = 2 =>
       /\ r.client = "http" /\ r.verb = "read" /\ setup.credential = "token"
       /\ r.phase \in {"issued", "sent"} => r.token > r.before

TokensInv == issued \in 0..MaxTokens /\ expired \in 0..issued /\ tokens \in [Urls -> 0..issued]

CallsInv ==
  /\ ThingInv /\ TokensInv
  /\ \A e \in td : Known(e)
  /\ call \in [Calls -> {Idle} \cup Request]
  /\ \A c \in Calls : call[c] # Idle => CallInv(call[c])

(* The phase of a request is one of those it can be in.                    *)
LEMMA RequestBegun ==
  ASSUME NEW r \in Request
  PROVE  r \in Begun /\ r # Idle /\ r.phase # "idle"
<1>1. r.phase \in {"asking", "issued", "sent", "refused"} \cup Ended
  BY DEF Request
<1>2. r.phase # "idle" /\ Idle.phase = "idle"
  BY <1>1 DEF Ended, Idle
<1>3. r \in Begun
  BY DEF Request, Begun, Ended
<1> QED
  BY <1>2, <1>3

(* What signing makes of a request.                                        *)
LEMMA Signed ==
  ASSUME TokensInv, setup \in Scenarios, NEW r \in Begun, r.token = 0,
         NEW table \in [Urls -> 0..issued]
  PROVE  /\ Sign(r, table) \in Request /\ Sign(r, table).phase \in {"asking", "sent", "failed"}
         /\ Sign(r, table).entry = r.entry /\ Sign(r, table).verb = r.verb
         /\ Sign(r, table).client = r.client /\ Sign(r, table).attempt = r.attempt
         /\ Sign(r, table).before = r.before /\ Sign(r, table).token \in 0..issued
         /\ Sign(r, table).phase = "asking" => r.client = "http" /\ r.verb # "write"
         /\ r.client = "http" /\ r.verb = "read" /\ setup.credential = "token" /\ table[UrlOf(r)] = 0
              => Sign(r, table).phase = "asking"
<1> SUFFICES ASSUME NEW s, s = Sign(r, table)
    PROVE  /\ s \in Request /\ s.phase \in {"asking", "sent", "failed"}
           /\ s.entry = r.entry /\ s.verb = r.verb /\ s.client = r.client /\ s.attempt = r.attempt
           /\ s.before = r.before /\ s.token \in 0..issued
           /\ s.phase = "asking" => r.client = "http" /\ r.verb # "write"
           /\ r.client = "http" /\ r.verb = "read" /\ setup.credential = "token" /\ table[UrlOf(r)] = 0
                => s.phase = "asking"
  OBVIOUS
<1>0. /\ issued \in 0..MaxTokens /\ MaxTokens \in Nat /\ 0 \in 0..MaxTokens /\ 0 \in 0..issued
      /\ 0..issued \subseteq 0..MaxTokens
      /\ setup.credential \in {"none", "right", "wrong", "token", "unsupported"}
  BY ConsumptionAssumption DEF TokensInv
<1>1. ASSUME NEW ph \in {"asking", "sent", "failed"}, NEW cr \in {"none", "right", "wrong"},
             NEW t \in 0..issued,
             s = [r EXCEPT !.phase = ph, !.creds = cr, !.token = t]
      PROVE  /\ s \in Request /\ s.phase = ph
             /\ s.entry = r.entry /\ s.verb = r.verb /\ s.client = r.client /\ s.attempt = r.attempt
             /\ s.before = r.before /\ s.token = t
  <2>1. t \in 0..MaxTokens
    BY <1>0
  <2>2. /\ s.phase = ph /\ s.entry = r.entry /\ s.verb = r.verb /\ s.client = r.client
        /\ s.attempt = r.attempt
        /\ s.before = r.before /\ s.token = t
    BY <1>1 DEF Begun
  <2>3. s \in Request
    BY <1>1, <2>1 DEF Begun, Request, Ended
  <2> QED
    BY <2>2, <2>3
<1>2. /\ [r EXCEPT !.phase = "sent"] = [r EXCEPT !.phase = "sent", !.creds = r.creds, !.token = r.token]
      /\ [r EXCEPT !.phase = "failed"] = [r EXCEPT !.phase = "failed", !.creds = r.creds, !.token = r.token]
      /\ [r EXCEPT !.phase = "asking"] = [r EXCEPT !.phase = "asking", !.creds = r.creds, !.token = r.token]
      /\ \A cr : [r EXCEPT !.phase = "sent", !.creds = cr]
                 = [r EXCEPT !.phase = "sent", !.creds = cr, !.token = r.token]
      /\ \A t : [r EXCEPT !.phase = "sent", !.token = t]
                 = [r EXCEPT !.phase = "sent", !.creds = r.creds, !.token = t]
  BY DEF Begun
<1>3. r.creds \in {"none", "right", "wrong"} /\ r.token \in 0..issued
  BY <1>0 DEF Begun
<1>4. CASE ~Signs(r.client, r.verb) \/ ~HasCredential(r.client)
  <2>1. s = [r EXCEPT !.phase = "sent", !.creds = r.creds, !.token = r.token]
    BY <1>2, <1>4 DEF Sign
  <2>2. ~(r.client = "http" /\ r.verb = "read" /\ setup.credential = "token")
    BY <1>4 DEF Signs, HasCredential
  <2> QED
    BY <1>0, <1>1, <1>3, <2>1, <2>2
<1>5. CASE Signs(r.client, r.verb) /\ HasCredential(r.client) /\ setup.credential = "unsupported"
  <2>1. s = [r EXCEPT !.phase = "failed", !.creds = r.creds, !.token = r.token]
    BY <1>2, <1>5 DEF Sign
  <2> QED
    BY <1>0, <1>1, <1>3, <1>5, <2>1
<1>6. CASE Signs(r.client, r.verb) /\ HasCredential(r.client) /\ setup.credential \in {"right", "wrong"}
  <2>1. s = [r EXCEPT !.phase = "sent", !.creds = setup.credential, !.token = r.token]
    BY <1>2, <1>6 DEF Sign, WithCredential
  <2> QED
    BY <1>0, <1>1, <1>3, <1>6, <2>1
<1>7. CASE Signs(r.client, r.verb) /\ HasCredential(r.client) /\ setup.credential = "token"
  <2>1. r.client = "http" /\ r.verb # "write"
    BY <1>7 DEF Signs, HasCredential
  <2>2. CASE table[UrlOf(r)] = 0
    <3>1. s = [r EXCEPT !.phase = "asking", !.creds = r.creds, !.token = r.token]
      BY <1>2, <1>7, <2>2 DEF Sign
    <3> QED
      BY <1>0, <1>1, <1>3, <2>1, <3>1
  <2>3. CASE table[UrlOf(r)] # 0
    <3>1. s = [r EXCEPT !.phase = "sent", !.creds = r.creds, !.token = table[UrlOf(r)]]
      BY <1>2, <1>7, <2>3 DEF Sign
    <3>2. table[UrlOf(r)] \in 0..issued
      <4>1. r.verb \in {"read", "observe", "invoke", "subscribe"} /\ r.entry.name \in Names
        BY <2>1 DEF Begun, Verbs, Kinds, VerbsOf, Entry
      <4> QED
        BY <2>1, <4>1, HttpAddress
    <3>3. /\ s \in Request /\ s.phase = "sent" /\ s.token = table[UrlOf(r)]
          /\ s.entry = r.entry /\ s.verb = r.verb /\ s.client = r.client
          /\ s.attempt = r.attempt /\ s.before = r.before
      BY <1>1, <1>3, <3>1, <3>2
    <3> QED
      BY <1>0, <2>3, <3>2, <3>3
  <2> QED
    BY <2>2, <2>3
<1>8. setup.credential \in {"right", "wrong", "token", "unsupported"} \/ ~HasCredential(r.client)
  BY <1>0 DEF HasCredential
<1> QED
  BY <1>4, <1>5, <1>6, <1>7, <1>8

(* At the beginning nothing is known and nothing is called.                *)
LEMMA CallsInit == Init => CallsInv
<1> SUFFICES ASSUME Init PROVE CallsInv
  OBVIOUS
<1>1. ThingInv
  BY ThingInit
<1>2. TokensInv
  BY ConsumptionAssumption DEF Init, TokensInv
<1> QED
  BY <1>1, <1>2 DEF Init, CallsInv

(* The steps of the consumer and of the servers leave the thing alone.     *)
LEMMA ThingUntouched ==
  ASSUME ThingInv, UnchangedThing, consumed' \in BOOLEAN
  PROVE  ThingInv' /\ UNCHANGED <<setup, exposed, made, interactions>> /\ \A e : Known(e) => Known(e)'
<1>1. UNCHANGED <<setup, edits, exposed, interactions, made, forms, handled>>
  BY DEF UnchangedThing, interactionVars
<1> QED
  BY <1>1 DEF ThingInv, InteractionsTypeOK, NamesDistinct, Known

(* Whatever the application of the thing does, the calls stay as they are. *)
LEMMA ThingStep ==
  ASSUME CallsInv, (\E on \in BOOLEAN : SetExposed(on)) \/ RefreshForms \/ EditInteractions
  PROVE  CallsInv'
<1>1. UNCHANGED <<td, consumed, call, tokens, issued, expired>>
  BY DEF SetExposed, RefreshForms, EditInteractions, Edit, consumerVars
<1>2. /\ ThingInv' /\ setup' = setup /\ made <= made' /\ made' \in Nat
      /\ \A i \in interactions' : i \in interactions \/ i.id = made + 1
  <2>1. CASE EditInteractions
    BY <2>1, EditsKeep DEF CallsInv, ThingInv, InteractionsTypeOK
  <2>2. CASE (\E on \in BOOLEAN : SetExposed(on)) \/ RefreshForms
    BY <2>2, FormsKeep DEF CallsInv, ThingInv, InteractionsTypeOK
  <2> QED
    BY <2>1, <2>2
<1>3. ASSUME NEW e, Known(e) PROVE Known(e)'
  BY <1>2, <1>3, KnownStays DEF CallsInv
<1>4. \A e \in td' : Known(e)'
  BY <1>1, <1>3 DEF CallsInv
<1>5. \A c \in Calls : call'[c] # Idle => CallInv(call[c])'
  BY <1>1, <1>2, <1>3 DEF CallsInv, CallInv
<1>6. TokensInv'
  BY <1>1 DEF CallsInv, TokensInv
<1> QED
  BY <1>1, <1>2, <1>4, <1>5, <1>6 DEF CallsInv

(* A step that changes one call has only that call to answer for.          *)
LEMMA CallStep ==
  ASSUME CallsInv, UnchangedThing, td' = td, consumed' \in BOOLEAN, TokensInv', issued <= issued',
         NEW c \in Calls, NEW r \in Request, call' = [call EXCEPT ![c] = r], CallInv(r)'
  PROVE  CallsInv'
<1>1. ThingInv' /\ UNCHANGED setup /\ \A e : Known(e) => Known(e)'
  BY ThingUntouched DEF CallsInv
<1>2. \A e \in td' : Known(e)'
  BY <1>1 DEF CallsInv
<1>3. call' \in [Calls -> {Idle} \cup Request] /\ \A d \in Calls : call'[d] = IF d = c THEN r ELSE call[d]
  BY DEF CallsInv
<1>4. ASSUME NEW d \in Calls, d # c, call[d] # Idle PROVE CallInv(call[d])'
  <2>1. CallInv(call[d]) /\ call[d] \in Request
    BY <1>4 DEF CallsInv
  <2>2. call'[d] = call[d]
    BY <1>3, <1>4
  <2>3. call[d].token <= issued' /\ call[d].before <= issued'
    <3>1. call[d].token \in Nat /\ call[d].before \in Nat /\ issued \in Nat /\ issued' \in Nat
      BY <2>1, ConsumptionAssumption DEF CallsInv, TokensInv, Request
    <3> QED
      BY <2>1, <3>1 DEF CallInv
  <2> QED
    BY <1>1, <2>1, <2>2, <2>3 DEF CallInv
<1>5. \A d \in Calls : (call[d] # Idle => CallInv(call[d]))'
  <2> TAKE d \in Calls
  <2>1. CASE d = c
    BY <1>3, <2>1 DEF CallInv
  <2>2. CASE d # c
    BY <1>3, <1>4, <2>2 DEF CallInv
  <2> QED
    BY <2>1, <2>2
<1> QED
  BY <1>1, <1>2, <1>3, <1>5 DEF CallsInv

(* The client that is selected is one of those of the servient.            *)
LEMMA SelectedIsClient ==
  ASSUME setup \in Scenarios, NEW entry, entry.kind \in Kinds
  PROVE  SelectClient(entry) \in Range(setup.clients) /\ SelectClient(entry) \in Protocols
<1> DEFINE order == Preference[entry.kind]
           choices == {i \in DOMAIN order : order[i] \in Range(setup.clients) /\ Supports(order[i], entry)}
<1>1. setup.clients \in Seq(Protocols) /\ setup.clients # <<>>
  BY ConsumptionAssumption
<1>2. Range(setup.clients) \subseteq Protocols /\ Head(setup.clients) \in Range(setup.clients)
  <2>1. Head(setup.clients) = setup.clients[1] /\ 1 \in DOMAIN setup.clients
    BY <1>1, EmptySeq
  <2>2. \A i \in DOMAIN setup.clients : setup.clients[i] \in Protocols
    BY <1>1
  <2> QED
    BY <2>1, <2>2 DEF Range
<1>3. DOMAIN order \subseteq 1..5
  BY DEF Preference, Kinds
<1>4. CASE choices # {}
  <2>1. Min(choices) \in choices
    BY <1>3, <1>4, MinOfPlaces
  <2>2. SelectClient(entry) = order[Min(choices)]
    BY <1>4 DEF SelectClient
  <2>3. order[Min(choices)] \in Range(setup.clients)
    BY <2>1
  <2> QED
    BY <1>2, <2>2, <2>3
<1>5. CASE choices = {}
  <2>1. SelectClient(entry) = Head(setup.clients)
    BY <1>5 DEF SelectClient
  <2> QED
    BY <1>2, <2>1
<1> QED
  BY <1>4, <1>5

(* Each server has a form for every verb of an interaction.                *)
LEMMA AllCanPick ==
  ASSUME NEW p \in Protocols, NEW verb \in Verbs
  PROVE  CanPick(p, verb)
<1>1. PICK k \in Kinds : verb \in VerbsOf[k]
  BY DEF Verbs
<1>2. KindOf(verb) = k
  BY <1>1, KindOfVerb
<1>3. /\ k \in {"property", "action", "event"}
      /\ k = "property" => verb \in {"read", "write", "observe"}
      /\ k = "action" => verb = "invoke"
      /\ k = "event" => verb = "subscribe"
  BY <1>1 DEF Kinds, VerbsOf
<1> USE DEF Form, Fits, Fitting, AskedOp, AlsoAsked
<1>4. CASE p = "ws"
  <2>1. 1 \in Fitting(p, k, "any")
    BY <1>4 DEF ServerForms, WsForms
  <2> QED
    BY <1>2, <1>4, <2>1 DEF CanPick, WsOp
<1>5. CASE p = "http"
  <2>1. 1 \in Fitting(p, k, "any") /\ 2 \in Fitting(p, "property", "observe")
    BY <1>3, <1>5 DEF ServerForms, HttpForms
  <2>2. verb = "observe" => k = "property"
    BY <1>3
  <2> QED
    BY <1>2, <1>5, <2>1, <2>2 DEF CanPick, HttpOp
<1>6. CASE p \in {"coap", "mqtt", "zenoh"}
  <2>1. /\ 1 \in Fitting(p, k, "any")
        /\ 1 \in Fitting(p, "property", "read") /\ 2 \in Fitting(p, "property", "write")
        /\ 3 \in Fitting(p, "property", "observe")
        /\ 1 \in Fitting(p, "action", "invoke") /\ 1 \in Fitting(p, "event", "subscribe")
    <3>1. CASE p = "coap"
      BY <1>3, <3>1 DEF ServerForms, CoapForms
    <3>2. CASE p # "coap"
      <4>1. ServerForms[p] = MqttForms
        BY <1>6, <3>2 DEF ServerForms, ZenohForms
      <4> QED
        BY <1>3, <4>1 DEF MqttForms
    <3> QED
      BY <3>1, <3>2
  <2>2. AskedOp(p, verb) \in {verb, "any"} /\ (AskedOp(p, verb) = "any" \/ AskedOp(p, verb) = verb)
    BY <1>6 DEF CoapOp, MqttOp, ZenohOp
  <2>3. Fitting(p, k, AskedOp(p, verb)) # {}
    BY <1>3, <2>1, <2>2
  <2>4. \A op \in AlsoAsked(p, verb) : op = "observe" /\ k = "property"
    BY <1>3
  <2> QED
    BY <1>2, <2>1, <2>3, <2>4 DEF CanPick
<1> QED
  BY <1>4, <1>5, <1>6 DEF Protocols

(* The client that is selected is one that has a form, if there is any:    *)
(* every protocol is in the order of preference.                           *)
LEMMA SelectedHasForm ==
  ASSUME setup \in Scenarios, NEW entry, entry.kind \in Kinds, SelectClient(entry) \notin entry.forms,
         NEW p \in Range(setup.clients)
  PROVE  p \notin entry.forms
<1> DEFINE order == Preference[entry.kind]
           choices == {i \in DOMAIN order : order[i] \in Range(setup.clients) /\ Supports(order[i], entry)}
<1>1. p \in Protocols
  BY ConsumptionAssumption DEF Range
<1>2. \E i \in DOMAIN order : order[i] = p
  <2>1. DOMAIN order = 1..5 /\ {1, 2, 3, 4, 5} \subseteq 1..5
    BY DEF Preference, Kinds
  <2>2. p \in {order[1], order[2], order[3], order[4], order[5]}
    BY <1>1 DEF Preference, Kinds, Protocols
  <2> QED
    BY <2>1, <2>2
<1>3. CASE choices # {}
  <2>1. DOMAIN order \subseteq 1..5
    BY DEF Preference, Kinds
  <2>2. Min(choices) \in choices
    BY <1>3, <2>1, MinOfPlaces
  <2>3. SelectClient(entry) = order[Min(choices)]
    BY <1>3 DEF SelectClient
  <2> QED
    BY <2>2, <2>3 DEF Supports
<1>4. CASE choices = {}
  BY <1>2, <1>4 DEF Supports
<1> QED
  BY <1>3, <1>4

(* No client has a form for a call that failed for want of one.            *)
NoneCould(r) ==
  r.phase = "no form" => \A p \in Range(setup.clients) : p \notin r.entry.forms

(* A call that is begun knows the interaction of the description that it   *)
(* was made with.                                                          *)
LEMMA BeginCallKeeps ==
  ASSUME CallsInv, NEW c \in Calls, BeginCall(c)
  PROVE  /\ CallsInv'
         /\ \E s \in Request :
              call' = [call EXCEPT ![c] = s] /\ s.phase # "served" /\ NoneCould(s)
<1>1. PICK k \in Kinds, n \in Names : \E entry \in ConsumedAs(k, n), verb \in VerbsOf[k] :
        LET client == SelectClient(entry)
            r == [phase |-> "begun", entry |-> entry, verb |-> verb, client |-> client, creds |-> "none",
                  token |-> 0, before |-> 0, did |-> "nothing", by |-> 0, attempt |-> 1]
        IN call' = [call EXCEPT ![c] =
             IF client \in entry.forms /\ CanPick(client, verb) THEN Sign(r, tokens)
             ELSE [r EXCEPT !.phase = "no form"]]
  BY DEF BeginCall
<1>2. PICK entry \in ConsumedAs(k, n), verb \in VerbsOf[k] :
        LET client == SelectClient(entry)
            r == [phase |-> "begun", entry |-> entry, verb |-> verb, client |-> client, creds |-> "none",
                  token |-> 0, before |-> 0, did |-> "nothing", by |-> 0, attempt |-> 1]
        IN call' = [call EXCEPT ![c] =
             IF client \in entry.forms /\ CanPick(client, verb) THEN Sign(r, tokens)
             ELSE [r EXCEPT !.phase = "no form"]]
  BY <1>1
<1>3. Known(entry) /\ entry.kind = k /\ verb \in Verbs /\ entry \in Entry
  BY KindOfVerb DEF CallsInv, ConsumedAs, Named, Known
<1>4. PICK client \in Protocols : client = SelectClient(entry)
  BY <1>3, SelectedIsClient DEF CallsInv, ThingInv
<1>5. /\ UnchangedThing /\ td' = td /\ consumed' \in BOOLEAN /\ issued' = issued /\ TokensInv'
      /\ UNCHANGED <<made, interactions, setup>>
  BY DEF BeginCall, UnchangedThing, interactionVars, CallsInv, ThingInv, TokensInv
<1>6. PICK r : r = [phase |-> "begun", entry |-> entry, verb |-> verb, client |-> client, creds |-> "none",
                    token |-> 0, before |-> 0, did |-> "nothing", by |-> 0, attempt |-> 1]
  OBVIOUS
<1>7. PICK s : s = IF client \in entry.forms /\ CanPick(client, verb) THEN Sign(r, tokens)
                   ELSE [r EXCEPT !.phase = "no form"]
  OBVIOUS
<1>8. call' = [call EXCEPT ![c] = s]
  BY <1>2, <1>4, <1>6, <1>7
<1>9. issued \in Nat /\ 0 \in 0..MaxTokens
  BY ConsumptionAssumption DEF CallsInv, TokensInv
<1>10. r \in Begun
  BY <1>3, <1>6, <1>9 DEF Begun, Ended
<1>11. s \in Request /\ CallInv(s)' /\ s.phase # "served"
  <2>1. CASE s = Sign(r, tokens)
    <3>1. /\ s \in Request /\ s.phase \in {"asking", "sent", "failed"} /\ s.entry = entry /\ s.verb = verb
          /\ s.client = client /\ s.attempt = 1 /\ s.before = 0 /\ s.token \in 0..issued
          /\ s.phase = "asking" => client = "http" /\ verb # "write"
      BY <1>6, <1>10, <2>1, Signed DEF CallsInv, ThingInv, TokensInv
    <3>2. s.token <= issued
      BY <1>9, <3>1
    <3>3. 0 <= issued /\ 1 # 2
      BY <1>9
    <3>4. Known(entry)'
      BY <1>3, <1>5 DEF Known
    <3> QED
      BY <1>3, <1>5, <3>1, <3>2, <3>3, <3>4 DEF CallInv
  <2>2. CASE s = [r EXCEPT !.phase = "no form"]
    <3>1. /\ s.phase = "no form" /\ s.entry = entry /\ s.verb = verb /\ s.attempt = 1 /\ s.before = 0
          /\ s.token = 0
      BY <1>6, <2>2
    <3>2. s \in Request
      BY <1>10, <2>2 DEF Begun, Request, Ended
    <3>3. Known(entry)'
      BY <1>3, <1>5 DEF Known
    <3>4. 0 <= issued /\ 1 # 2
      BY <1>9
    <3>5. s.phase \notin {"asking", "issued"}
      BY <3>1
    <3> QED
      BY <1>3, <1>5, <3>1, <3>2, <3>3, <3>4, <3>5 DEF CallInv
  <2> QED
    BY <1>7, <2>1, <2>2
<1>12. issued <= issued'
  BY <1>5, <1>9
<1>13. CallsInv'
  BY <1>5, <1>8, <1>11, <1>12, CallStep
<1>14. NoneCould(s)
  <2>1. CASE client \in entry.forms /\ CanPick(client, verb)
    <3>1. s.phase \in {"asking", "sent", "failed"}
      BY <1>6, <1>7, <1>10, <2>1, Signed DEF CallsInv, ThingInv, TokensInv
    <3> QED
      BY <3>1 DEF NoneCould
  <2>2. CASE ~(client \in entry.forms /\ CanPick(client, verb))
    <3>1. s.entry = entry
      BY <1>6, <1>7, <2>2
    <3>2. client \notin entry.forms
      BY <1>3, <1>4, <2>2, AllCanPick
    <3> QED
      BY <1>3, <1>4, <3>1, <3>2, SelectedHasForm DEF NoneCould, CallsInv, ThingInv
  <2> QED
    BY <2>1, <2>2
<1> QED
  BY <1>8, <1>11, <1>13, <1>14

(* A call that has been begun is a request.                                *)
LEMMA BegunIsRequest ==
  ASSUME CallsInv, NEW c \in Calls, call[c].phase # "idle"
  PROVE  call[c] \in Request /\ CallInv(call[c])
BY DEF CallsInv, Idle

(* The end of a request, or its sending once it has its token.             *)
LEMMA PhaseKeeps ==
  ASSUME CallsInv, NEW r \in Request, CallInv(r), NEW ph, NEW did \in Verbs \cup {"nothing"},
         NEW by \in {0} \cup Ids,
         ph \in {"served", "refused", "failed"} \/ (ph = "sent" /\ r.phase = "issued"),
         NEW s, s = [r EXCEPT !.phase = ph, !.did = did, !.by = by],
         UNCHANGED <<made, interactions, setup, issued>>
  PROVE  s \in Request /\ CallInv(s)'
<1>1. /\ s.phase = ph /\ s.entry = r.entry /\ s.verb = r.verb /\ s.client = r.client /\ s.attempt = r.attempt
      /\ s.before = r.before /\ s.token = r.token
  BY DEF Request
<1>2. s \in Request
  BY DEF Request, Ended
<1>3. s.phase \notin {"asking", "issued"} /\ (s.phase = "sent" => r.phase = "issued")
  BY <1>1
<1> QED
  BY <1>1, <1>2, <1>3 DEF CallInv, Known

(* So does one of which nothing but the phase changes.                     *)
LEMMA EndKeeps ==
  ASSUME CallsInv, NEW r \in Request, CallInv(r), NEW ph,
         ph \in {"served", "refused", "failed"} \/ (ph = "sent" /\ r.phase = "issued"),
         NEW s, s = [r EXCEPT !.phase = ph], UNCHANGED <<made, interactions, setup, issued>>
  PROVE  s \in Request /\ CallInv(s)'
<1>1. /\ s.phase = ph /\ s.entry = r.entry /\ s.verb = r.verb /\ s.client = r.client /\ s.attempt = r.attempt
      /\ s.before = r.before /\ s.token = r.token
  BY DEF Request
<1>2. s \in Request
  BY DEF Request, Ended
<1>3. s.phase \notin {"asking", "issued"} /\ (s.phase = "sent" => r.phase = "issued")
  BY <1>1
<1> QED
  BY <1>1, <1>2, <1>3 DEF CallInv, Known

(* The token that the holder issues is newer than all before it.           *)
LEMMA HolderAnswersKeeps ==
  ASSUME CallsInv, NEW c \in Calls, HolderAnswers(c)
  PROVE  CallsInv'
<1>1. call[c].phase = "asking" /\ UnchangedThing /\ UNCHANGED <<td, consumed, tokens, expired>>
  BY DEF HolderAnswers
<1>2. call[c] \in Request /\ CallInv(call[c]) /\ call \in [Calls -> {Idle} \cup Request]
      /\ consumed' \in BOOLEAN
  BY <1>1, BegunIsRequest DEF CallsInv, ThingInv
<1>3. UNCHANGED <<made, interactions, setup>>
  BY <1>1 DEF UnchangedThing, interactionVars
<1>4. issued \in 0..MaxTokens /\ MaxTokens \in Nat /\ issued \in Nat /\ expired \in 0..issued
      /\ tokens \in [Urls -> 0..issued]
  BY ConsumptionAssumption DEF CallsInv, TokensInv
<1>5. PICK r \in Request : r = call[c]
  BY <1>2
<1>6. CASE issued < MaxTokens /\ issued' = issued + 1
           /\ call' = [call EXCEPT ![c].phase = "issued", ![c].token = issued + 1]
  <2>1. PICK s : s = [r EXCEPT !.phase = "issued", !.token = issued + 1]
    OBVIOUS
  <2>2. call' = [call EXCEPT ![c] = s]
    BY <1>2, <1>5, <1>6, <2>1
  <2>3. /\ s.phase = "issued" /\ s.entry = r.entry /\ s.verb = r.verb /\ s.client = r.client
        /\ s.attempt = r.attempt /\ s.before = r.before /\ s.token = issued + 1
    BY <2>1 DEF Request
  <2>4. s \in Request
    <3>1. issued + 1 \in 0..MaxTokens
      BY <1>4, <1>6
    <3> QED
      BY <2>1, <3>1 DEF Request
  <2>5. issued' = issued + 1 /\ issued <= issued' /\ 0..issued \subseteq 0..issued'
    BY <1>4, <1>6
  <2>6. s.token <= issued' /\ s.before <= issued' /\ s.token > s.before
    <3>1. r.before \in Nat /\ r.before <= issued
      BY <1>2, <1>4, <1>5 DEF Request, CallInv
    <3> QED
      BY <1>4, <2>3, <2>5, <3>1
  <2>7. CallInv(s)'
    BY <1>1, <1>2, <1>3, <1>5, <2>3, <2>6 DEF CallInv, Known
  <2>8. TokensInv'
    <3>1. issued' \in 0..MaxTokens
      BY <1>4, <1>6
    <3> QED
      BY <1>1, <1>4, <2>5, <3>1 DEF TokensInv
  <2> QED
    BY <1>1, <1>2, <2>2, <2>4, <2>5, <2>7, <2>8, CallStep
<1>7. CASE call' = [call EXCEPT ![c].phase = "refused"] /\ UNCHANGED issued
  <2>1. PICK s : s = [r EXCEPT !.phase = "refused"]
    OBVIOUS
  <2>3. s \in Request /\ CallInv(s)'
    BY <1>2, <1>3, <1>5, <1>7, <2>1, EndKeeps
  <2>4. call' = [call EXCEPT ![c] = s]
    BY <1>2, <1>5, <1>7, <2>1
  <2>5. issued <= issued' /\ TokensInv'
    BY <1>1, <1>4, <1>7 DEF TokensInv
  <2> QED
    BY <1>1, <1>2, <2>3, <2>4, <2>5, CallStep
<1> QED
  BY <1>6, <1>7 DEF HolderAnswers

(* A token that is stored is one that was issued.                          *)
LEMMA StoreTokenKeeps ==
  ASSUME CallsInv, NEW c \in Calls, StoreToken(c)
  PROVE  CallsInv'
<1>1. /\ call[c].phase = "issued" /\ UnchangedThing /\ UNCHANGED <<td, consumed, issued, expired>>
      /\ tokens' = [tokens EXCEPT ![UrlOf(call[c])] = call[c].token]
      /\ call' = [call EXCEPT ![c].phase = "sent"]
  BY DEF StoreToken
<1>2. call[c] \in Request /\ CallInv(call[c]) /\ call \in [Calls -> {Idle} \cup Request]
      /\ consumed' \in BOOLEAN
  BY <1>1, BegunIsRequest DEF CallsInv, ThingInv
<1>3. UNCHANGED <<made, interactions, setup>>
  BY <1>1 DEF UnchangedThing, interactionVars
<1>4. issued \in 0..MaxTokens /\ issued \in Nat /\ expired \in 0..issued /\ tokens \in [Urls -> 0..issued]
  BY ConsumptionAssumption DEF CallsInv, TokensInv
<1>5. PICK r \in Request : r = call[c]
  BY <1>2
<1>6. PICK s : s = [r EXCEPT !.phase = "sent"]
  OBVIOUS
<1>8. s \in Request /\ CallInv(s)'
  BY <1>1, <1>2, <1>3, <1>5, <1>6, EndKeeps
<1>9. call' = [call EXCEPT ![c] = s]
  BY <1>1, <1>2, <1>5, <1>6
<1>10. TokensInv'
  <2>1. call[c].token \in 0..issued
    BY <1>2, <1>4, ConsumptionAssumption DEF Request, CallInv
  <2> QED
    BY <1>1, <1>4, <2>1 DEF TokensInv
<1>11. issued <= issued'
  BY <1>1, <1>4
<1> QED
  BY <1>1, <1>2, <1>8, <1>9, <1>10, <1>11, CallStep

(* Serving a call, or refusing it, ends its sending.                       *)
LEMMA ServeKeeps ==
  ASSUME CallsInv, NEW c \in Calls, Serve(c)
  PROVE  CallsInv'
<1>1. call[c].phase = "sent" /\ UnchangedThing /\ UNCHANGED <<td, consumed, tokens, issued, expired>>
  BY DEF Serve
<1>2. call[c] \in Request /\ CallInv(call[c]) /\ call \in [Calls -> {Idle} \cup Request]
      /\ consumed' \in BOOLEAN
  BY <1>1, BegunIsRequest DEF CallsInv, ThingInv
<1>3. UNCHANGED <<made, interactions, setup, issued>>
  BY <1>1 DEF UnchangedThing, interactionVars
<1>4. issued <= issued' /\ TokensInv'
  BY <1>1, ConsumptionAssumption DEF CallsInv, TokensInv
<1>5. PICK r \in Request : r = call[c]
  BY <1>2
<1>6. CASE \E v \in Verbs, i \in interactions :
             call' = [call EXCEPT ![c].phase = "served", ![c].did = v, ![c].by = i.id]
  <2>1. PICK v \in Verbs, i \in interactions :
          call' = [call EXCEPT ![c].phase = "served", ![c].did = v, ![c].by = i.id]
    BY <1>6
  <2>2. i.id \in Ids
    BY DEF CallsInv, ThingInv, InteractionsTypeOK, Interaction
  <2>3. PICK s : s = [r EXCEPT !.phase = "served", !.did = v, !.by = i.id]
    OBVIOUS
  <2>4. s \in Request /\ CallInv(s)'
    BY <1>2, <1>3, <1>5, <2>2, <2>3, PhaseKeeps
  <2>5. call' = [call EXCEPT ![c] = s]
    BY <1>2, <1>5, <2>1, <2>3
  <2> QED
    BY <1>1, <1>2, <1>4, <2>4, <2>5, CallStep
<1>7. CASE call' = [call EXCEPT ![c].phase = "refused"]
  <2>1. PICK s : s = [r EXCEPT !.phase = "refused"]
    OBVIOUS
  <2>3. s \in Request /\ CallInv(s)'
    BY <1>2, <1>3, <1>5, <2>1, EndKeeps
  <2>4. call' = [call EXCEPT ![c] = s]
    BY <1>2, <1>5, <1>7, <2>1
  <2> QED
    BY <1>1, <1>2, <1>4, <2>3, <2>4, CallStep
<1> QED
  BY <1>6, <1>7 DEF Serve

(* Giving up keeps what is known.                                          *)
LEMMA GiveUpKeeps ==
  ASSUME CallsInv, NEW c \in Calls, GiveUp(c)
  PROVE  CallsInv'
<1>1. /\ call[c].phase = "refused" /\ UnchangedThing /\ UNCHANGED <<td, consumed, tokens, issued, expired>>
      /\ call' = [call EXCEPT ![c].phase = "failed"]
  BY DEF GiveUp
<1>2. call[c] \in Request /\ CallInv(call[c]) /\ call \in [Calls -> {Idle} \cup Request]
      /\ consumed' \in BOOLEAN
  BY <1>1, BegunIsRequest DEF CallsInv, ThingInv
<1>3. UNCHANGED <<made, interactions, setup, issued>>
  BY <1>1 DEF UnchangedThing, interactionVars
<1>4. issued <= issued' /\ TokensInv'
  BY <1>1, ConsumptionAssumption DEF CallsInv, TokensInv
<1>5. PICK r \in Request : r = call[c]
  BY <1>2
<1>6. PICK s : s = [r EXCEPT !.phase = "failed"]
  OBVIOUS
<1>8. s \in Request /\ CallInv(s)'
  BY <1>2, <1>3, <1>5, <1>6, EndKeeps
<1>9. call' = [call EXCEPT ![c] = s]
  BY <1>1, <1>2, <1>5, <1>6
<1> QED
  BY <1>1, <1>2, <1>4, <1>8, <1>9, CallStep

(* A read that is retried must ask for a token, as it has just forgotten   *)
(* the one of its address.                                                 *)
LEMMA RetryKeeps ==
  ASSUME CallsInv, NEW c \in Calls, Retry(c)
  PROVE  CallsInv' /\ \E s \in Request : call' = [call EXCEPT ![c] = s] /\ s.phase = "asking"
<1>1. /\ call[c].phase = "refused" /\ MayRetry(call[c])
      /\ UnchangedThing /\ UNCHANGED <<td, consumed, issued, expired>>
  BY DEF Retry
<1>2. call[c] \in Request /\ CallInv(call[c]) /\ call \in [Calls -> {Idle} \cup Request]
      /\ consumed' \in BOOLEAN
  BY <1>1, BegunIsRequest DEF CallsInv, ThingInv
<1>3. UNCHANGED <<made, interactions, setup>>
  BY <1>1 DEF UnchangedThing, interactionVars
<1>4. /\ issued \in 0..MaxTokens /\ issued \in Nat /\ expired \in 0..issued /\ tokens \in [Urls -> 0..issued]
      /\ 0 \in 0..issued /\ 0 \in 0..MaxTokens
  BY ConsumptionAssumption DEF CallsInv, TokensInv
<1>5. PICK r \in Request : r = call[c]
  BY <1>2
<1>6. r.client = "http" /\ r.verb = "read" /\ setup.credential = "token" /\ r.attempt = 1
  BY <1>1, <1>5 DEF MayRetry
<1>7. PICK q : q = [r EXCEPT !.attempt = @ + 1, !.before = issued, !.token = 0]
  OBVIOUS
<1>8. /\ tokens' = [tokens EXCEPT ![UrlOf(r)] = 0]
      /\ call' = [call EXCEPT ![c] = Sign(q, tokens')]
  BY <1>5, <1>7 DEF Retry, WithoutToken
<1>9. /\ q.entry = r.entry /\ q.verb = r.verb /\ q.client = r.client /\ q.attempt = 2 /\ q.before = issued
      /\ q.token = 0
  BY <1>6, <1>7 DEF Request
<1>10. q \in Begun
  <2>1. r.attempt + 1 \in 1..2 /\ r.token \in 0..MaxTokens
    BY <1>6 DEF Request
  <2>2. r \in Begun
    BY RequestBegun
  <2> QED
    BY <1>4, <1>7, <2>1, <2>2 DEF Begun
<1>11. tokens' \in [Urls -> 0..issued] /\ tokens'[UrlOf(q)] = 0
  <2>1. UrlOf(q) = UrlOf(r)
    BY <1>9 DEF UrlOf
  <2>2. r.entry.name \in Names
    BY DEF Request, Entry
  <2>3. UrlOf(r) \in Urls
    BY <1>6, <2>2, HttpAddress
  <2> QED
    BY <1>4, <1>8, <2>1, <2>3
<1>12. PICK s : s = Sign(q, tokens')
  OBVIOUS
<1>13. /\ s \in Request /\ s.phase = "asking" /\ s.entry = r.entry /\ s.verb = "read" /\ s.client = "http"
       /\ s.attempt = 2 /\ s.before = issued /\ s.token \in 0..issued
  BY <1>6, <1>9, <1>10, <1>11, <1>12, Signed DEF CallsInv, ThingInv
<1>14. CallInv(s)'
  <2>1. s.token <= issued'
    BY <1>1, <1>4, <1>13
  <2>2. s.before <= issued'
    BY <1>1, <1>4, <1>13
  <2> QED
    BY <1>2, <1>3, <1>5, <1>6, <1>13, <2>1, <2>2 DEF CallInv, Known
<1>15. TokensInv'
  BY <1>1, <1>4, <1>11 DEF TokensInv
<1>16. issued <= issued'
  BY <1>1, <1>4
<1>17. CallsInv'
  BY <1>1, <1>2, <1>8, <1>12, <1>13, <1>14, <1>15, <1>16, CallStep
<1> QED
  BY <1>8, <1>12, <1>13, <1>17

(* A description says what is true of the interactions.                    *)
LEMMA ConsumeKeeps ==
  ASSUME CallsInv, Consume
  PROVE  CallsInv'
<1>1. /\ td' \in Catalogue /\ consumed' = TRUE /\ UnchangedThing
      /\ UNCHANGED <<call, tokens, issued, expired>>
  BY DEF Consume
<1>2. ThingInv' /\ UNCHANGED setup /\ \A e : Known(e) => Known(e)'
  BY <1>1, ThingUntouched DEF CallsInv
<1>3. \A e \in td' : Known(e)'
  <2> TAKE e \in td'
  <2>1. PICK i \in interactions : e = Fragment(i)
    BY <1>1 DEF Catalogue
  <2>2. /\ interactions \subseteq Interaction /\ i.id <= made /\ forms \in [Ids -> SUBSET Protocols]
        /\ \A j \in interactions : j.id = i.id => j = i
    BY DEF CallsInv, ThingInv, InteractionsTypeOK
  <2>3. /\ i.id \in Ids /\ i.name \in Names /\ i.kind \in Kinds
        /\ e.id = i.id /\ e.name = i.name /\ e.kind = i.kind
    BY <2>1, <2>2 DEF Fragment, Interaction
  <2>4. e \in Entry
    BY <2>1, <2>2, <2>3 DEF Fragment, Entry
  <2> QED
    BY <1>2, <2>2, <2>3, <2>4 DEF Known
<1>4. \A d \in Calls : (call[d] # Idle => CallInv(call[d]))'
  BY <1>1, <1>2 DEF CallsInv, CallInv
<1>5. TokensInv'
  BY <1>1 DEF CallsInv, TokensInv
<1> QED
  BY <1>1, <1>2, <1>3, <1>4, <1>5 DEF CallsInv

(* That a token expires changes nothing for the calls.                     *)
LEMMA ExpireKeeps ==
  ASSUME CallsInv, Expire
  PROVE  CallsInv'
<1>1. UnchangedThing /\ UNCHANGED <<td, consumed, call, tokens, issued>>
  BY DEF Expire, consumerVars
<1>2. ThingInv' /\ UNCHANGED setup /\ \A e : Known(e) => Known(e)'
  BY <1>1, ThingUntouched DEF CallsInv, ThingInv
<1>3. TokensInv'
  BY <1>1, ConsumptionAssumption DEF Expire, CallsInv, TokensInv
<1>4. \A d \in Calls : (call[d] # Idle => CallInv(call[d]))'
  BY <1>1, <1>2 DEF CallsInv, CallInv
<1> QED
  BY <1>1, <1>2, <1>3, <1>4 DEF CallsInv

(* Every step keeps the invariant.                                         *)
LEMMA CallsNext == CallsInv /\ [Next]_vars => CallsInv'
<1> SUFFICES ASSUME CallsInv, [Next]_vars PROVE CallsInv'
  OBVIOUS
<1>1. CASE (\E on \in BOOLEAN : SetExposed(on)) \/ RefreshForms \/ EditInteractions
  BY <1>1, ThingStep
<1>2. CASE Consume
  BY <1>2, ConsumeKeeps
<1>3. CASE Expire
  BY <1>3, ExpireKeeps
<1>4. CASE \E c \in Calls : BeginCall(c) \/ HolderAnswers(c) \/ StoreToken(c) \/ Serve(c) \/ Retry(c)
             \/ GiveUp(c)
  BY <1>4, BeginCallKeeps, HolderAnswersKeeps, StoreTokenKeeps, ServeKeeps, RetryKeeps, GiveUpKeeps
<1>5. CASE UNCHANGED vars
  <2>1. UnchangedThing /\ UNCHANGED <<td, consumed, call, tokens, issued, expired>>
    BY <1>5 DEF vars, UnchangedThing, consumerVars
  <2>2. ThingInv' /\ UNCHANGED setup /\ \A e : Known(e) => Known(e)'
    BY <2>1, ThingUntouched DEF CallsInv, ThingInv
  <2>3. \A d \in Calls : (call[d] # Idle => CallInv(call[d]))'
    BY <2>1, <2>2 DEF CallsInv, CallInv
  <2> QED
    BY <2>1, <2>2, <2>3 DEF CallsInv, TokensInv
<1> QED
  BY <1>1, <1>2, <1>3, <1>4, <1>5 DEF Next, Done

(* Only a server makes a call one that is served.                          *)
LEMMA ServedByServer ==
  ASSUME CallsInv, Next, NEW c \in Calls, call[c].phase # "served", call'[c].phase = "served"
  PROVE  Serve(c)
<1>1. call \in [Calls -> {Idle} \cup Request] /\ \A d \in Calls : call[d].phase # "idle"
        => call[d] \in Request
  BY BegunIsRequest DEF CallsInv
<1>2. call' # call
  OBVIOUS
<1>3. ASSUME NEW d \in Calls, NEW s \in Request, call' = [call EXCEPT ![d] = s], s.phase # "served"
      PROVE  FALSE
  BY <1>1, <1>3
<1>4. ASSUME NEW d \in Calls, HolderAnswers(d) \/ StoreToken(d) \/ GiveUp(d) PROVE FALSE
  <2>1. call[d] \in Request
    BY <1>1, <1>4 DEF HolderAnswers, StoreToken, GiveUp
  <2>2. \/ call' = [call EXCEPT ![d].phase = "issued", ![d].token = issued + 1]
        \/ call' = [call EXCEPT ![d].phase = "failed"]
        \/ call' = [call EXCEPT ![d].phase = "refused"]
        \/ call' = [call EXCEPT ![d].phase = "sent"]
    BY <1>4 DEF HolderAnswers, StoreToken, GiveUp
  <2>3. call'[d].phase # "served" /\ \A e \in Calls : e # d => call'[e] = call[e]
    BY <1>1, <2>1, <2>2 DEF Request
  <2> QED
    BY <2>3
<1>5. ASSUME NEW d \in Calls, Serve(d) PROVE d = c
  BY <1>1, <1>5 DEF Serve
<1>6. UNCHANGED call \/ \E d \in Calls :
        BeginCall(d) \/ HolderAnswers(d) \/ StoreToken(d) \/ Serve(d) \/ Retry(d) \/ GiveUp(d)
  BY DEF Next, SetExposed, RefreshForms, EditInteractions, Edit, Consume, Expire, Done, vars,
         consumerVars
<1>7. PICK d \in Calls :
        BeginCall(d) \/ HolderAnswers(d) \/ StoreToken(d) \/ Serve(d) \/ Retry(d) \/ GiveUp(d)
  BY <1>2, <1>6
<1>8. ~BeginCall(d) /\ ~Retry(d)
  BY <1>3, BeginCallKeeps, RetryKeeps
<1> QED
  BY <1>4, <1>5, <1>7, <1>8

(* A call that is served reaches what it was meant for: the routes say the *)
(* verb, and the URL name says the interaction.                            *)
LEMMA ServeReaches ==
  ASSUME CallsInv, NEW c \in Calls, Serve(c), call'[c].phase = "served"
  PROVE  /\ call'[c].did = call[c].verb
         /\ call'[c].by = call[c].entry.id \/ \A i \in interactions : i.id # call[c].entry.id
<1>1. call[c].phase = "sent" /\ call \in [Calls -> {Idle} \cup Request] /\ call[c] \in Request
      /\ CallInv(call[c])
  BY BegunIsRequest DEF Serve, CallsInv
<1>2. PICK r \in Request : r = call[c]
  BY <1>1
<1>3. PICK v \in Verbs, i \in interactions :
        /\ Serves(r, v, i)
        /\ call' = [call EXCEPT ![c].phase = "served", ![c].did = v, ![c].by = i.id]
  <2>1. call' # [call EXCEPT ![c].phase = "refused"]
    BY <1>1 DEF Request
  <2> QED
    BY <1>2, <2>1 DEF Serve
<1>4. call'[c].did = v /\ call'[c].by = i.id
  BY <1>1, <1>3 DEF Request
<1>5. v = r.verb
  <2>1. r.client \in Protocols /\ r.verb \in Verbs /\ v \in RoutedTo(r.client, r.verb)
    BY <1>3 DEF Request, Serves
  <2> QED
    BY <2>1, RoutedAsMeant
<1>6. UrlNameOf[i.name] = UrlNameOf[r.entry.name]
  BY <1>3 DEF Serves, Finds, Named
<1>7. ASSUME NEW j \in interactions, j.id = r.entry.id PROVE i.id = r.entry.id
  <2>1. j.name = r.entry.name
    BY <1>1, <1>2, <1>7 DEF CallInv, Known
  <2>2. i = j
    BY <1>6, <2>1 DEF CallsInv, ThingInv, NamesDistinct
  <2> QED
    BY <1>7, <2>2
<1> QED
  BY <1>2, <1>4, <1>5, <1>7

-----------------------------------------------------------------------------
(* The theorems.                                                           *)

(* In every state the calls know what they were made for.                  *)
LEMMA CallsAlways == Spec => []CallsInv
BY CallsInit, CallsNext, PTL DEF Spec

(* Every variable keeps its type, and no read is sent a third time         *)
(* (HTTPClient.read_property, wotpy/protocols/http/client.py:217).         *)
THEOREM TypeCorrect == Spec => []TypeOK
<1>1. CallsInv => TypeOK
  <2> SUFFICES ASSUME CallsInv PROVE TypeOK
    OBVIOUS
  <2>1. td \subseteq Entry
    BY DEF CallsInv, Known
  <2>2. issued \in 0..MaxTokens /\ expired \in 0..issued /\ tokens \in [Urls -> 0..MaxTokens]
    <3>1. 0..issued \subseteq 0..MaxTokens
      BY ConsumptionAssumption DEF CallsInv, TokensInv
    <3> QED
      BY <3>1 DEF CallsInv, TokensInv
  <2> QED
    BY <2>1, <2>2 DEF CallsInv, ThingInv, TypeOK
<1> QED
  BY <1>1, CallsAlways, PTL

(* However interactions are added and removed, the URL name of each is its *)
(* own (Thing.add_interaction, wotpy/wot/thing.py:214).                    *)
THEOREM NamesDistinctTheorem == Spec => []NamesDistinct
<1>1. CallsInv => NamesDistinct
  BY DEF CallsInv, ThingInv
<1> QED
  BY <1>1, CallsAlways, PTL

(* A read that is sent again, its first attempt refused or not even        *)
(* signed, carries a token that was issued after that attempt had failed   *)
(* (HTTPClient.read_property, wotpy/protocols/http/client.py:223).         *)
THEOREM RetryIsFreshTheorem == Spec => []RetryIsFresh
<1>1. CallsInv => RetryIsFresh
  <2> SUFFICES ASSUME CallsInv, NEW c \in Calls, call[c].phase = "sent", call[c].attempt = 2
               PROVE  call[c].token > call[c].before
    BY DEF RetryIsFresh
  <2>1. CallInv(call[c])
    BY BegunIsRequest
  <2> QED
    BY <2>1 DEF CallInv
<1> QED
  BY <1>1, CallsAlways, PTL

(* A call is served by the interaction it was made for, as the verb that   *)
(* was meant, whatever is added and removed while it travels.              *)
THEOREM ReachesWhatWasMeantTheorem == Spec => ReachesWhatWasMeant
<1> DEFINE Reaches(c) ==
      call[c].phase # "served" /\ call'[c].phase = "served" =>
        /\ call'[c].did = call[c].verb
        /\ call'[c].by = call[c].entry.id \/ \A i \in interactions : i.id # call[c].entry.id
<1>1. CallsInv /\ [Next]_vars => [\A c \in Calls : Reaches(c)]_vars
  <2> SUFFICES ASSUME CallsInv, Next, NEW c \in Calls, call[c].phase # "served", call'[c].phase = "served"
               PROVE  /\ call'[c].did = call[c].verb
                      /\ call'[c].by = call[c].entry.id \/ \A i \in interactions : i.id # call[c].entry.id
    OBVIOUS
  <2>1. Serve(c)
    BY ServedByServer
  <2> QED
    BY <2>1, ServeReaches
<1> QED
  BY <1>1, CallsAlways, PTL DEF Spec, ReachesWhatWasMeant


(* What becomes of each call in a step.                                    *)
LEMMA NoneCouldStep ==
  ASSUME CallsInv, [Next]_vars, \A c \in Calls : NoneCould(call[c])
  PROVE  \A c \in Calls : NoneCould(call[c])'
<1>1. call \in [Calls -> {Idle} \cup Request] /\ \A d \in Calls : call[d].phase # "idle"
        => call[d] \in Request
  BY BegunIsRequest DEF CallsInv
<1>2. setup' = setup
  BY DEF Next, SetExposed, RefreshForms, EditInteractions, Edit, Consume, Expire, Done, vars,
         BeginCall, HolderAnswers, StoreToken, Serve, Retry, GiveUp, UnchangedThing
<1>3. ASSUME NEW d \in Calls, NEW s, call' = [call EXCEPT ![d] = s], NoneCould(s)
      PROVE  \A c \in Calls : NoneCould(call[c])'
  BY <1>1, <1>2, <1>3 DEF NoneCould
<1>4. ASSUME NEW d \in Calls,
             HolderAnswers(d) \/ StoreToken(d) \/ Serve(d) \/ GiveUp(d)
      PROVE  \A c \in Calls : NoneCould(call[c])'
  <2>1. call[d] \in Request
    BY <1>1, <1>4 DEF HolderAnswers, StoreToken, Serve, GiveUp
  <2>2. \/ call' = [call EXCEPT ![d].phase = "issued", ![d].token = issued + 1]
        \/ call' = [call EXCEPT ![d].phase = "failed"]
        \/ call' = [call EXCEPT ![d].phase = "refused"]
        \/ call' = [call EXCEPT ![d].phase = "sent"]
        \/ call' = [call EXCEPT ![d].phase = "refused"]
        \/ \E v \in Verbs, i \in interactions :
             call' = [call EXCEPT ![d].phase = "served", ![d].did = v, ![d].by = i.id]
    BY <1>4 DEF HolderAnswers, StoreToken, Serve, GiveUp
  <2>3. \A e \in Calls : e # d => call'[e] = call[e]
    BY <1>1, <2>2
  <2>4. CASE \E v \in Verbs, i \in interactions :
               call' = [call EXCEPT ![d].phase = "served", ![d].did = v, ![d].by = i.id]
    <3>1. PICK v \in Verbs, i \in interactions :
            call' = [call EXCEPT ![d].phase = "served", ![d].did = v, ![d].by = i.id]
      BY <2>4
    <3>2. call'[d].phase = "served"
      BY <1>1, <2>1, <3>1 DEF Request
    <3> QED
      BY <1>2, <2>3, <3>2 DEF NoneCould
  <2>5. CASE call' = [call EXCEPT ![d].phase = "issued", ![d].token = issued + 1]
    <3>1. call'[d].phase = "issued"
      BY <1>1, <2>1, <2>5 DEF Request
    <3> QED
      BY <1>2, <2>3, <3>1 DEF NoneCould
  <2>6. CASE \E ph \in {"failed", "sent", "refused"} : call' = [call EXCEPT ![d].phase = ph]
    <3>1. call'[d].phase \in {"failed", "sent", "refused"}
      BY <1>1, <2>1, <2>6 DEF Request
    <3> QED
      BY <1>2, <2>3, <3>1 DEF NoneCould
  <2> QED
    BY <2>2, <2>4, <2>5, <2>6
<1>5. CASE UNCHANGED call
  BY <1>2, <1>5 DEF NoneCould
<1>6. UNCHANGED call \/ \E d \in Calls :
        BeginCall(d) \/ HolderAnswers(d) \/ StoreToken(d) \/ Serve(d) \/ Retry(d) \/ GiveUp(d)
  BY DEF Next, SetExposed, RefreshForms, EditInteractions, Edit, Consume, Expire, Done, vars,
         consumerVars
<1>7. ASSUME NEW d \in Calls, BeginCall(d) \/ Retry(d) PROVE \A c \in Calls : NoneCould(call[c])'
  <2>1. \E s \in Request : call' = [call EXCEPT ![d] = s] /\ NoneCould(s)
    BY <1>7, BeginCallKeeps, RetryKeeps DEF NoneCould
  <2> QED
    BY <1>3, <2>1
<1> QED
  BY <1>4, <1>5, <1>6, <1>7

(* No call fails for want of a form that another client of the servient    *)
(* has (Servient._default_select_client, wotpy/wot/servient.py:200).       *)
THEOREM SelectedCanDoTheorem == Spec => []SelectedCanDo
<1> DEFINE Selected == \A c \in Calls : NoneCould(call[c])
<1>1. Init => Selected
  <2>1. Idle.phase = "idle"
    BY DEF Idle
  <2> QED
    BY <2>1 DEF Init, NoneCould
<1>2. CallsInv /\ Selected /\ [Next]_vars => Selected'
  BY NoneCouldStep
<1>3. Selected => SelectedCanDo
  BY DEF NoneCould, SelectedCanDo
<1> HIDE DEF Selected
<1> QED
  BY <1>1, <1>2, <1>3, CallsAlways, PTL DEF Spec
=============================================================================
