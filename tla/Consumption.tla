---------------------------- MODULE Consumption ----------------------------
(***************************************************************************)
(* From a Thing Description to the interaction it speaks of: an            *)
(* application consumes a thing, a client is selected for an interaction,  *)
(* picks a form and signs its request, and a server looks the interaction  *)
(* up by the address; meanwhile the application of the thing adds and      *)
(* removes interactions.  How the request travels and is answered is the   *)
(* subject of RemoteCalls and Observation.                                 *)
(*                                                                         *)
(* External: the holder, which issues tokens, and the proxy in front of    *)
(* an HTTP server, which lets requests with a token that has not expired   *)
(* through.  Tokens expire in the order in which they were issued.         *)
(***************************************************************************)
EXTENDS Interactions

CONSTANTS
  Calls,      \* the calls of the application
  Scenarios,  \* bound: servers, clients, security and calls to explore, and the number of edits
  MaxTokens   \* bound: tokens issued

ASSUME ConsumptionAssumption ==
  /\ MaxTokens \in Nat
  /\ \A s \in Scenarios :
       /\ s.servers \subseteq Protocols /\ s.clients \in Seq(Protocols) \ {<<>>}
       /\ s.scheme \in {"nosec", "known", "unsupported"}
       /\ s.credential \in {"none", "right", "wrong", "token", "unsupported"}
       /\ s.calls \subseteq Calls /\ s.edits \in Nat

VARIABLES
  setup,     \* the scenario
  edits,     \* edits left
  exposed,   \* whether the thing is enabled, and served by every server
  td,        \* what the consumer knows of the interactions
  consumed,  \* whether it has the description
  call,      \* what each call has come to
  tokens,    \* _access_tokens of the credential: the token of each address, or 0
  issued,    \* tokens issued by the holder
  expired    \* those up to here have expired

consumerVars == <<td, consumed, call, tokens, issued>>
vars == <<setup, edits, exposed, interactionVars, consumerVars, expired>>

Entry == [id : Ids, name : Names, kind : Kinds, forms : SUBSET Protocols]

(* The address of a request over HTTP, by which tokens are kept.           *)
UrlOf(r) == <<AreaFor(r.client, r.verb), UrlNameOf[r.entry.name]>>
Urls == {f.area : f \in UNION {Range(HttpForms[k]) : k \in Kinds}} \X Names

Idle == [phase |-> "idle"]

Init ==
  /\ setup \in Scenarios /\ edits = setup.edits
  /\ InteractionsInit
  /\ exposed = FALSE /\ td = {} /\ consumed = FALSE
  /\ call = [c \in Calls |-> Idle] /\ tokens = [u \in Urls |-> 0] /\ issued = 0 /\ expired = 0

-----------------------------------------------------------------------------
(* The application of the thing.                                           *)

Edit == edits > 0 /\ edits' = edits - 1 /\ UNCHANGED <<setup, consumerVars, expired>>

(* expose and disable regenerate the forms; so does refresh_forms.         *)
SetExposed(on) ==
  /\ Edit /\ exposed # on /\ exposed' = on
  /\ BuildForms(IF on THEN setup.servers ELSE {})
  /\ UNCHANGED <<interactions, made, handled>>

RefreshForms ==
  /\ Edit /\ BuildForms(IF exposed THEN setup.servers ELSE {})
  /\ UNCHANGED <<exposed, interactions, made, handled>>

EditInteractions ==
  /\ Edit /\ UNCHANGED exposed
  /\ \E n \in Names :
       \/ AddProperty(n) \/ AddAction(n) \/ AddEvent(n) \/ RemoveInteraction(n)
       \/ \E k \in Kinds : SetHandler(k, n)

-----------------------------------------------------------------------------
(* The consumer.                                                           *)

UnchangedThing == UNCHANGED <<setup, edits, exposed, interactionVars>>

(* thing_fragment, interaction by interaction.                             *)
Fragment(i) == [id |-> i.id, name |-> i.name, kind |-> i.kind, forms |-> forms[i.id]]

(* The catalogue lists the things that are enabled.                        *)
Catalogue == IF exposed THEN {{Fragment(i) : i \in interactions}} ELSE {}

(* fetch and consume.                                                      *)
Consume ==
  /\ ~consumed /\ consumed' = TRUE
  /\ td' \in Catalogue
  /\ UnchangedThing /\ UNCHANGED <<call, tokens, issued, expired>>

(* The clients of a servient that is given none, in their order.           *)
DefaultClients == <<"ws", "http", "zenoh", "coap", "mqtt">>

Preference ==
  [property |-> <<"mqtt", "zenoh", "http", "coap", "ws">>,
   action |-> <<"http", "ws", "mqtt", "zenoh", "coap">>,
   event |-> <<"ws", "mqtt", "zenoh", "coap", "http">>]

(* Mutant of Supports: any form will do.                                   *)
SupportsAny(client, entry) == entry.forms # {}

(* is_supported_interaction: whatever the verb.                            *)
Supports(client, entry) == client \in entry.forms

SelectClient(entry) ==
  LET order == Preference[entry.kind]
      choices == {i \in DOMAIN order : order[i] \in Range(setup.clients) /\ Supports(order[i], entry)}
  IN IF choices # {} THEN order[Min(choices)] ELSE Head(setup.clients)

(* Requests of these are signed: writes over HTTP are not.                 *)
Signs(client, verb) == client = "coap" \/ (client = "http" /\ verb # "write")

(* What needs a holder exists for HTTP only.                               *)
HasCredential(client) ==
  setup.credential # "none" /\ (setup.credential = "token" => client = "http")

WithCredential(r) == [r EXCEPT !.phase = "sent", !.creds = setup.credential]

(* sign_request: a known credential is added; a token that is not in the   *)
(* table is asked of the holder; what has no implementation raises.        *)
Sign(r, table) ==
  IF ~Signs(r.client, r.verb) \/ ~HasCredential(r.client) THEN [r EXCEPT !.phase = "sent"]
  ELSE IF setup.credential = "unsupported" THEN [r EXCEPT !.phase = "failed"]
  ELSE IF setup.credential # "token" THEN WithCredential(r)
  ELSE IF table[UrlOf(r)] = 0 THEN [r EXCEPT !.phase = "asking"]
  ELSE [r EXCEPT !.phase = "sent", !.token = table[UrlOf(r)]]

(* The interactions of one kind that a consumed thing has under a name.    *)
ConsumedAs(kind, n) == Named(td, kind, n)

(* read, write, invoke or subscribe to what is found under a name: a       *)
(* client is selected and picks a form.                                    *)
BeginCall(c) ==
  /\ c \in setup.calls /\ call[c].phase = "idle" /\ consumed
  /\ \E k \in Kinds, n \in Names : \E entry \in ConsumedAs(k, n), verb \in VerbsOf[k] :
       LET client == SelectClient(entry)
           r == [phase |-> "begun", entry |-> entry, verb |-> verb, client |-> client, creds |-> "none",
                 token |-> 0, before |-> 0, did |-> "nothing", by |-> 0, attempt |-> 1]
       IN call' = [call EXCEPT ![c] =
            IF client \in entry.forms /\ CanPick(client, verb) THEN Sign(r, tokens)
            ELSE [r EXCEPT !.phase = "no form"]]
  /\ UnchangedThing /\ UNCHANGED <<td, consumed, tokens, issued, expired>>

(* holder_token_request, which may fail: sign_request raises where the      *)
(* request would be sent, and the attempt has failed.                      *)
HolderAnswers(c) ==
  /\ call[c].phase = "asking"
  /\ \/ /\ issued < MaxTokens /\ issued' = issued + 1
        /\ call' = [call EXCEPT ![c].phase = "issued", ![c].token = issued + 1]
     \/ call' = [call EXCEPT ![c].phase = "refused"] /\ UNCHANGED issued
  /\ UnchangedThing /\ UNCHANGED <<td, consumed, tokens, expired>>

StoreToken(c) ==
  /\ call[c].phase = "issued"
  /\ tokens' = [tokens EXCEPT ![UrlOf(call[c])] = call[c].token]
  /\ call' = [call EXCEPT ![c].phase = "sent"]
  /\ UnchangedThing /\ UNCHANGED <<td, consumed, issued, expired>>

-----------------------------------------------------------------------------
(* The servers.                                                            *)

Proxied(r) == setup.credential = "token" /\ r.client = "http"

(* An authenticator that is not implemented raises; the one for tokens     *)
(* returns nothing, which counts as no.                                    *)
HttpAuthenticates(r) ==
  setup.scheme = "nosec" \/ (setup.scheme = "known" /\ r.creds = "right")

(* The same schemes, but for tokens, which are unknown.                    *)
CoapAuthenticates(r) == HttpAuthenticates(r)

(* _check_credentials, which the other servers do not have.                *)
Admits(r) ==
  /\ r.client = "http" => HttpAuthenticates(r) /\ (Proxied(r) => r.token > expired)
  /\ r.client = "coap" => CoapAuthenticates(r)

(* The interactions that the request finds: by URL name, but exactly over  *)
(* WebSockets, where writes go through the dictionary of the thing, and    *)
(* what is observed is found by the name or by a URL name that equals it.  *)
Finds(r, verb) ==
  {i \in Named(interactions, KindOf(verb), r.entry.name) :
     \/ r.client # "ws" \/ verb = "write" \/ i.name = r.entry.name
     \/ verb = "observe" /\ UrlNameOf[i.name] = r.entry.name}

(* The interaction i is found for r, taken for verb, and does what it is   *)
(* asked.                                                                  *)
Serves(r, verb, i) ==
  exposed /\ Admits(r) /\ verb \in RoutedTo(r.client, r.verb) /\ i \in Finds(r, verb) /\ Works(i)

Serve(c) ==
  /\ call[c].phase = "sent"
  /\ \/ \E v \in Verbs, i \in interactions :
          /\ Serves(call[c], v, i)
          /\ call' = [call EXCEPT ![c].phase = "served", ![c].did = v, ![c].by = i.id]
     \/ /\ \A v \in Verbs, i \in interactions : ~Serves(call[c], v, i)
        /\ call' = [call EXCEPT ![c].phase = "refused"]
  /\ UnchangedThing /\ UNCHANGED <<td, consumed, tokens, issued, expired>>

(* Mutant of MayRetry: it is sent again until it is served.                *)
MayRetryAlways(r) == r.client = "http" /\ r.verb = "read" /\ setup.credential = "token"

(* A read whose token may have expired is signed and sent once more,       *)
(* whatever the reason of the failure: no answer, a refusal, or a holder   *)
(* that gave no token at all.                                              *)
MayRetry(r) ==
  r.client = "http" /\ r.verb = "read" /\ setup.credential = "token" /\ r.attempt = 1

(* Mutant of WithoutToken: the token is not forgotten.                     *)
WithToken(r) == tokens

(* What is forgotten may be a token that another read has just stored.     *)
WithoutToken(r) == [tokens EXCEPT ![UrlOf(r)] = 0]

Retry(c) ==
  /\ call[c].phase = "refused" /\ MayRetry(call[c])
  /\ LET r == call[c] IN
       /\ tokens' = WithoutToken(r)
       /\ call' = [call EXCEPT ![c] =
            Sign([r EXCEPT !.attempt = @ + 1, !.before = issued, !.token = 0], tokens')]
  /\ UnchangedThing /\ UNCHANGED <<td, consumed, issued, expired>>

GiveUp(c) ==
  /\ call[c].phase = "refused" /\ ~MayRetry(call[c])
  /\ call' = [call EXCEPT ![c].phase = "failed"]
  /\ UnchangedThing /\ UNCHANGED <<td, consumed, tokens, issued, expired>>

Expire ==
  /\ expired < issued /\ expired' = expired + 1
  /\ UnchangedThing /\ UNCHANGED consumerVars

Ended == {"served", "failed", "no form"}

Done ==
  /\ edits = 0 /\ (consumed => td = {} \/ \A c \in setup.calls : call[c].phase \in Ended)
  /\ UNCHANGED vars

Next ==
  \/ \E on \in BOOLEAN : SetExposed(on)
  \/ RefreshForms \/ EditInteractions
  \/ Consume \/ Expire
  \/ \E c \in Calls :
       BeginCall(c) \/ HolderAnswers(c) \/ StoreToken(c) \/ Serve(c) \/ Retry(c) \/ GiveUp(c)
  \/ Done

Spec == Init /\ [][Next]_vars

-----------------------------------------------------------------------------
(* Properties.                                                             *)

Request ==
  [phase : {"asking", "issued", "sent", "refused"} \cup Ended, entry : Entry, verb : Verbs,
   client : Protocols, creds : {"none", "right", "wrong"}, token : 0..MaxTokens,
   before : 0..MaxTokens, did : Verbs \cup {"nothing"}, by : {0} \cup Ids, attempt : 1..2]

(* Every variable has its type; above all, no call is sent a third time    *)
(* (HTTPClient.read_property, wotpy/protocols/http/client.py:217).         *)
TypeOK ==
  /\ setup \in Scenarios /\ edits \in Nat /\ {exposed, consumed} \subseteq BOOLEAN
  /\ InteractionsTypeOK /\ td \subseteq Entry
  /\ call \in [Calls -> {Idle} \cup Request] /\ tokens \in [Urls -> 0..MaxTokens]
  /\ issued \in 0..MaxTokens /\ expired \in 0..issued

(* A call is served by the interaction that the description spoke of, and  *)
(* as the verb that was meant, whichever client, form and address it took  *)
(* and whatever was added in between.  Only a call for an interaction that *)
(* is no longer there may meet an other one of the same URL name.          *)
ReachesWhatWasMeant ==
  [][\A c \in Calls : call[c].phase # "served" /\ call'[c].phase = "served" =>
       /\ call'[c].did = call[c].verb
       /\ call'[c].by = call[c].entry.id \/ \A i \in interactions : i.id # call[c].entry.id]_vars

(* A call fails for want of a form only if no client of the servient could *)
(* have made it with the description at hand, although a client is         *)
(* selected without regard to the verb (Servient._default_select_client,   *)
(* wotpy/wot/servient.py:200).                                             *)
SelectedCanDo ==
  \A c \in Calls : call[c].phase = "no form" =>
    \A p \in Range(setup.clients) : ~(p \in call[c].entry.forms /\ CanPick(p, call[c].verb))

(* A second attempt carries a token that the holder has issued after the   *)
(* first one failed, and never the token that failed nor one that another  *)
(* read has stored meanwhile, whether the first attempt was refused or its *)
(* signing failed, and however the reads of one address interleave: the    *)
(* token of the address is forgotten and looked up in one step             *)
(* (wotpy/protocols/http/client.py:223, http/credential.py:258).           *)
RetryIsFresh ==
  \A c \in Calls : call[c].phase = "sent" /\ call[c].attempt = 2 => call[c].token > call[c].before
=============================================================================
