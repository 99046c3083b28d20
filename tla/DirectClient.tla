---------------------------- MODULE DirectClient ----------------------------
(***************************************************************************)
(* The HTTP and the CoAP client (wotpy/protocols/http/client.py and        *)
(* wotpy/protocols/coap/client.py): every call makes a request of its own  *)
(* and gets its own response.  An HTTP read that failed, or that could not *)
(* be signed, while an OIDC4VP credential is set forgets the token, is     *)
(* signed and asks once more, so that it may be served twice; nothing else *)
(* is repeated.  Calls of the two clients may be mixed: they share nothing *)
(* but the thing.                                                          *)
(*                                                                         *)
(* External: a request or its response may be lost (the transport repeats  *)
(* a request only under its identifier); the server may refuse a request   *)
(* or report an error.                                                     *)
(***************************************************************************)
EXTENDS RemoteThing

CONSTANTS
  Signed,    \* calls whose request is signed: all but writes over HTTP
  Renewing,  \* reads over HTTP with an OIDC4VPCredential
  Timed      \* calls that do not wait for ever: all over HTTP, those with a timeout over CoAP

ASSUME DirectAssumption ==
  /\ Signed \subseteq Calls /\ Timed \subseteq Calls
  /\ Renewing \subseteq Reads \cap Signed \cap Timed

VARIABLES
  place,    \* where each call is
  attempt,  \* the attempt each call is at
  replies   \* responses on their way

directVars == <<place, attempt, replies>>

DirectTypeOK ==
  /\ ThingTypeOK
  /\ place \in [Calls -> {"idle", "sign", "sent", "done"}]
  /\ attempt \in [Calls -> 1..2] /\ replies \subseteq Operation

DirectInit ==
  /\ place = [c \in Calls |-> "idle"] /\ attempt = [c \in Calls |-> 1] /\ replies = {}

At(c, from, to) == place[c] = from /\ place' = [place EXCEPT ![c] = to]

StartDirect(c) ==
  /\ Start(c) /\ At(c, "idle", "sign")
  /\ UNCHANGED <<thingVars, attempt, replies>>

(* Signing may suspend, to fetch a token.                                  *)
Send(c) ==
  /\ At(c, "sign", "sent")
  /\ requests' = requests \cup {c}
  /\ UNCHANGED <<active, version, served, written, answerVars, callerVars, attempt, replies>>

HandleDirect(c) == Handle(c, attempt[c]) /\ UNCHANGED directVars

(* The answer goes to the caller alone.                                    *)
ServeDirect(op) ==
  /\ Answer(op)
  /\ replies' = replies \cup {op}
  /\ UNCHANGED <<overtaken, place, attempt>>

Respond(c) ==
  /\ At(c, "sent", "done")
  /\ \E r \in replies : r.of = c /\ r.attempt = attempt[c] /\ Return(c, r.version)
  /\ UNCHANGED <<thingVars, floor, attempt, replies>>

(* Mutant of AsksAgain: a read is repeated as long as it fails.            *)
AsksForever(c) == c \in Renewing

AsksAgain(c) == c \in Renewing /\ attempt[c] = 1

(* What is raised is caught, if at all, whatever raised it.                *)
AttemptFails(c, from) ==
  /\ IF AsksAgain(c)
     THEN At(c, from, "sign") /\ attempt' = [attempt EXCEPT ![c] = @ + 1] /\ UNCHANGED outcomeVars
     ELSE At(c, from, "done") /\ Fail(c) /\ UNCHANGED attempt
  /\ UNCHANGED <<thingVars, floor, replies>>

(* sign_request raises.                                                    *)
SignFails(c) == c \in Signed /\ AttemptFails(c, "sign")

(* The request fails, is refused, or times out.                            *)
RequestFails(c) == AttemptFails(c, "sent")

DirectCallStep(c) == Send(c) \/ SignFails(c) \/ Respond(c) \/ RequestFails(c)

(* The steps that are taken in time: wait_for without a timeout waits.     *)
DirectTask(c) ==
  Send(c) \/ SignFails(c) \/ Respond(c) \/ (c \in Timed /\ RequestFails(c))

WaitsUntimed(c) ==
  /\ c \notin Timed /\ place[c] = "sent"
  /\ \A r \in replies : r.of = c => r.attempt # attempt[c]

DirectNext ==
  \/ \E c \in Calls : StartDirect(c) \/ DirectCallStep(c) \/ HandleDirect(c)
  \/ \E op \in running : ServeDirect(op)
=============================================================================
