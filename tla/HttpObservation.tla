-------------------------- MODULE HttpObservation --------------------------
(***************************************************************************)
(* Observation over HTTP: long polling (wotpy/protocols/http/client.py and *)
(* the observer handlers of wotpy/protocols/http/handlers).  Each poll of  *)
(* the client is a request that subscribes, waits for one item, answers    *)
(* with it and disposes of the subscription.  The client gives a poll up   *)
(* after a while and sends the next; the server does not notice and keeps  *)
(* the subscription of the old one until something is emitted.             *)
(*                                                                         *)
(* External: requests may be slow, and arrive after they were given up.    *)
(***************************************************************************)
EXTENDS ObservedThing

CONSTANT MaxPolls  \* bound: the polls of each observer

ASSUME MaxPollsAssumption == MaxPolls \in Nat \ {0}

VARIABLES
  polling,  \* whether each observer's loop waits for its last poll
  sent,     \* the polls each observer has sent
  polls     \* the requests at the server

httpVars == <<polling, sent, polls>>

PollState == [at : {"none", "travelling", "waiting", "ready", "answered", "refused"},
              since : 0..MaxVersion, item : 0..MaxVersion]

HttpTypeOK ==
  /\ polling \in [Observers -> BOOLEAN] /\ sent \in [Observers -> 0..MaxPolls]
  /\ polls \in [Observers -> [1..MaxPolls -> PollState]]

HttpInit ==
  /\ polling = [o \in Observers |-> FALSE] /\ sent = [o \in Observers |-> 0]
  /\ polls = [o \in Observers |-> [n \in 1..MaxPolls |->
                                     [at |-> "none", since |-> 0, item |-> 0]]]

HttpSubscribe(o) == Observe(o) /\ UNCHANGED <<sourceVars, since, losses, httpVars>>

(* The loop of the client, while state["active"].                          *)
Poll(o) ==
  /\ status[o] = "on" /\ ~polling[o] /\ sent[o] < MaxPolls
  /\ polling' = [polling EXCEPT ![o] = TRUE]
  /\ sent' = [sent EXCEPT ![o] = @ + 1]
  /\ polls' = [polls EXCEPT ![o][sent'[o]].at = "travelling"]
  /\ UNCHANGED <<sourceVars, since, losses, observerVars>>

(* get, up to the wait for future_next.                                    *)
HttpGet(o, n) ==
  /\ polls[o][n].at = "travelling"
  /\ polls' = [polls EXCEPT ![o][n].at = IF served THEN "waiting" ELSE "refused",
                            ![o][n].since = emitted]
  /\ UNCHANGED <<sourceVars, since, losses, observerVars, polling, sent>>

(* Mutant of Resolved: a future that is done is set again.                 *)
ResolvedAgain(p, v) == IF p.at \in {"waiting", "ready"} THEN [p EXCEPT !.at = "ready", !.item = v] ELSE p

Resolved(p, v) == IF p.at = "waiting" THEN [p EXCEPT !.at = "ready", !.item = v] ELSE p

HttpEmission ==
  /\ Emission
  /\ polls' = [o \in Observers |-> [n \in 1..MaxPolls |-> Resolved(polls[o][n], emitted')]]
  /\ UNCHANGED <<since, losses, observerVars, polling, sent>>

(* The rest of get, and on_finish.                                         *)
HttpFinish(o, n) ==
  /\ polls[o][n].at = "ready"
  /\ polls' = [polls EXCEPT ![o][n].at = "answered"]
  /\ UNCHANGED <<sourceVars, since, losses, observerVars, polling, sent>>

(* Mutant of Current: the answer to a poll that was given up is taken.     *)
AnyPoll(o) == 1..sent[o]

Current(o) == {sent[o]}

HttpAnswered(o) ==
  /\ polling[o]
  /\ polling' = [polling EXCEPT ![o] = FALSE]
  /\ \E n \in Current(o) :
       \/ polls[o][n].at = "answered" /\ status[o] = "on" /\ Show(o, polls[o][n].item)
       \/ polls[o][n].at = "refused" /\ Leave(o)
       \/ polls[o][n].at \in {"answered", "refused"} /\ status[o] = "left" /\ UNCHANGED observerVars
  /\ UNCHANGED <<sourceVars, since, losses, sent, polls>>

HttpTimesOut(o) ==
  /\ polling[o]
  /\ polling' = [polling EXCEPT ![o] = FALSE]
  /\ UNCHANGED <<sourceVars, since, losses, observerVars, sent, polls>>

HttpUnsubscribe(o) == Leave(o) /\ UNCHANGED <<sourceVars, since, losses, httpVars>>

HttpServerTask(o) == \E n \in 1..MaxPolls : HttpGet(o, n) \/ HttpFinish(o, n)

HttpClientTask(o) == Poll(o) \/ HttpAnswered(o) \/ HttpTimesOut(o)

HttpOther(o) == HttpSubscribe(o) \/ HttpUnsubscribe(o)
=============================================================================
