--------------------------- MODULE ServientProofs ---------------------------
(***************************************************************************)
(* Proofs about Servient, for any things, names and servers.               *)
(***************************************************************************)
EXTENDS Servient, ServientLifecycleProofs

(* The servers and things of a Servient live the life ServientLifecycle    *)
(* gives them.                                                             *)
LEMMA LifecycleRefined == [Next]_vars => [LifecycleNext]_lifecycleVars
BY DEF Next, Produce, Enable, Disable, Remove, RemoveEnabled, Start,
       LifecycleNext, LifecycleStep, vars

(* Servient implements ServientLifecycle, whose theorems therefore hold of *)
(* it.                                                                     *)
THEOREM ServientImplementsLifecycle == Spec => LifecycleSpec
<1>1. Init => LifecycleInit
  BY DEF Init
<1>2. [Next]_vars => [LifecycleNext]_lifecycleVars
  BY LifecycleRefined
<1> QED
  BY <1>1, <1>2, PTL DEF Spec, LifecycleSpec

-----------------------------------------------------------------------------
(* A collection is keyed by title.                                         *)
UniqueTitles(set) == \A t, q \in set : TitleOf[t] = TitleOf[q] => t = q

TitlesUnique ==
  /\ UniqueTitles(things)
  /\ \A s \in Servers : UniqueTitles(hosted[s])

(* The application passes titles, none of which is the URL name of a thing *)
(* with another title, and attaches its servers before it exposes.         *)
ClearNames ==
  /\ \A t \in Things, name \in UsedNames :
       UrlNameOf[t] = name => TitleOf[t] = name
  /\ \A t, q \in Things : UrlNameOf[t] = TitleOf[q] => TitleOf[t] = TitleOf[q]
  /\ ~LateServers

(* A server out of the servient has nothing: it will serve what is enabled *)
(* when it is attached, which is nothing.                                  *)
ServingInv ==
  /\ TypeOK
  /\ UniqueTitles(things)
  /\ ServesEnabled
  /\ \A name \in enabled : \E t \in things : TitleOf[t] = name
  /\ \A s \in Servers \ servers : hosted[s] = {}

-----------------------------------------------------------------------------
(* Forms stay sets of protocols.                                           *)
LEMMA FormsType ==
  ASSUME ServersAssumption, TypeOK, NEW S \in SUBSET Servers,
         NEW hosting \in [Servers -> SUBSET Things]
  PROVE  Regenerate(S, hosting) \in [Things -> SUBSET Protocols]
BY DEF ServersAssumption, TypeOK, Regenerate, Regenerated, ProtocolsOf

(* Adding, removing, starting and stopping servers, and start's refresh of *)
(* the forms.                                                              *)
LEMMA LifecycleServing ==
  ASSUME ClearNames, ServingInv, LifecycleTypeOK',
         Start \/ (LifecycleStep /\ ServersFixed /\ UNCHANGED thingVars)
  PROVE  ServingInv'
<1>1. CASE LifecycleStep /\ ServersFixed /\ UNCHANGED thingVars
  <2>1. servers' = servers \/ enabled = {}
    BY <1>1 DEF ClearNames, ServersFixed
  <2> QED
    BY <1>1, <2>1
       DEF ServingInv, TypeOK, LifecycleTypeOK, ServesEnabled, UniqueTitles, thingVars
<1>2. CASE Start
  BY <1>2, ServersAssumption
     DEF ServingInv, TypeOK, LifecycleTypeOK, ServesEnabled, UniqueTitles,
         Start, BeginStart, StartForms, Refreshed, ProtocolsOf
<1> QED
  BY <1>1, <1>2

(* WoT.produce.                                                            *)
LEMMA ProduceServing ==
  ASSUME ServingInv, NEW t \in Things, Produce(t)
  PROVE  ServingInv'
BY DEF ServingInv, TypeOK, LifecycleTypeOK, lifecycleVars, iterationVars,
       socketVars, ServesEnabled, UniqueTitles, Produce, CanAdd, HasTitle

(* Every attached server accepts a thing that is not enabled, and none     *)
(* accepts one that is: enable_exposed_thing reaches all or nothing.       *)
LEMMA EnableServing ==
  ASSUME ClearNames, ServingInv, NEW name \in UsedNames, Enable(name)
  PROVE  ServingInv'
<1>1. PICK t \in Matching(things, name) :
        \E reached \in Reached(Willing(t)) :
          /\ hosted' = [s \in Servers |->
                          IF s \in reached THEN hosted[s] \cup {t} ELSE hosted[s]]
          /\ forms' = Regenerate(reached, hosted')
          /\ enabled' = IF reached = servers THEN enabled \cup {TitleOf[t]} ELSE enabled
          /\ UNCHANGED <<lifecycleVars, things, produced>>
  BY DEF Enable
<1>2. PICK reached \in Reached(Willing(t)) :
          /\ hosted' = [s \in Servers |->
                          IF s \in reached THEN hosted[s] \cup {t} ELSE hosted[s]]
          /\ forms' = Regenerate(reached, hosted')
          /\ enabled' = IF reached = servers THEN enabled \cup {TitleOf[t]} ELSE enabled
          /\ UNCHANGED <<lifecycleVars, things, produced>>
  BY <1>1
<1>3. t \in things /\ t \in Things
  BY DEF Matching, ServingInv, TypeOK
<1>4. Willing(t) = IF TitleOf[t] \in enabled THEN {} ELSE servers
  BY <1>3 DEF Willing, CanAdd, HasTitle, ServingInv, ServesEnabled, UniqueTitles
<1>5. reached = servers \/ (reached = {} /\ TitleOf[t] \in enabled)
  BY <1>2, <1>4 DEF Reached
<1>6. TypeOK'
  <2>1. reached \in SUBSET Servers
    BY <1>5 DEF ServingInv, TypeOK, LifecycleTypeOK
  <2>2. hosted' \in [Servers -> SUBSET Things]
    BY <1>2, <1>3 DEF ServingInv, TypeOK
  <2>3. forms' \in [Things -> SUBSET Protocols]
    BY <1>2, <2>1, <2>2, FormsType, ServersAssumption DEF ServingInv
  <2> QED
    BY <1>2, <1>3, <2>2, <2>3, ThingsAssumption
       DEF ServingInv, TypeOK, LifecycleTypeOK, lifecycleVars, iterationVars, socketVars
<1>7. ServesEnabled'
  BY <1>2, <1>3, <1>5, ThingsAssumption
     DEF ServingInv, TypeOK, LifecycleTypeOK, ServesEnabled, UniqueTitles, lifecycleVars
<1> QED
  BY <1>2, <1>3, <1>5, <1>6, <1>7
     DEF ServingInv, TypeOK, LifecycleTypeOK, UniqueTitles, lifecycleVars

(* Every attached server has an enabled thing, and nothing else under its  *)
(* title: disable_exposed_thing reaches all of them and drops that thing.  *)
LEMMA DisableServing ==
  ASSUME ClearNames, ServingInv, NEW t \in things, TitleOf[t] \in enabled,
         NEW reached \in Reached(Holding(t)), DisableOn(t, reached),
         UNCHANGED <<lifecycleVars, produced>>
  PROVE  /\ reached = servers
         /\ enabled' = enabled \ {TitleOf[t]}
         /\ hosted' = [s \in Servers |->
                         IF s \in servers THEN hosted[s] \ {t} ELSE hosted[s]]
         /\ forms' \in [Things -> SUBSET Protocols]
<1>1. t \in Things /\ things \subseteq Things /\ servers \subseteq Servers
  BY DEF ServingInv, TypeOK, LifecycleTypeOK
<1>2. \A s \in servers : Matching(hosted[s], TitleOf[t]) = {t}
  BY <1>1, ThingsAssumption
     DEF ClearNames, ServingInv, ServesEnabled, UniqueTitles, Matching
<1>3. reached = servers
  BY <1>2 DEF Holding, Reached
<1>4. hosted' = [s \in Servers |->
                  IF s \in servers THEN hosted[s] \ {t} ELSE hosted[s]]
  BY <1>1, <1>2, <1>3 DEF DisableOn
<1>5. forms' \in [Things -> SUBSET Protocols]
  <2>1. hosted' \in [Servers -> SUBSET Things]
    BY <1>4 DEF ServingInv, TypeOK
  <2> QED
    BY <1>1, <1>3, <2>1, FormsType, ServersAssumption DEF DisableOn, ServingInv
<1> QED
  BY <1>3, <1>4, <1>5 DEF DisableOn

(* The invariant after a disable that also removes the things of gone.     *)
LEMMA DisabledServing ==
  ASSUME ServingInv, NEW t \in things, NEW gone \in SUBSET {t},
         things' = things \ gone,
         enabled' = enabled \ {TitleOf[t]},
         hosted' = [s \in Servers |->
                     IF s \in servers THEN hosted[s] \ {t} ELSE hosted[s]],
         forms' \in [Things -> SUBSET Protocols],
         UNCHANGED <<lifecycleVars, produced>>
  PROVE  ServingInv'
BY DEF ServingInv, TypeOK, LifecycleTypeOK, ServesEnabled, UniqueTitles,
       lifecycleVars, iterationVars, socketVars

(* One step of the servient.                                               *)
LEMMA ServingStep ==
  ASSUME ClearNames, ServingInv, LifecycleTypeOK', [Next]_vars
  PROVE  ServingInv'
<1>1. ASSUME NEW t \in Things, Produce(t) PROVE ServingInv'
  BY <1>1, ProduceServing
<1>2. ASSUME NEW name \in UsedNames, Enable(name) PROVE ServingInv'
  BY <1>2, EnableServing
<1>3. ASSUME NEW name \in UsedNames, Disable(name) PROVE ServingInv'
  <2>1. PICK t \in Matching(things, name) : \E reached \in Reached(Holding(t)) :
          /\ TitleOf[t] \in enabled
          /\ DisableOn(t, reached)
          /\ UNCHANGED <<lifecycleVars, things, produced>>
    BY <1>3 DEF Disable
  <2>2. t \in things
    BY DEF Matching
  <2>3. /\ enabled' = enabled \ {TitleOf[t]}
        /\ hosted' = [s \in Servers |->
                        IF s \in servers THEN hosted[s] \ {t} ELSE hosted[s]]
        /\ forms' \in [Things -> SUBSET Protocols]
    BY <2>1, <2>2, DisableServing
  <2>4. things' = things \ {}
    BY <2>1
  <2> QED
    BY <2>1, <2>2, <2>3, <2>4, DisabledServing
<1>4. ASSUME NEW name \in UsedNames, Remove(name) PROVE ServingInv'
  <2>1. CASE name \in enabled
    <3>1. PICK t \in Matching(things, name) : \E reached \in Reached(Holding(t)) :
            /\ TitleOf[t] \in enabled
            /\ DisableOn(t, reached)
            /\ things' = IF reached = servers THEN things \ {t} ELSE things
            /\ UNCHANGED <<lifecycleVars, produced>>
      BY <1>4, <2>1 DEF Remove, RemoveEnabled
    <3>2. t \in things
      BY DEF Matching
    <3>3. /\ enabled' = enabled \ {TitleOf[t]}
          /\ hosted' = [s \in Servers |->
                          IF s \in servers THEN hosted[s] \ {t} ELSE hosted[s]]
          /\ forms' \in [Things -> SUBSET Protocols]
          /\ things' = things \ {t}
      BY <3>1, <3>2, DisableServing
    <3> QED
      BY <3>1, <3>2, <3>3, DisabledServing
  <2>2. CASE name \notin enabled
    <3>1. PICK t \in Matching(things, name) :
            /\ things' = things \ {t}
            /\ UNCHANGED <<lifecycleVars, produced, enabled, hosted, forms>>
      BY <1>4, <2>2 DEF Remove
    <3>2. TitleOf[t] = name
      BY DEF Matching, ClearNames, ServingInv, TypeOK
    <3> QED
      BY <2>2, <3>1, <3>2
         DEF ServingInv, TypeOK, LifecycleTypeOK, ServesEnabled, UniqueTitles,
             lifecycleVars, iterationVars, socketVars
  <2> QED
    BY <2>1, <2>2
<1>5. CASE Start \/ (LifecycleStep /\ ServersFixed /\ UNCHANGED thingVars)
  BY <1>5, LifecycleServing
<1>6. CASE UNCHANGED vars
  BY <1>6
     DEF vars, thingVars, lifecycleVars, iterationVars, socketVars, ServingInv,
         TypeOK, LifecycleTypeOK, ServesEnabled, UniqueTitles
<1> QED
  BY <1>1, <1>2, <1>3, <1>4, <1>5, <1>6 DEF Next

(* Titles as names and servers attached first: then each attached server   *)
(* serves the enabled things and nothing else, in every state.             *)
THEOREM ServesEnabledTheorem ==
  ASSUME ClearNames
  PROVE  Spec => []ServesEnabled
<1>1. Init => ServingInv /\ AnyInv
  BY LifecycleInitInv, ServersAssumption
     DEF Init, AnyInv, ServingInv, TypeOK, LifecycleInit, ServesEnabled, UniqueTitles
<1>2. ServingInv /\ AnyInv /\ [Next]_vars => ServingInv' /\ AnyInv'
  BY ServingStep, AnyStep, LifecycleRefined DEF AnyInv
<1>3. ServingInv => ServesEnabled
  BY DEF ServingInv
<1> QED
  BY <1>1, <1>2, <1>3, PTL DEF Spec

(* remove_exposed_thing keeps the word of its docstring                    *)
(* (wotpy/wot/servient.py:507) to such an application: no server keeps a   *)
(* thing that was removed.  Only a URL name passed for a title, or servers *)
(* that come and go under an enabled thing, can break it.                  *)
THEOREM RemovedNotServedTheorem ==
  ASSUME ClearNames
  PROVE  Spec => []RemovedNotServed
<1>1. ServesEnabled => RemovedNotServed
  BY DEF ServesEnabled, RemovedNotServed
<1> QED
  BY <1>1, ServesEnabledTheorem, PTL

-----------------------------------------------------------------------------
(* However the servient is used.                                           *)

(* The things that a disable takes from the servers it reaches.            *)
LEMMA DisableType ==
  ASSUME TypeOK, \A s \in Servers : UniqueTitles(hosted[s]), NEW t \in things,
         NEW reached \in Reached(Holding(t)), DisableOn(t, reached)
  PROVE  /\ hosted' \in [Servers -> SUBSET Things] /\ \A s \in Servers : UniqueTitles(hosted'[s])
         /\ \A s \in Servers : hosted'[s] \subseteq hosted[s]
         /\ \A s \in Servers \ reached : hosted'[s] = hosted[s]
         /\ forms' = Regenerate(reached, hosted') /\ forms' \in [Things -> SUBSET Protocols]
         /\ reached \subseteq servers /\ enabled' \in SUBSET Names
<1>1. reached \subseteq servers /\ servers \subseteq Servers
  BY DEF Reached, Holding, TypeOK, LifecycleTypeOK
<1>2. PICK found \in [reached -> Things] :
        hosted' = [s \in Servers |-> IF s \in reached THEN hosted[s] \ {found[s]} ELSE hosted[s]]
  BY DEF DisableOn
<1>3. /\ hosted' \in [Servers -> SUBSET Things] /\ \A s \in Servers : hosted'[s] \subseteq hosted[s]
      /\ \A s \in Servers \ reached : hosted'[s] = hosted[s]
  BY <1>1, <1>2 DEF TypeOK
<1>4. \A s \in Servers : UniqueTitles(hosted'[s])
  BY <1>3 DEF UniqueTitles
<1>5. forms' = Regenerate(reached, hosted') /\ enabled' \in SUBSET Names
  BY DEF DisableOn, TypeOK
<1> QED
  BY <1>1, <1>3, <1>4, <1>5, FormsType, ServersAssumption

(* The things that an enable gives to the servers it reaches.              *)
LEMMA EnableType ==
  ASSUME TypeOK, \A s \in Servers : UniqueTitles(hosted[s]), NEW t \in things,
         NEW reached \in Reached(Willing(t)),
         hosted' = [s \in Servers |-> IF s \in reached THEN hosted[s] \cup {t} ELSE hosted[s]],
         forms' = Regenerate(reached, hosted'),
         enabled' = IF reached = servers THEN enabled \cup {TitleOf[t]} ELSE enabled
  PROVE  /\ hosted' \in [Servers -> SUBSET Things] /\ \A s \in Servers : UniqueTitles(hosted'[s])
         /\ \A s \in Servers : hosted'[s] \subseteq hosted[s] \cup {t}
         /\ \A s \in Servers \ reached : hosted'[s] = hosted[s]
         /\ forms' \in [Things -> SUBSET Protocols]
         /\ reached \subseteq servers /\ enabled' \in SUBSET Names
<1>1. reached \subseteq Willing(t) /\ reached \subseteq servers /\ servers \subseteq Servers /\ t \in Things
  BY DEF Reached, Willing, TypeOK, LifecycleTypeOK
<1>2. /\ hosted' \in [Servers -> SUBSET Things] /\ \A s \in Servers : hosted'[s] \subseteq hosted[s] \cup {t}
      /\ \A s \in Servers \ reached : hosted'[s] = hosted[s]
  BY <1>1 DEF TypeOK
<1>3. \A s \in Servers : UniqueTitles(hosted'[s])
  BY <1>1 DEF UniqueTitles, Willing, CanAdd, HasTitle
<1>4. enabled' \in SUBSET Names
  BY <1>1, ThingsAssumption DEF TypeOK
<1> QED
  BY <1>1, <1>2, <1>3, <1>4, FormsType, ServersAssumption

(* What holds of the things of every servient: an object that has not been *)
(* produced yet is nowhere, and has no forms.                              *)
ThingsInv ==
  /\ TypeOK /\ OneServerPerProtocol /\ TitlesUnique
  /\ \A t \in Things \ produced : forms[t] = {} /\ \A s \in Servers : t \notin hosted[s]

(* What the forms of the things of the servient should be.                 *)
FormsRight == \A t \in things : forms[t] = ProtocolsOf({s \in servers : t \in hosted[s]})

(* They are right from the refresh of start on, unless servers are added   *)
(* or removed on the way or a stop raises.                                 *)
Undisturbed ==
  \/ phase = "starting" /\ last # "disturbed"
  \/ phase = "idle" /\ running /\ last \notin {"disturbed", "failed"}

FormsInv == Undisturbed => FormsRight

(* With one server of each protocol, those that changed what they have     *)
(* rebuild exactly the forms that changed.                                 *)
LEMMA RegeneratedRight ==
  ASSUME ThingsInv, FormsRight, NEW S \in SUBSET servers, hosted' \in [Servers -> SUBSET Things],
         \A s \in Servers \ S : hosted'[s] = hosted[s],
         forms' = Regenerate(S, hosted'), UNCHANGED servers, things' \subseteq things
  PROVE  FormsRight'
<1> SUFFICES ASSUME NEW t \in things'
             PROVE  forms'[t] = ProtocolsOf({s \in servers : t \in hosted'[s]})
  BY DEF FormsRight
<1>1. t \in things /\ t \in Things /\ servers \subseteq Servers
  BY DEF ThingsInv, TypeOK, LifecycleTypeOK
<1>2. forms'[t] = (forms[t] \ ProtocolsOf(S)) \cup ProtocolsOf({s \in S : t \in hosted'[s]})
  BY <1>1 DEF Regenerate, Regenerated
<1>3. forms[t] = ProtocolsOf({s \in servers : t \in hosted[s]})
  BY <1>1 DEF FormsRight
<1>4. ASSUME NEW p \in forms'[t] PROVE p \in ProtocolsOf({s \in servers : t \in hosted'[s]})
  <2>1. CASE p \in ProtocolsOf({s \in S : t \in hosted'[s]})
    BY <2>1 DEF ProtocolsOf
  <2>2. CASE p \in forms[t] \ ProtocolsOf(S)
    <3>1. PICK s \in servers : t \in hosted[s] /\ p = ProtocolOf[s]
      BY <1>3, <2>2 DEF ProtocolsOf
    <3>2. s \notin S
      BY <2>2, <3>1 DEF ProtocolsOf
    <3> QED
      BY <1>1, <3>1, <3>2 DEF ProtocolsOf
  <2> QED
    BY <1>2, <1>4, <2>1, <2>2
<1>5. ASSUME NEW p \in ProtocolsOf({s \in servers : t \in hosted'[s]}) PROVE p \in forms'[t]
  <2>1. PICK s \in servers : t \in hosted'[s] /\ p = ProtocolOf[s]
    BY DEF ProtocolsOf
  <2>2. CASE s \in S
    BY <1>2, <2>1, <2>2 DEF ProtocolsOf
  <2>3. CASE s \notin S
    <3>1. p \in forms[t]
      BY <1>1, <1>3, <2>1, <2>3 DEF ProtocolsOf
    <3>2. \A q \in S : ProtocolOf[q] # p
      BY <2>1, <2>3 DEF ThingsInv, OneServerPerProtocol
    <3> QED
      BY <1>2, <3>1, <3>2 DEF ProtocolsOf
  <2> QED
    BY <2>2, <2>3
<1> QED
  BY <1>4, <1>5

(* A step of the things alone, in which the servers of S change.           *)
LEMMA ThingsStep ==
  ASSUME ThingsInv, NEW S \in SUBSET servers, hosted' \in [Servers -> SUBSET Things],
         \A s \in Servers : UniqueTitles(hosted'[s]) /\ hosted'[s] \subseteq hosted[s] \cup things,
         \A s \in Servers \ S : hosted'[s] = hosted[s],
         forms' = Regenerate(S, hosted'), forms' \in [Things -> SUBSET Protocols],
         UNCHANGED <<lifecycleVars, produced>>, things' \subseteq things, enabled' \in SUBSET Names
  PROVE  ThingsInv' /\ (FormsInv => FormsInv')
<1>1. UNCHANGED <<servers, phase, pending, size, running, last, handle, listening, produced>>
  BY DEF lifecycleVars, iterationVars, socketVars
<1>2. TypeOK'
  BY <1>1 DEF ThingsInv, TypeOK, LifecycleTypeOK
<1>3. OneServerPerProtocol' /\ TitlesUnique'
  BY <1>1 DEF ThingsInv, OneServerPerProtocol, TitlesUnique, UniqueTitles
<1>4. ASSUME NEW t \in Things \ produced
      PROVE  forms'[t] = {} /\ \A s \in Servers : t \notin hosted'[s]
  <2>1. t \notin things
    BY DEF ThingsInv, TypeOK
  <2> QED
    BY <2>1 DEF ThingsInv, Regenerate
<1>5. FormsInv => FormsInv'
  BY <1>1, RegeneratedRight DEF FormsInv, Undisturbed
<1> QED
  BY <1>1, <1>2, <1>3, <1>4, <1>5 DEF ThingsInv


(* WoT.produce: the new thing has no forms and no server has it.           *)
LEMMA ProduceThings ==
  ASSUME ThingsInv, NEW t \in Things, Produce(t)
  PROVE  ThingsInv' /\ (FormsInv => FormsInv')
<1>1. UNCHANGED <<servers, phase, pending, size, running, last, handle, listening,
                  enabled, hosted, forms>>
  BY DEF Produce, lifecycleVars, iterationVars, socketVars
<1>2. things' = things \cup {t} /\ produced' = produced \cup {t} /\ t \notin produced
  BY DEF Produce
<1>3. TypeOK'
  BY <1>1, <1>2 DEF ThingsInv, TypeOK, LifecycleTypeOK
<1>4. OneServerPerProtocol' /\ TitlesUnique'
  BY <1>1, <1>2
     DEF ThingsInv, TypeOK, OneServerPerProtocol, TitlesUnique, UniqueTitles, Produce,
         CanAdd, HasTitle
<1>5. ASSUME FormsRight PROVE FormsRight'
  <2>1. forms[t] = {} /\ \A s \in servers : t \notin hosted[s]
    BY <1>2 DEF ThingsInv, TypeOK, LifecycleTypeOK
  <2>2. forms[t] = ProtocolsOf({s \in servers : t \in hosted[s]})
    BY <2>1 DEF ProtocolsOf
  <2> QED
    BY <1>1, <1>2, <1>5, <2>2 DEF FormsRight, ProtocolsOf
<1>6. FormsInv => FormsInv'
  BY <1>1, <1>5 DEF FormsInv, Undisturbed
<1> QED
  BY <1>1, <1>2, <1>3, <1>4, <1>6 DEF ThingsInv

(* A loop over _servers reaches servers.                                   *)
LEMMA ReachedServers ==
  ASSUME TypeOK, NEW willing, NEW reached \in Reached(willing)
  PROVE  reached \in SUBSET Servers
BY DEF Reached, TypeOK, LifecycleTypeOK

(* enable_exposed_thing, however far it gets.                              *)
LEMMA EnableThings ==
  ASSUME ThingsInv, NEW name \in UsedNames, Enable(name)
  PROVE  ThingsInv' /\ (FormsInv => FormsInv')
<1>1. PICK t \in Matching(things, name), reached \in SUBSET Servers :
          /\ reached \in Reached(Willing(t))
          /\ hosted' = [s \in Servers |->
                          IF s \in reached THEN hosted[s] \cup {t} ELSE hosted[s]]
          /\ forms' = Regenerate(reached, hosted')
          /\ enabled' = IF reached = servers THEN enabled \cup {TitleOf[t]} ELSE enabled
          /\ UNCHANGED <<lifecycleVars, things, produced>>
  BY ReachedServers DEF Enable, ThingsInv
<1>2. t \in things
  BY DEF Matching
<1>3. TypeOK /\ \A s \in Servers : UniqueTitles(hosted[s])
  BY DEF ThingsInv, TitlesUnique
<1>4. /\ hosted' \in [Servers -> SUBSET Things] /\ \A s \in Servers : UniqueTitles(hosted'[s])
      /\ \A s \in Servers : hosted'[s] \subseteq hosted[s] \cup {t}
      /\ \A s \in Servers \ reached : hosted'[s] = hosted[s]
      /\ forms' \in [Things -> SUBSET Protocols]
      /\ reached \subseteq servers /\ enabled' \in SUBSET Names
  BY <1>1, <1>2, <1>3, EnableType
<1>5. \A s \in Servers : UniqueTitles(hosted'[s]) /\ hosted'[s] \subseteq hosted[s] \cup things
  BY <1>2, <1>4
<1>6. things' \subseteq things /\ UNCHANGED <<lifecycleVars, produced>>
  BY <1>1
<1> QED
  BY <1>1, <1>4, <1>5, <1>6, ThingsStep

(* disable_exposed_thing, however far it gets, and a removal after it.     *)
LEMMA DisableThings ==
  ASSUME ThingsInv, NEW t \in things, NEW reached \in Reached(Holding(t)),
         DisableOn(t, reached), UNCHANGED <<lifecycleVars, produced>>, things' \subseteq things
  PROVE  ThingsInv' /\ (FormsInv => FormsInv')
<1>1. TypeOK /\ \A s \in Servers : UniqueTitles(hosted[s])
  BY DEF ThingsInv, TitlesUnique
<1>2. /\ hosted' \in [Servers -> SUBSET Things] /\ \A s \in Servers : UniqueTitles(hosted'[s])
      /\ \A s \in Servers : hosted'[s] \subseteq hosted[s]
      /\ \A s \in Servers \ reached : hosted'[s] = hosted[s]
      /\ forms' = Regenerate(reached, hosted') /\ forms' \in [Things -> SUBSET Protocols]
      /\ reached \subseteq servers /\ enabled' \in SUBSET Names
  BY <1>1, DisableType
<1>3. \A s \in Servers : UniqueTitles(hosted'[s]) /\ hosted'[s] \subseteq hosted[s] \cup things
  BY <1>2
<1> QED
  BY <1>2, <1>3, ThingsStep

(* remove_exposed_thing, of a name that is enabled or not.                 *)
LEMMA RemoveThings ==
  ASSUME ThingsInv, NEW name \in UsedNames, Remove(name)
  PROVE  ThingsInv' /\ (FormsInv => FormsInv')
<1>1. CASE name \in enabled
  <2>1. PICK t \in Matching(things, name), reached \in SUBSET Servers :
            /\ reached \in Reached(Holding(t))
            /\ DisableOn(t, reached)
            /\ things' = IF reached = servers THEN things \ {t} ELSE things
            /\ UNCHANGED <<lifecycleVars, produced>>
    BY <1>1, ReachedServers DEF Remove, RemoveEnabled, ThingsInv
  <2>2. t \in things /\ things' \subseteq things
    BY <2>1 DEF Matching
  <2> QED
    BY <2>1, <2>2, DisableThings
<1>2. CASE name \notin enabled
  <2>1. PICK t \in Matching(things, name) :
            /\ things' = things \ {t}
            /\ UNCHANGED <<lifecycleVars, produced, enabled, hosted, forms>>
    BY <1>2 DEF Remove
  <2>2. UNCHANGED <<servers, phase, pending, size, running, last, handle, listening,
                    produced, enabled, hosted, forms>>
    BY <2>1 DEF lifecycleVars, iterationVars, socketVars
  <2>3. TypeOK'
    BY <2>1, <2>2 DEF ThingsInv, TypeOK, LifecycleTypeOK
  <2>4. OneServerPerProtocol' /\ TitlesUnique'
    BY <2>1, <2>2 DEF ThingsInv, OneServerPerProtocol, TitlesUnique, UniqueTitles
  <2>5. FormsInv => FormsInv'
    BY <2>1, <2>2 DEF FormsInv, Undisturbed, FormsRight, ProtocolsOf
  <2> QED
    BY <2>2, <2>3, <2>4, <2>5 DEF ThingsInv
<1> QED
  BY <1>1, <1>2

(* start() refreshes the forms of the things of the servient.              *)
LEMMA StartThings ==
  ASSUME ThingsInv, Start, LifecycleTypeOK', OneServerPerProtocol'
  PROVE  ThingsInv' /\ FormsInv'
<1>1. UNCHANGED <<servers, things, produced, enabled, hosted>>
  BY DEF Start, BeginStart
<1>2. forms' = [t \in Things |-> IF t \in things THEN Refreshed(t) ELSE forms[t]]
  BY DEF Start, StartForms
<1>3. things \subseteq produced /\ things \subseteq Things /\ servers \subseteq Servers
  BY DEF ThingsInv, TypeOK, LifecycleTypeOK
<1>4. forms' \in [Things -> SUBSET Protocols]
  BY <1>2, <1>3, ServersAssumption DEF ThingsInv, TypeOK, Refreshed, ProtocolsOf
<1>5. TypeOK' /\ TitlesUnique'
  BY <1>1, <1>4 DEF ThingsInv, TypeOK, TitlesUnique, UniqueTitles
<1>6. \A t \in Things \ produced : forms'[t] = {} /\ \A s \in Servers : t \notin hosted[s]
  BY <1>2, <1>3 DEF ThingsInv
<1>7. FormsRight'
  BY <1>1, <1>2, <1>3 DEF FormsRight, Refreshed, ProtocolsOf
<1> QED
  BY <1>1, <1>5, <1>6, <1>7 DEF ThingsInv, FormsInv, Undisturbed

(* The other steps of the life cycle leave the things alone; servers that  *)
(* are left alone under a start are the same until shutdown.               *)
LEMMA LifecycleThings ==
  ASSUME ThingsInv, LifecycleStep, UNCHANGED thingVars, LifecycleTypeOK', OneServerPerProtocol'
  PROVE  ThingsInv' /\ (FormsInv => FormsInv')
<1>1. UNCHANGED <<things, produced, enabled, hosted, forms>>
  BY DEF thingVars
<1>2. ThingsInv'
  BY <1>1 DEF ThingsInv, TypeOK, TitlesUnique, UniqueTitles
<1>3. Undisturbed' => Undisturbed /\ UNCHANGED servers
  BY DEF Undisturbed, LifecycleStep, AddServer, RemoveServer, StoppedServientOnly, Edited,
         StartServer, StartServerFails, StopServer, StopServerFails, IterationBreaks, EndStart,
         CatalogueFails, BeginShutdown, EndShutdown, Begin, End, Completed
<1>4. ASSUME FormsInv PROVE FormsInv'
  BY <1>1, <1>3, <1>4 DEF FormsInv, FormsRight, ProtocolsOf
<1> QED
  BY <1>2, <1>4

(* One step of the servient.                                               *)
LEMMA ThingsNext ==
  ASSUME ThingsInv, [Next]_vars, LifecycleTypeOK', OneServerPerProtocol'
  PROVE  ThingsInv' /\ (FormsInv => FormsInv')
<1>1. ASSUME NEW t \in Things, Produce(t) PROVE ThingsInv' /\ (FormsInv => FormsInv')
  BY <1>1, ProduceThings
<1>2. ASSUME NEW name \in UsedNames, Enable(name)
      PROVE  ThingsInv' /\ (FormsInv => FormsInv')
  BY <1>2, EnableThings
<1>3. ASSUME NEW name \in UsedNames, Disable(name)
      PROVE  ThingsInv' /\ (FormsInv => FormsInv')
  <2>1. PICK t \in Matching(things, name), reached \in SUBSET Servers :
            /\ reached \in Reached(Holding(t))
            /\ DisableOn(t, reached)
            /\ UNCHANGED <<lifecycleVars, things, produced>>
    BY <1>3, ReachedServers DEF Disable, ThingsInv
  <2>2. t \in things /\ things' \subseteq things
    BY <2>1 DEF Matching
  <2> QED
    BY <2>1, <2>2, DisableThings
<1>4. ASSUME NEW name \in UsedNames, Remove(name)
      PROVE  ThingsInv' /\ (FormsInv => FormsInv')
  BY <1>4, RemoveThings
<1>5. CASE Start
  BY <1>5, StartThings
<1>6. CASE LifecycleStep /\ ServersFixed /\ UNCHANGED thingVars
  BY <1>6, LifecycleThings
<1>7. CASE UNCHANGED vars
  <2>1. UNCHANGED <<servers, phase, running, last, things, produced, enabled, hosted, forms>>
    BY <1>7 DEF vars, thingVars, lifecycleVars, iterationVars
  <2>2. ThingsInv'
    BY <2>1 DEF ThingsInv, TypeOK, TitlesUnique, UniqueTitles
  <2> QED
    BY <2>1, <2>2 DEF FormsInv, Undisturbed, FormsRight, ProtocolsOf
<1> QED
  BY <1>1, <1>2, <1>3, <1>4, <1>5, <1>6, <1>7 DEF Next

(* The empty servient has everything right.                                *)
LEMMA ThingsInit == Init => AnyInv /\ ThingsInv /\ FormsInv
<1> SUFFICES ASSUME Init PROVE AnyInv /\ ThingsInv /\ FormsInv
  OBVIOUS
<1>1. AnyInv
  BY LifecycleInitInv DEF Init
<1> QED
  BY <1>1
     DEF Init, LifecycleInit, AnyInv, ThingsInv, FormsInv, Undisturbed, TypeOK, TitlesUnique, UniqueTitles

(* The type invariant, however the servient is used.                       *)
THEOREM TypeCorrect == Spec => []TypeOK
<1>1. Init => AnyInv /\ ThingsInv
  BY ThingsInit
<1>2. AnyInv /\ ThingsInv /\ [Next]_vars => (AnyInv /\ ThingsInv)'
  BY AnyStep, LifecycleRefined, ThingsNext DEF AnyInv
<1>3. ThingsInv => TypeOK
  BY DEF ThingsInv
<1> QED
  BY <1>1, <1>2, <1>3, PTL DEF Spec

(* While the servient runs the forms are those of the servers that have    *)
(* the thing, although an enable or a disable may stop half way, for a     *)
(* servient whose servers were left alone under its start and none of      *)
(* whose stops has raised since.                                           *)
THEOREM FormsMatchServersTheorem == Spec => []FormsMatchServers
<1>1. Init => AnyInv /\ ThingsInv /\ FormsInv
  BY ThingsInit
<1>2. AnyInv /\ ThingsInv /\ FormsInv /\ [Next]_vars => (AnyInv /\ ThingsInv /\ FormsInv)'
  BY AnyStep, LifecycleRefined, ThingsNext DEF AnyInv
<1>3. FormsInv => FormsMatchServers
  BY DEF FormsInv, Undisturbed, FormsRight, FormsMatchServers
<1> QED
  BY <1>1, <1>2, <1>3, PTL DEF Spec
=============================================================================
