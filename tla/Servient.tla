------------------------------ MODULE Servient ------------------------------
(***************************************************************************)
(* The ExposedThings of a Servient and of its servers                      *)
(* (wotpy/wot/servient.py), on top of the life cycle of the servers.       *)
(*                                                                         *)
(* A thing is produced into the servient's collection, enabled (every      *)
(* attached server gets it), disabled and removed.  None of these          *)
(* operations suspends, but each visits the servers in turn and stops      *)
(* at the first that raises, keeping what it did before; and they may run  *)
(* between any two steps of start() and shutdown().  The forms of a thing  *)
(* are the protocols its interactions advertise; every thing is taken to   *)
(* have an interaction.                                                    *)
(***************************************************************************)
EXTENDS ServientLifecycle, ExposedThingSet

CONSTANTS
  UsedNames,    \* the names the application passes to the servient
  LateServers   \* whether servers are added or removed while things are enabled

ASSUME UsageAssumption == UsedNames \subseteq Names /\ LateServers \in BOOLEAN

VARIABLES
  things,    \* Servient._exposed_thing_set
  produced,  \* the things produced so far: each object is produced once
  enabled,   \* Servient._enabled_exposed_thing_titles
  hosted,    \* the collection of each server
  forms      \* the protocols of the autogenerated forms of each thing

thingVars == <<things, produced, enabled, hosted, forms>>
vars == <<lifecycleVars, thingVars>>

TypeOK ==
  /\ LifecycleTypeOK
  /\ things \in SUBSET produced
  /\ produced \in SUBSET Things
  /\ enabled \in SUBSET Names
  /\ hosted \in [Servers -> SUBSET Things]
  /\ forms \in [Things -> SUBSET Protocols]

Init ==
  /\ LifecycleInit
  /\ things = {}
  /\ produced = {}
  /\ enabled = {}
  /\ hosted = [s \in Servers |-> {}]
  /\ forms = [t \in Things |-> {}]

-----------------------------------------------------------------------------
(* Forms.                                                                  *)

ProtocolsOf(S) == {ProtocolOf[s] : s \in S}

(* Mutant of Regenerated: forms are added and the old ones never cleaned.  *)
RegeneratedOnly(S, hosting, t) ==
  forms[t] \cup ProtocolsOf({s \in S : t \in hosting[s]})

(* _regenerate_server_forms for each server of S: the forms of their       *)
(* protocols are cleaned, and built again by those that have the thing.    *)
Regenerated(S, hosting, t) ==
  (forms[t] \ ProtocolsOf(S)) \cup ProtocolsOf({s \in S : t \in hosting[s]})

(* Only the things of the servient are visited.                            *)
Regenerate(S, hosting) ==
  [t \in Things |-> IF t \in things THEN Regenerated(S, hosting, t) ELSE forms[t]]

(* refresh_forms.                                                          *)
Refreshed(t) == ProtocolsOf({s \in servers : t \in hosted[s]})

-----------------------------------------------------------------------------
(* Things.                                                                 *)

(* WoT.produce.                                                            *)
Produce(t) ==
  /\ t \notin produced
  /\ CanAdd(things, t)
  /\ things' = things \cup {t}
  /\ produced' = produced \cup {t}
  /\ UNCHANGED <<lifecycleVars, enabled, hosted, forms>>

(* The servers a loop over _servers reaches when only those in willing do  *)
(* not raise: all of them, or those visited before the first that raises.  *)
Reached(willing) ==
  IF servers \subseteq willing THEN {servers} ELSE SUBSET (servers \cap willing)

(* The servers whose collection accepts the thing.                         *)
Willing(t) == {s \in servers : CanAdd(hosted[s], t)}

(* enable_exposed_thing, called by ExposedThing.expose.                    *)
Enable(name) ==
  \E t \in Matching(things, name) : \E reached \in Reached(Willing(t)) :
    /\ hosted' = [s \in Servers |->
                    IF s \in reached THEN hosted[s] \cup {t} ELSE hosted[s]]
    /\ forms' = Regenerate(reached, hosted')
    /\ enabled' = IF reached = servers THEN enabled \cup {TitleOf[t]} ELSE enabled
    /\ UNCHANGED <<lifecycleVars, things, produced>>

(* The servers of reached drop what they find under the title, which may   *)
(* be a thing with that URL name; the title is disabled if all did.        *)
DisableOn(t, reached) ==
  /\ \E found \in [reached -> Things] :
       /\ \A s \in reached : found[s] \in Matching(hosted[s], TitleOf[t])
       /\ hosted' = [s \in Servers |->
                       IF s \in reached THEN hosted[s] \ {found[s]} ELSE hosted[s]]
  /\ forms' = Regenerate(reached, hosted')
  /\ enabled' = IF reached = servers THEN enabled \ {TitleOf[t]} ELSE enabled

Holding(t) == {s \in servers : Matching(hosted[s], TitleOf[t]) # {}}

(* disable_exposed_thing.                                                  *)
Disable(name) ==
  \E t \in Matching(things, name) : \E reached \in Reached(Holding(t)) :
    /\ TitleOf[t] \in enabled
    /\ DisableOn(t, reached)
    /\ UNCHANGED <<lifecycleVars, things, produced>>

(* remove_exposed_thing, called by ExposedThing.destroy, of a title that   *)
(* is enabled: the thing is disabled first, and stays when that raises.    *)
RemoveEnabled(name) ==
  \E t \in Matching(things, name) : \E reached \in Reached(Holding(t)) :
    /\ TitleOf[t] \in enabled
    /\ DisableOn(t, reached)
    /\ things' = IF reached = servers THEN things \ {t} ELSE things
    /\ UNCHANGED <<lifecycleVars, produced>>

(* The test for an enabled thing is made on the argument, title or not.    *)
Remove(name) ==
  IF name \in enabled
  THEN RemoveEnabled(name)
  ELSE /\ \E t \in Matching(things, name) : things' = things \ {t}
       /\ UNCHANGED <<lifecycleVars, produced, enabled, hosted, forms>>

-----------------------------------------------------------------------------
(* The life cycle.                                                         *)

(* Mutant of StartForms: the servers stand in place of their protocols.    *)
FormsOfServers(t) == {s \in servers : t \in hosted[s]}

(* The forms of a thing of the servient after start's refresh_forms.       *)
StartForms(t) == Refreshed(t)

(* start() regenerates the forms first (create_default_forms).             *)
Start ==
  /\ BeginStart
  /\ forms' = [t \in Things |-> IF t \in things THEN StartForms(t) ELSE forms[t]]
  /\ UNCHANGED <<things, produced, enabled, hosted>>

(* The discipline LateServers names.                                       *)
ServersFixed == ~LateServers /\ enabled # {} => UNCHANGED servers

Next ==
  \/ \E t \in Things : Produce(t)
  \/ \E name \in UsedNames : Enable(name) \/ Disable(name) \/ Remove(name)
  \/ Start
  \/ LifecycleStep /\ ServersFixed /\ UNCHANGED thingVars

Spec == Init /\ [][Next]_vars

-----------------------------------------------------------------------------
(* The servers attached serve the enabled things of the servient and       *)
(* nothing else: no enable or disable stopped half way, nothing removed    *)
(* is still served.                                                        *)
ServesEnabled ==
  \A s \in servers : hosted[s] = {t \in things : TitleOf[t] \in enabled}

(* While the servient runs, what a thing advertises is what is there: it   *)
(* has forms for a protocol exactly if the server of that protocol has it, *)
(* although an enable or a disable may stop half way.  Forms are built     *)
(* before start awaits the servers, so this is for servients whose servers *)
(* were left alone under their start, and none of whose stops has raised.  *)
FormsMatchServers ==
  running /\ phase = "idle" /\ last \notin {"disturbed", "failed"} =>
    \A t \in things : forms[t] = ProtocolsOf({s \in servers : t \in hosted[s]})

(* remove_exposed_thing "disables and removes an ExposedThing from this    *)
(* Servient" (servient.py:507): no server keeps a thing that was removed.  *)
RemovedNotServed == \A s \in servers : hosted[s] \subseteq things
=============================================================================
