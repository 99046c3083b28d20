--------------------------- MODULE ObservedThing ---------------------------
(***************************************************************************)
(* An exposed thing (wotpy/wot/exposed/thing.py) with one event or one     *)
(* observable property, and the observers of it behind one protocol        *)
(* binding.  Events, and values of the property, are numbered.  A write    *)
(* calls the handler of the property, which may suspend after it has       *)
(* stored the value, and emits the change when the handler has returned;   *)
(* emit_event is one step.  The stream calls its subscribers in that step. *)
(*                                                                         *)
(* Writes do not overlap: of two that do, the one that was stored first    *)
(* may be emitted last.                                                    *)
(***************************************************************************)
EXTENDS Naturals, Sequences

CONSTANTS
  Observers,
  MaxVersion  \* bound: the events or changes that happen

ASSUME ObservedThingAssumption == MaxVersion \in Nat

VARIABLES
  active,   \* bound: the observers there are
  kind,     \* what is observed
  served,   \* whether the server of the binding has the thing
  version,  \* the number of the last event or of the stored value
  emitted,  \* the number of the last item of the stream
  since,    \* the number of the last item before each observer's subscription
  losses,   \* bound: the faults of the network still to come
  status, seen  \* as in EventStream

sourceVars == <<active, kind, served, version, emitted>>
observerVars == <<status, seen>>

SourceTypeOK ==
  /\ active \subseteq Observers
  /\ kind \in {"event", "property"} /\ served \in BOOLEAN
  /\ version \in 0..MaxVersion /\ emitted \in {version, version - 1} /\ emitted \in Nat
  /\ since \in [Observers -> 0..MaxVersion]
  /\ status \in [Observers -> {"off", "on", "left"}]
  /\ seen \in [Observers -> 0..MaxVersion] /\ losses \in Nat

SourceInit ==
  /\ served = TRUE /\ version = 0 /\ emitted = 0
  /\ since = [o \in Observers |-> 0]
  /\ status = [o \in Observers |-> "off"] /\ seen = [o \in Observers |-> 0]

(* The handler of a write stores the value.                                *)
Store ==
  /\ kind = "property" /\ version = emitted /\ version < MaxVersion
  /\ version' = version + 1

(* The change event of the write, or emit_event.                           *)
Emission ==
  /\ IF kind = "property" THEN emitted < version /\ UNCHANGED version
     ELSE version < MaxVersion /\ version' = version + 1
  /\ emitted' = version'
  /\ UNCHANGED <<active, kind, served>>

(* The servient disables the thing, and enables it again.                  *)
Toggle == served' = ~served /\ UNCHANGED <<active, kind, version, emitted>>

Observe(o) ==
  /\ o \in active /\ status[o] = "off"
  /\ status' = [status EXCEPT ![o] = "on"]
  /\ UNCHANGED seen

Show(o, v) ==
  /\ seen' = [seen EXCEPT ![o] = v]
  /\ UNCHANGED status

(* The observer unsubscribes, or gets an error.                            *)
Leave(o) ==
  /\ status[o] = "on"
  /\ status' = [status EXCEPT ![o] = "left"]
  /\ UNCHANGED seen
=============================================================================
