---------------------------- MODULE Interactions ----------------------------
(***************************************************************************)
(* The interactions of an exposed thing (wotpy/wot/thing.py,               *)
(* wotpy/wot/interaction.py, wotpy/wot/exposed/thing.py): added and removed*)
(* by the application at any time, found by name or by URL name.  An       *)
(* interaction is its object, id, under a name; its handlers and its value *)
(* are kept by object.  The forms of an interaction are abstracted to the  *)
(* protocols they belong to, and are built when the servient looks at the  *)
(* thing, not when the interaction is added.                               *)
(*                                                                         *)
(* An addition that is refused raises and changes nothing.  Properties are *)
(* writable; the fragment of a thing declares no forms of its own.         *)
(***************************************************************************)
EXTENDS Forms, Naturals, FiniteSets

CONSTANTS
  Names,      \* names of interactions
  UrlNameOf,  \* the slug of each name, which is a name as well
  MaxIds      \* bound: interactions ever created

ASSUME InteractionsAssumption ==
  /\ UrlNameOf \in [Names -> Names] /\ \A n \in Names : UrlNameOf[UrlNameOf[n]] = UrlNameOf[n]
  /\ MaxIds \in Nat \ {0}

VARIABLES
  interactions,  \* _properties, _actions and _events
  made,          \* the number of interactions created so far
  forms,         \* the protocols of the forms of each
  handled        \* those for which the application has set a handler

interactionVars == <<interactions, made, forms, handled>>

Ids == 1..MaxIds
Interaction == [id : Ids, name : Names, kind : Kinds]

InteractionsTypeOK ==
  /\ interactions \subseteq Interaction /\ made \in 0..MaxIds /\ handled \subseteq 1..made
  /\ \A i \in interactions : i.id <= made
  /\ forms \in [Ids -> SUBSET Protocols]

(* A thing is produced from a fragment with at most one interaction; more  *)
(* are added by the same steps as later.                                   *)
InteractionsInit ==
  /\ \/ interactions = {} /\ made = 0
     \/ made = 1 /\ \E n \in Names, k \in Kinds : interactions = {[id |-> 1, name |-> n, kind |-> k]}
  /\ forms = [i \in Ids |-> {}] /\ handled = {}

-----------------------------------------------------------------------------
(* find_interaction, which looks at all kinds.                             *)
Found(n) == {i \in interactions : i.name = n \/ UrlNameOf[i.name] = n}

(* The interaction that an exposed or consumed dictionary of one kind has  *)
(* under a name, however it is written.                                    *)
Named(things, kind, n) == {i \in things : i.kind = kind /\ UrlNameOf[i.name] = UrlNameOf[n]}

(* Mutant of Duplicate: the URL name is not looked for.                    *)
DuplicateName(n) == Found(n) # {}

Duplicate(n) == Found(n) # {} \/ Found(UrlNameOf[n]) # {}

AddInteraction(kind, n) ==
  /\ made < MaxIds /\ ~Duplicate(n)
  /\ made' = made + 1
  /\ interactions' = interactions \cup {[id |-> made + 1, name |-> n, kind |-> kind]}
  /\ UNCHANGED forms

AddProperty(n) == AddInteraction("property", n) /\ UNCHANGED handled

(* With a handler or without.                                              *)
AddAction(n) == AddInteraction("action", n) /\ handled' \in {handled, handled \cup {made + 1}}

AddEvent(n) == AddInteraction("event", n) /\ UNCHANGED handled

Without(n) == {j \in interactions : j.name # n}

(* remove_property, remove_action and remove_event: whatever is found by   *)
(* the name is removed, of whatever kind it is.  Its handlers stay behind. *)
RemoveInteraction(n) ==
  /\ \E i \in Found(n) : interactions' = Without(i.name)
  /\ UNCHANGED <<made, forms, handled>>

(* set_action_handler and the handlers of properties: by name alone.       *)
SetHandler(kind, n) ==
  /\ kind # "event"
  /\ \E i \in interactions : i.kind = kind /\ i.name = n /\ handled' = handled \cup {i.id}
  /\ UNCHANGED <<interactions, made, forms>>

(* The forms of every interaction there is are those of these servers.     *)
BuildForms(servers) ==
  forms' = [i \in Ids |-> IF \E j \in interactions : j.id = i THEN servers ELSE forms[i]]

(* Properties and events always have a handler, or a default that works.   *)
Works(i) == i.kind = "action" => i.id \in handled

-----------------------------------------------------------------------------
(* Properties.                                                             *)

(* The URL name, in which all bindings but one address an interaction,     *)
(* says which interaction of the thing is meant, whatever its kind         *)
(* (Thing.add_interaction, wotpy/wot/thing.py:214).                        *)
NamesDistinct ==
  \A i, j \in interactions : UrlNameOf[i.name] = UrlNameOf[j.name] => i = j
=============================================================================
