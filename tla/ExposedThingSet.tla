-------------------------- MODULE ExposedThingSet --------------------------
(***************************************************************************)
(* The collection of ExposedThings that the servient and every server keep *)
(* (wotpy/wot/exposed/thing_set.py): a dictionary keyed by title, searched *)
(* by title or by URL name.  A collection is the set of its things; where  *)
(* a name matches several of them the code takes the first to have been    *)
(* added, here any.                                                        *)
(***************************************************************************)
CONSTANTS
  Things,     \* ExposedThing objects
  Names,      \* titles and URL names
  TitleOf,    \* the title of each thing
  UrlNameOf   \* the URL name of each thing, the slug of its title

ASSUME ThingsAssumption ==
  /\ TitleOf \in [Things -> Names]
  /\ UrlNameOf \in [Things -> Names]
  /\ \A t, q \in Things : TitleOf[t] = TitleOf[q] => UrlNameOf[t] = UrlNameOf[q]

HasTitle(set, title) == \E t \in set : TitleOf[t] = title

Matching(set, name) == {t \in set : name \in {TitleOf[t], UrlNameOf[t]}}

(* add: refused when the title is taken, whatever the URL name.            *)
CanAdd(set, t) == ~HasTitle(set, TitleOf[t])
=============================================================================
