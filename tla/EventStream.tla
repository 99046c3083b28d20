---------------------------- MODULE EventStream ----------------------------
(***************************************************************************)
(* What an observer of a remote event or property may rely on, whatever    *)
(* the protocol: it is shown nothing that has not happened, nothing unless *)
(* it observes, and never something older than what it was shown before,   *)
(* but for items that were held back.  It may miss what happens, and be    *)
(* shown something twice.  What happens is numbered.                       *)
(***************************************************************************)
EXTENDS Naturals

CONSTANT Observers

VARIABLES
  version,  \* the number of the last event, or of the current value
  status,   \* of each observer
  seen,     \* the number of the last item each observer was shown
  late      \* items that were held back on their way

streamVars == <<version, status, seen, late>>

StreamInit ==
  /\ version = 0
  /\ status = [o \in Observers |-> "off"]
  /\ seen = [o \in Observers |-> 0]
  /\ late = {}

Change == version' = version + 1 /\ UNCHANGED <<status, seen, late>>

Observe(o) ==
  /\ status[o] = "off"
  /\ status' = [status EXCEPT ![o] = "on"]
  /\ UNCHANGED <<version, seen, late>>

Show(o, v) ==
  /\ status[o] = "on" /\ v <= version
  /\ v >= seen[o] \/ v \in late
  /\ seen' = [seen EXCEPT ![o] = v]
  /\ UNCHANGED <<version, status, late>>

Leave(o) ==
  /\ status[o] = "on"
  /\ status' = [status EXCEPT ![o] = "left"]
  /\ UNCHANGED <<version, seen, late>>

HoldBack(items) == late' = late \cup items /\ UNCHANGED <<version, status, seen>>

StreamStep ==
  \/ Change
  \/ \E items \in SUBSET (0..version) : HoldBack(items)
  \/ \E o \in Observers : Observe(o) \/ Leave(o) \/ (\E v \in 0..version : Show(o, v))

StreamSpec == StreamInit /\ [][StreamStep]_streamVars
=============================================================================
