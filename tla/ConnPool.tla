------------------------------ MODULE ConnPool ------------------------------
(***************************************************************************)
(* What a protocol client promises about the connections it shares between *)
(* concurrent requests: the connection to a server is brought up only for  *)
(* somebody, stays up as long as anybody uses it, and goes down together   *)
(* with its last user.  ConnRefCounter (wotpy/protocols/refs.py) is the    *)
(* counter the clients build this promise on: a set of reference ids for   *)
(* every connection id.                                                    *)
(***************************************************************************)

CONSTANTS
  Conns,  \* connection ids (the server URLs)
  Users   \* reference ids (one uuid per request)

VARIABLES
  users,  \* ConnRefCounter._counter: the references held on each connection
  up      \* the connections the client holds established

vars == <<users, up>>

TypeOK ==
  /\ users \in [Conns -> SUBSET Users]
  /\ up \in SUBSET Conns

Init ==
  /\ users = [c \in Conns |-> {}]
  /\ up = {}

(* ConnRefCounter.increase and decrease.  Adding a reference twice and     *)
(* removing an unknown one leave the set as it is (the code only warns).   *)
Increase(c, u) == [users EXCEPT ![c] = @ \cup {u}]

Decrease(c, u) == [users EXCEPT ![c] = @ \ {u}]

Enter(c, u) ==
  /\ users' = Increase(c, u)
  /\ UNCHANGED up

Open(c) ==
  /\ users[c] # {}
  /\ up' = up \cup {c}
  /\ UNCHANGED users

(* The last user to leave takes the connection down in the same step.      *)
Leave(c, u) ==
  /\ users' = Decrease(c, u)
  /\ up' = IF users'[c] = {} THEN up \ {c} ELSE up

Next ==
  \E c \in Conns :
    \/ \E u \in Users : Enter(c, u) \/ Leave(c, u)
    \/ Open(c)

Spec == Init /\ [][Next]_vars
=============================================================================
