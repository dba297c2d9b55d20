------------------------------ MODULE Presence ------------------------------
(***************************************************************************)
(* What the list of a room's users promises, without the hub's cases, its  *)
(* channels and Redis' failures.  Each arrival of a connection may put its *)
(* user on the list, each departure may take the user off, in the order in *)
(* which the connections came and went.                                    *)
(*                                                                         *)
(* The list has users, not connections: the departure of one connection    *)
(* takes off a user who has another one at the table, until the next       *)
(* arrival.  An entry may be missing, or survive the process.              *)
(***************************************************************************)
CONSTANTS Tables, Users, Clients, TableOf, UserOf

VARIABLES
  attached, \* the connections the hub has taken and not yet let go
  listed,   \* the users listed in each room
  due       \* the connections whose coming or going its list is yet to be told

presenceVars == <<attached, listed, due>>

PresenceInit ==
  /\ attached = {}
  /\ listed = [t \in Tables |-> {}]
  /\ due = {}

\* The list has been told of all the user's comings and goings at the table.
UpToDate(t, u) == \A d \in due : TableOf[d] = t => UserOf[d] # u

Attach(c) ==
  /\ c \notin attached
  /\ UpToDate(TableOf[c], UserOf[c])
  /\ attached' = attached \cup {c}
  /\ due' = due \cup {c}
  /\ UNCHANGED listed

Detach(c) ==
  /\ c \in attached
  /\ UpToDate(TableOf[c], UserOf[c])
  /\ attached' = attached \ {c}
  /\ due' = due \cup {c}
  /\ UNCHANGED listed

List(c) ==
  /\ c \in due \cap attached
  /\ listed' = [listed EXCEPT ![TableOf[c]] = @ \cup {UserOf[c]}]
  /\ due' = due \ {c}
  /\ UNCHANGED attached

Unlist(c) ==
  /\ c \in due \ attached
  /\ listed' = [listed EXCEPT ![TableOf[c]] = @ \ {UserOf[c]}]
  /\ due' = due \ {c}
  /\ UNCHANGED attached

\* The list is never told.
Miss(c) ==
  /\ c \in due
  /\ due' = due \ {c}
  /\ UNCHANGED <<attached, listed>>

\* The connections end with the process, the lists do not.
Crash == attached' = {} /\ due' = {} /\ UNCHANGED listed

PresenceNext ==
  \/ \E c \in Clients : Attach(c) \/ Detach(c) \/ List(c) \/ Unlist(c) \/ Miss(c)
  \/ Crash

PresenceSpec == PresenceInit /\ [][PresenceNext]_presenceVars
=============================================================================
