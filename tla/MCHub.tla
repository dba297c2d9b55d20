------------------------------- MODULE MCHub -------------------------------
(***************************************************************************)
(* Instances of Hub for TLC: who joins which table, who sends what.        *)
(***************************************************************************)
EXTENDS Hub, TLC

CONSTANTS c1, c2, c3, t1, t2, u1, u2, m1, m2

\* One user per connection, all at one table.
OneTable  == [c \in Clients |-> t1]
TwoUsers  == [c \in Clients |-> IF c = c1 THEN u1 ELSE u2]
\* u1 has two connections.
OneUser == [c \in Clients |-> u1]
\* c3 is at the other table.
TwoTables == [c \in Clients |-> IF c = c3 THEN t2 ELSE t1]
\* With OneUser, c1 and c2 are then alike.
Twins == Permutations({c1, c2})

FromC1 == [m \in Messages |-> c1]

(***************************************************************************)
(* The system may stop only when every connection of the instance has come *)
(* and gone and the hub waits in its select with nothing to do.            *)
(***************************************************************************)
Terminated ==
  /\ \A c \in Clients : pc[c] = "gone" /\ writer[c] = "done"
  /\ \A m \in Messages : worker[m] \in {"unsent", "done"}
  /\ hubPc = "select"
  /\ broadcast = <<>>

MCNext == Next \/ (Terminated /\ UNCHANGED vars)
MCSpec == Init /\ [][MCNext]_vars
=============================================================================
