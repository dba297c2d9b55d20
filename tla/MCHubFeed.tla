----------------------------- MODULE MCHubFeed ------------------------------
(***************************************************************************)
(* Instances of HubFeed for TLC.                                           *)
(***************************************************************************)
EXTENDS HubFeed

CONSTANTS c1, c2, t1, t2, u1, u2, m1, m2

OneTable  == [c \in Clients |-> t1]
TwoTables == [c \in Clients |-> IF c = c1 THEN t1 ELSE t2]
TwoUsers  == [c \in Clients |-> IF c = c1 THEN u1 ELSE u2]
\* u1 has two connections.
OneUser   == [c \in Clients |-> u1]
FromC1    == [m \in Messages |-> c1]

\* Every connection has come and gone and the hub has nothing to do.
Terminated ==
  /\ \A c \in Clients : pc[c] = "gone" /\ writer[c] = "done"
  /\ \A m \in Messages : worker[m] \in {"unsent", "done"}
  /\ hubPc = "select"
  /\ broadcast = <<>>

MCNext == RecordNext \/ (Terminated /\ UNCHANGED allVars)
MCSpec == RecordInit /\ [][MCNext]_allVars
=============================================================================
