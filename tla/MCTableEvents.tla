---------------------------- MODULE MCTableEvents ----------------------------
(***************************************************************************)
(* Instances of TableEvents for TLC.                                       *)
(***************************************************************************)
EXTENDS TableEvents, TLC

CONSTANTS m1, m2, m3, m4, m5, t1, t2

\* Three rolls, another table event, and an announcement of the hub.
Kinds == [m \in Messages |-> IF m = m4 THEN "other" ELSE IF m = m5 THEN "system" ELSE "roll"]

\* m3 is at the other table.
TwoTables == [m \in Messages |-> IF m = m3 THEN t2 ELSE t1]

\* m1 and m2 are alike: rolls at one table.
Twins == Permutations({m1, m2})

\* The system may stop once every message has met its end.
Terminated ==
  /\ \A m \in Messages : stage[m] \in {"done", "failed", "lost"}
  /\ clock = MaxTime
  /\ restarts = MaxRestarts

MCNext == Next \/ (Terminated /\ UNCHANGED vars)
MCSpec == Init /\ [][MCNext]_vars
=============================================================================
