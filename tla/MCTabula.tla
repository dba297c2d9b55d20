------------------------------ MODULE MCTabula ------------------------------
(***************************************************************************)
(* An instance of Tabula for TLC: a player at a table where two dice are   *)
(* rolled and something else happens, and a roll of a faceless die at      *)
(* another table, whose panic ends the process at any time.                *)
(***************************************************************************)
EXTENDS Tabula, TLC

CONSTANTS m1, m2, m3, m4, in, out, p1, t1, t2

Kinds ==
  [m \in Messages |->
    IF m \in {in, out} THEN "system" ELSE IF m = m4 THEN "other" ELSE "roll"]

\* m3 is at the other table.
TwoTables == [m \in Messages |-> IF m = m3 THEN t2 ELSE t1]

AtT1 == [p \in Players |-> t1]
Ins  == [p \in Players |-> in]
Outs == [p \in Players |-> out]

\* m1 and m2 are alike.
Twins == Permutations({m1, m2})

\* The system may stop once everybody and everything has come and gone.
Terminated ==
  /\ \A m \in Messages : stage[m] \in {"done", "failed", "lost"} \/ KindOf[m] = "system"
  /\ \A p \in Players : place[p] = "gone" /\ asked[p] # "no"
  /\ owed = <<>> /\ broadcast = <<>>
  /\ clock = MaxTime /\ restarts = MaxRestarts

(***************************************************************************)
(* What TLC tells states apart by: all but sent, eventCount and lastEvent, *)
(* which decide no step and are in no property of this run.                *)
(***************************************************************************)
Seen == <<stage, stamp, eventId, rows, nextId, feed, clock, restarts,
          hubVars, playerVars>>

MCNext == TabulaNext \/ (Terminated /\ UNCHANGED tabulaVars)
MCSpec == TabulaInit /\ [][MCNext]_tabulaVars
=============================================================================
