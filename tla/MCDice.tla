------------------------------- MODULE MCDice -------------------------------
(***************************************************************************)
(* All formulas of up to two groups over small ints, for TLC.              *)
(***************************************************************************)
EXTENDS Dice

CONSTANTS MaxDice, MaxAmount

Groups == [dice : -1..MaxDice, amount : -1..MaxAmount]
SmallFormulas ==
  [rolls : {<<>>} \cup {<<g>> : g \in Groups} \cup {<<g, h>> : g, h \in Groups},
   mod   : Ints]

MCNext == Next \/ (pc \in {"done", "panic"} /\ UNCHANGED vars)
MCSpec == Init /\ [][MCNext]_vars
=============================================================================
