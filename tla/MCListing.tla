----------------------------- MODULE MCListing ------------------------------
(***************************************************************************)
(* An instance of Listing for TLC.                                         *)
(***************************************************************************)
EXTENDS Listing, TLC

CONSTANTS x1, x2, x3, x4

Asked == {-1, 0, 1, 3}

AnyOrder == Permutations(NewTables)

\* The system may stop once all tables are in and all pages read.
Terminated ==
  /\ \A x \in NewTables : stage[x] \in {"in", "failed"}
  /\ reader = "done" /\ clock = MaxTime

MCNext == Next \/ (Terminated /\ UNCHANGED vars)
MCSpec == Init /\ [][MCNext]_vars
=============================================================================
