------------------------------ MODULE RollBook ------------------------------
(***************************************************************************)
(* What the service promises of a roll, without stores, goroutines, hub or *)
(* restarts: it is entered in the book and stays there, its table is told  *)
(* of it, with its number in the book, only after that and at most once,   *)
(* and no other table ever is.  A roll may be lost before either, and one  *)
(* in the book may never be told.                                          *)
(*                                                                         *)
(* Other events of a table are told as rolls too.  They are in no book and *)
(* have no number, and by that alone a table can tell them from rolls.     *)
(***************************************************************************)
EXTENDS Naturals, Sequences

CONSTANTS Messages, Tables, KindOf, TableOf

VARIABLES
  book, \* the rolls that have been entered
  told  \* what each table has been told, in order

bookVars == <<book, told>>

BookInit ==
  /\ book = {}
  /\ told = [t \in Tables |-> <<>>]

Enter(m) ==
  /\ KindOf[m] = "roll"
  /\ book' = book \cup {m}
  /\ UNCHANGED told

\* What a table is told of a message.
Line(m) ==
  [msg |-> m, type |-> IF KindOf[m] = "system" THEN "system" ELSE "roll",
   numbered |-> KindOf[m] = "roll"]

Tell(m) ==
  /\ KindOf[m] = "roll" => m \in book
  /\ \A i \in 1..Len(told[TableOf[m]]) : told[TableOf[m]][i].msg # m
  /\ told' = [told EXCEPT ![TableOf[m]] = Append(@, Line(m))]
  /\ UNCHANGED book

BookNext == \E m \in Messages : Enter(m) \/ Tell(m)

BookSpec == BookInit /\ [][BookNext]_bookVars
=============================================================================
