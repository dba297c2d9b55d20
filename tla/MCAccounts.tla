----------------------------- MODULE MCAccounts -----------------------------
(***************************************************************************)
(* Instances of Accounts for TLC: three registrations that compete for two *)
(* names and two emails, two tables, and connections whose ids the         *)
(* sequences may or may not reach.                                         *)
(***************************************************************************)
EXTENDS Accounts

CONSTANTS r1, r2, r3, r4, q1, q2, w1, w2, ann, bob, annMail, bobMail

NameOfReq  == [r \in Registrations |-> IF r \in {r1, r2} THEN ann ELSE bob]
EmailOfReq == [r \in Registrations |-> IF r \in {r1, r3} THEN annMail ELSE bobMail]
\* r4's password is one letter too long.
Passwords  == [r \in Registrations |-> IF r = r4 THEN 31 ELSE 30]
\* ann's name has the least length the code allows, bob's the greatest.
Lengths    == [n \in Names |-> IF n = ann THEN 3 ELSE 30]
MailLength == [e \in Emails |-> 12]
Creator    == [q \in Creations |-> IF q = q1 THEN ann ELSE bob]
Titles     == [q \in Creations |-> IF q = q1 THEN 50 ELSE 3]
UserIds    == [c \in Connections |-> IF c = w1 THEN 1 ELSE 2]
TableIds   == [c \in Connections |-> 1]

\* The system may stop once every request has been answered or lost.
Terminated ==
  /\ \A r \in Registrations : regPc[r] \notin Busy \cup {"new"}
  /\ \A q \in Creations : createPc[q] \notin Busy \cup {"new"}
  /\ \A c \in Connections : wsPc[c] \notin Busy \cup {"new"}
  /\ restarts = MaxRestarts

MCNext == Next \/ (Terminated /\ UNCHANGED vars)
MCSpec == Init /\ [][MCNext]_vars
=============================================================================
