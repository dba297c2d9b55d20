------------------------------ MODULE Listing -------------------------------
(***************************************************************************)
(* GET /tables, page by page, while tables are being created.              *)
(*                                                                         *)
(* created_at is the time an INSERT begins and its row is there when it    *)
(* commits, so a table may appear below younger ones.  A page is a LIMIT   *)
(* and OFFSET into that moment's order.  Tables are never deleted.         *)
(***************************************************************************)
EXTENDS Integers, FiniteSets

CONSTANTS
  NewTables,    \* the tables of a behaviour
  RawLimits,    \* values of ?limit=; a negative one stands for any that
                \* getQueryInt rejects: absent, not a number, negative
  DefaultLimit, \* 20 in the code
  MaxLimit,     \* 100 in the code
  MaxTime       \* bound on the clock

ASSUME ListingAssumption ==
  /\ RawLimits \subseteq Int
  /\ DefaultLimit \in Nat \ {0}
  /\ MaxLimit \in Nat \ {0}
  /\ MaxTime \in Nat

VARIABLES
  stage,   \* the INSERT of each table: "new", "begun", "in", or "failed"
  created, \* its created_at
  reader,  \* "before", "paging" or "done"
  query,   \* the ?limit= of the reader
  offset,  \* the ?offset= that comes next: as many as it has been given
  old,     \* the tables there were when it began
  seen,    \* the tables it has been given
  again,   \* how often it was given one it had seen
  clock

tableVars  == <<stage, created, clock>>
readerVars == <<reader, query, offset, old, seen, again>>
vars == <<tableVars, readerVars>>

Rows_Dirty == {x \in NewTables : stage[x] \in {"begun", "in"}}
Rows == {x \in NewTables : stage[x] = "in"}

TypeOK ==
  /\ stage \in [NewTables -> {"new", "begun", "in", "failed"}]
  /\ created \in [NewTables -> 0..MaxTime]
  /\ reader \in {"before", "paging", "done"}
  /\ query \in RawLimits
  /\ offset \in Nat
  /\ old \subseteq Rows
  /\ seen \subseteq Rows
  /\ again \in Nat
  /\ clock \in 0..MaxTime

Init ==
  /\ stage = [x \in NewTables |-> "new"]
  /\ created = [x \in NewTables |-> 0]
  /\ reader = "before"
  /\ query \in RawLimits
  /\ offset = 0 /\ again = 0
  /\ old = {} /\ seen = {}
  /\ clock = 0

-----------------------------------------------------------------------------
\* TableRepository.Create: the statement begins, and takes the time ...
Begin(x) ==
  /\ stage[x] = "new"
  /\ stage' = [stage EXCEPT ![x] = "begun"]
  /\ created' = [created EXCEPT ![x] = clock]
  /\ UNCHANGED <<clock, readerVars>>

\* ... and commits, or fails.
End(x) ==
  /\ stage[x] = "begun"
  /\ \E s \in {"in", "failed"} : stage' = [stage EXCEPT ![x] = s]
  /\ UNCHANGED <<created, clock, readerVars>>

Tick ==
  /\ clock < MaxTime
  /\ clock' = clock + 1
  /\ UNCHANGED <<stage, created, readerVars>>

-----------------------------------------------------------------------------
\* getQueryInt, then the clamp of ListTables.
QueryInt(raw, default) == IF raw < 0 THEN default ELSE raw
Limit(raw) ==
  IF QueryInt(raw, DefaultLimit) > MaxLimit THEN MaxLimit ELSE QueryInt(raw, DefaultLimit)

\* What ORDER BY created_at DESC may put first.
Youngest_Unordered(n) == {P \in SUBSET Rows : Cardinality(P) = n}
Youngest(n) ==
  {P \in SUBSET Rows :
     Cardinality(P) = n /\ \A x \in P, y \in Rows \ P : created[x] >= created[y]}

AtMost(n) == IF n < Cardinality(Rows) THEN n ELSE Cardinality(Rows)

Slice(from, to) ==
  {pq[2] \ pq[1] : pq \in {pq \in Youngest(from) \X Youngest(to) : pq[1] \subseteq pq[2]}}

\* TableRepository.List: the rows from off, lim of them; all that are left when
\* lim is 0, which bun takes for no LIMIT.
Pages_NoOffset(off, lim) == Slice(0, AtMost(lim))
Pages(off, lim) ==
  Slice(AtMost(off), IF lim = 0 THEN Cardinality(Rows) ELSE AtMost(off + lim))

-----------------------------------------------------------------------------
\* The reader asks for pages, each from where the last one ended, until one is
\* empty.  One that is answered with an error it may ask for again.
Read ==
  /\ reader # "done"
  /\ old' = IF reader = "before" THEN Rows ELSE old
  /\ \E page \in Pages(offset, Limit(query)) :
       /\ reader' = IF page = {} THEN "done" ELSE "paging"
       /\ offset' = offset + Cardinality(page)
       /\ seen' = seen \cup page
       /\ again' = again + Cardinality(seen \cap page)
  /\ UNCHANGED <<query, tableVars>>

Next ==
  \/ \E x \in NewTables : Begin(x) \/ End(x)
  \/ Tick \/ Read

Spec == Init /\ [][Next]_vars

-----------------------------------------------------------------------------
\* No other table that is, or will be, there was created at the same time.
Unshared(x) == \A y \in NewTables \ {x} : stage[y] \in {"begun", "in"} => created[y] # created[x]

\* A reader who gets to the end has been given every table that was there when
\* it began, however many were created meanwhile and however late their inserts
\* committed; only tables of one created_at may hide each other.
PagesMissNothing ==
  reader = "done" => \A x \in old : Unshared(x) => x \in seen

\* A table is given twice only because another one came in above it: not more
\* often than tables came in.
RepeatsBounded ==
  reader # "before" /\ (\A x \in Rows : Unshared(x)) => again <= Cardinality(Rows \ old)
=============================================================================
