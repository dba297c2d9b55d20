--------------------------- MODULE ListingProofs ----------------------------
(***************************************************************************)
(* Theorems about Listing, for any tables, limits and length of time.      *)
(***************************************************************************)
EXTENDS Listing, FiniteSetTheorems, WellFoundedInduction, TLAPS

LEMMA LimitIs ==
  ASSUME NEW raw \in RawLimits
  PROVE  Limit(raw) \in 0..MaxLimit /\ (raw # 0 => Limit(raw) > 0)
BY ListingAssumption DEF Limit, QueryInt

\* The rows are finitely many: each begins with a step of its own.
RowsFinite == IsFiniteSet(Rows)

\* A page is what a set of the youngest rows, as many as the offset, leaves of a
\* larger one.
PageOf(page, P, Q, off, lim) ==
  /\ P \subseteq Q /\ Q \subseteq Rows /\ page = Q \ P
  /\ IsFiniteSet(Q) /\ Cardinality(P) = off /\ Cardinality(Q) \in Nat
  /\ off <= Cardinality(Q) /\ Cardinality(page) = Cardinality(Q) - off
  /\ Cardinality(Q) <= Cardinality(Rows)
  /\ lim # 0 => Cardinality(Q) <= off + lim
  /\ lim = 0 \/ Cardinality(Q) = off => Q = Rows
  /\ \A x \in P, y \in Rows \ P : created[x] >= created[y]
  /\ \A x \in Q, y \in Rows \ Q : created[x] >= created[y]

LEMMA PageIs ==
  ASSUME TypeOK, RowsFinite, NEW off \in Nat, off <= Cardinality(Rows), NEW lim \in Nat,
         NEW page \in Pages(off, lim)
  PROVE  \E P, Q \in SUBSET Rows : PageOf(page, P, Q, off, lim)
<1> DEFINE n == Cardinality(Rows)
           to == IF lim = 0 THEN n ELSE AtMost(off + lim)
<1>1. n \in Nat
  BY FS_CardinalityType DEF RowsFinite
<1>2. AtMost(off) = off /\ to \in Nat /\ off <= to /\ to <= n
      /\ (lim # 0 => to <= off + lim) /\ (lim = 0 \/ to = off => to = n)
  BY <1>1 DEF AtMost
<1>3. PICK pq \in Youngest(off) \X Youngest(to) : pq[1] \subseteq pq[2] /\ page = pq[2] \ pq[1]
  <2>1. page \in Slice(off, to)
    BY <1>2 DEF Pages
  <2>2. QED BY <2>1 DEF Slice
<1> DEFINE P == pq[1]
           Q == pq[2]
<1>4. P \in Youngest(off) /\ Q \in Youngest(to)
  BY <1>3
<1>5. /\ P \in SUBSET Rows /\ Cardinality(P) = off
      /\ \A x \in P, y \in Rows \ P : created[x] >= created[y]
  BY <1>4 DEF Youngest
<1>6. /\ Q \in SUBSET Rows /\ Cardinality(Q) = to
      /\ \A x \in Q, y \in Rows \ Q : created[x] >= created[y]
  BY <1>4 DEF Youngest
<1> HIDE DEF P, Q, to
<1>7. P \subseteq Q /\ page = Q \ P
  BY <1>3 DEF P, Q
<1>8. IsFiniteSet(Q)
  BY <1>6, FS_Subset DEF RowsFinite
<1>9. Cardinality(page) = Cardinality(Q) - off
  <2>1. Q \cap P = P
    BY <1>7
  <2>2. QED BY <1>5, <1>7, <1>8, <2>1, FS_Difference
<1>10. lim = 0 \/ Cardinality(Q) = off => Q = Rows
  BY <1>2, <1>6, FS_Subset DEF RowsFinite
<1>11. PageOf(page, P, Q, off, lim)
  BY <1>2, <1>5, <1>6, <1>7, <1>8, <1>9, <1>10 DEF PageOf
<1>12. QED BY <1>5, <1>6, <1>11

-----------------------------------------------------------------------------
LEMMA TypeOKInit == Init => TypeOK
BY ListingAssumption DEF Init, TypeOK, Rows

\* Rows stay, with the time they have.
LEMMA RowsStay ==
  ASSUME TypeOK, [Next]_vars
  PROVE  /\ Rows \subseteq Rows' /\ \A x \in Rows : created'[x] = created[x]
         /\ Rows' = Rows \/ \E x \in NewTables : Rows' = Rows \cup {x}
<1>1. ASSUME NEW x \in NewTables, Begin(x)
      PROVE  Rows' = Rows /\ \A y \in Rows : created'[y] = created[y]
  BY <1>1 DEF Begin, Rows, TypeOK
<1>2. ASSUME NEW x \in NewTables, End(x)
      PROVE  (Rows' = Rows \/ Rows' = Rows \cup {x}) /\ created' = created
  BY <1>2 DEF End, Rows, TypeOK
<1>3. CASE Tick \/ Read \/ UNCHANGED vars
  BY <1>3 DEF Tick, Read, vars, tableVars, Rows
<1>4. QED BY <1>1, <1>2, <1>3 DEF Next

LEMMA RowsFiniteInit == Init => RowsFinite
<1>1. Init => Rows = {}
  BY DEF Init, Rows
<1>2. QED BY <1>1, FS_EmptySet DEF RowsFinite

LEMMA RowsFiniteNext == TypeOK /\ RowsFinite /\ [Next]_vars => RowsFinite'
BY RowsStay, FS_AddElement DEF RowsFinite

\* What the reader has been given is accounted for.
CountInv ==
  /\ offset <= Cardinality(Rows)
  /\ offset = Cardinality(seen) + again
  /\ reader = "before" => offset = 0 /\ seen = {} /\ old = {}

\* What a step of the reader does.
LEMMA ReadIs ==
  ASSUME TypeOK, RowsFinite, CountInv, Read
  PROVE  \E P, Q \in SUBSET Rows :
           \E page \in SUBSET Rows :
             /\ PageOf(page, P, Q, offset, Limit(query))
             /\ reader' = IF page = {} THEN "done" ELSE "paging"
             /\ offset' = Cardinality(Q)
             /\ seen' = seen \cup page
             /\ again' = again + Cardinality(seen \cap page)
<1>1. Limit(query) \in Nat /\ offset \in Nat /\ offset <= Cardinality(Rows)
  BY LimitIs, ListingAssumption DEF TypeOK, CountInv
<1>2. PICK page \in Pages(offset, Limit(query)) :
        /\ reader' = IF page = {} THEN "done" ELSE "paging"
        /\ offset' = offset + Cardinality(page)
        /\ seen' = seen \cup page
        /\ again' = again + Cardinality(seen \cap page)
  BY DEF Read
<1>3. PICK P, Q \in SUBSET Rows : PageOf(page, P, Q, offset, Limit(query))
  BY <1>1, PageIs
<1>4. offset' = Cardinality(Q) /\ page \in SUBSET Rows
  BY <1>1, <1>2, <1>3 DEF PageOf
<1>5. QED BY <1>2, <1>3, <1>4

LEMMA TypeOKNext == TypeOK /\ RowsFinite /\ CountInv /\ [Next]_vars => TypeOK'
<1> SUFFICES ASSUME TypeOK, RowsFinite, CountInv, [Next]_vars PROVE TypeOK'
  OBVIOUS
<1>1. old \subseteq Rows' /\ seen \subseteq Rows'
  BY RowsStay DEF TypeOK
<1>2. ASSUME NEW x \in NewTables, Begin(x) \/ End(x) PROVE TypeOK'
  BY <1>1, <1>2 DEF Begin, End, readerVars, TypeOK
<1>3. CASE Tick
  BY <1>1, <1>3, ListingAssumption DEF Tick, readerVars, TypeOK
<1>4. CASE Read
  <2>1. PICK P, Q, page \in SUBSET Rows :
          /\ PageOf(page, P, Q, offset, Limit(query))
          /\ reader' = IF page = {} THEN "done" ELSE "paging"
          /\ offset' = Cardinality(Q)
          /\ seen' = seen \cup page
          /\ again' = again + Cardinality(seen \cap page)
    BY <1>4, ReadIs
  <2>2. /\ old' \subseteq Rows /\ Rows' = Rows /\ query' = query
        /\ stage' = stage /\ created' = created /\ clock' = clock
    BY <1>4 DEF Read, tableVars, TypeOK, Rows
  <2>3. Cardinality(seen \cap page) \in Nat
    BY FS_Subset, FS_CardinalityType DEF RowsFinite, TypeOK
  <2>4. offset' \in Nat /\ seen' \subseteq Rows
    BY <2>1 DEF PageOf, TypeOK
  <2>5. QED BY <2>1, <2>2, <2>3, <2>4 DEF TypeOK
<1>5. CASE UNCHANGED vars
  BY <1>5 DEF vars, tableVars, readerVars, TypeOK, Rows
<1>6. QED BY <1>2, <1>3, <1>4, <1>5 DEF Next

LEMMA CountInvNext == TypeOK /\ RowsFinite /\ CountInv /\ [Next]_vars => CountInv'
<1> SUFFICES ASSUME TypeOK, RowsFinite, CountInv, [Next]_vars PROVE CountInv'
  OBVIOUS
<1>1. CASE Read
  <2>1. PICK P, Q, page \in SUBSET Rows :
          /\ PageOf(page, P, Q, offset, Limit(query))
          /\ reader' = IF page = {} THEN "done" ELSE "paging"
          /\ offset' = Cardinality(Q)
          /\ seen' = seen \cup page
          /\ again' = again + Cardinality(seen \cap page)
    BY <1>1, ReadIs
  <2>2. Rows' = Rows
    BY <1>1 DEF Read, tableVars, Rows
  <2>3. IsFiniteSet(seen) /\ IsFiniteSet(page)
    BY FS_Subset DEF RowsFinite, TypeOK
  <2>4. Cardinality(seen \cup page) = Cardinality(seen) + Cardinality(page) - Cardinality(seen \cap page)
    BY <2>3, FS_Union
  <2>5. /\ Cardinality(seen) \in Nat /\ Cardinality(page) \in Nat
        /\ Cardinality(seen \cap page) \in Nat /\ Cardinality(seen \cup page) \in Nat
    BY <2>3, FS_CardinalityType, FS_Union, FS_Intersection
  <2>6. Cardinality(page) = Cardinality(Q) - offset /\ Cardinality(Q) <= Cardinality(Rows)
        /\ Cardinality(Q) \in Nat
    BY <2>1 DEF PageOf
  <2>7. offset' = Cardinality(seen') + again'
    BY <2>1, <2>4, <2>5, <2>6 DEF CountInv, TypeOK
  <2>8. reader' # "before" /\ offset' <= Cardinality(Rows')
    BY <2>1, <2>2, <2>6
  <2>9. QED BY <2>7, <2>8 DEF CountInv
<1>2. CASE ~Read
  <2>1. UNCHANGED readerVars
    BY <1>2 DEF Next, Begin, End, Tick, vars
  <2>2. Rows \subseteq Rows' /\ IsFiniteSet(Rows')
    BY RowsStay, RowsFiniteNext DEF RowsFinite
  <2>3. Cardinality(Rows) <= Cardinality(Rows') /\ Cardinality(Rows) \in Nat /\ Cardinality(Rows') \in Nat
    BY <2>2, FS_Subset, FS_CardinalityType DEF RowsFinite
  <2>4. QED BY <2>1, <2>3 DEF readerVars, CountInv, TypeOK
<1>3. QED BY <1>1, <1>2

LEMMA CountInvInit == Init => CountInv
<1> SUFFICES ASSUME Init PROVE CountInv
  OBVIOUS
<1>1. Rows = {} /\ Cardinality({}) = 0
  BY FS_EmptySet DEF Init, Rows
<1>2. QED BY <1>1 DEF Init, CountInv

BaseInv == TypeOK /\ RowsFinite /\ CountInv

LEMMA BaseCorrect == Spec => []BaseInv
<1>1. Init => BaseInv
  BY TypeOKInit, RowsFiniteInit, CountInvInit DEF BaseInv
<1>2. BaseInv /\ [Next]_vars => BaseInv'
  BY TypeOKNext, RowsFiniteNext, CountInvNext DEF BaseInv
<1>3. QED BY <1>1, <1>2, PTL DEF Spec

\* The inserts and the reader always have their type.
THEOREM ListingTyped == Spec => []TypeOK
BY BaseCorrect, PTL DEF BaseInv

-----------------------------------------------------------------------------
\* The rows above x, and that no row shares its created_at.
Above(x) == {y \in Rows : created[y] > created[x]}
Alone(x) == \A y \in Rows \ {x} : created[y] # created[x]

\* A row the reader still owes has as many rows above it as it has been given.
MissInv ==
  /\ \A x \in old \ seen : Alone(x) => offset <= Cardinality(Above(x))
  /\ reader = "done" => \A x \in old : Alone(x) => x \in seen

LEMMA UnsharedIsAlone == ASSUME NEW x \in Rows, Unshared(x) PROVE Alone(x)
BY DEF Unshared, Alone, Rows

LEMMA AboveIs ==
  ASSUME RowsFinite, NEW x \in Rows
  PROVE  IsFiniteSet(Above(x)) /\ Cardinality(Above(x)) \in Nat
<1>1. Above(x) \subseteq Rows
  BY DEF Above
<1>2. QED BY <1>1, FS_Subset, FS_CardinalityType DEF RowsFinite

\* Rows only come in.
LEMMA AboveGrows ==
  ASSUME TypeOK, RowsFinite, [Next]_vars, NEW x \in Rows
  PROVE  /\ Alone(x)' => Alone(x)
         /\ Cardinality(Above(x)) \in Nat /\ Cardinality(Above(x)') \in Nat
         /\ Cardinality(Above(x)) <= Cardinality(Above(x)')
<1>1. Rows \subseteq Rows' /\ \A y \in Rows : created'[y] = created[y]
  BY RowsStay
<1>2. Above(x) \subseteq Above(x)' /\ Above(x)' \subseteq Rows'
  BY <1>1 DEF Above
<1>3. IsFiniteSet(Rows')
  BY RowsFiniteNext DEF RowsFinite
<1>4. IsFiniteSet(Above(x)')
  BY <1>2, <1>3, FS_Subset
<1>5. /\ Cardinality(Above(x)) \in Nat /\ Cardinality(Above(x)') \in Nat
      /\ Cardinality(Above(x)) <= Cardinality(Above(x)')
  BY <1>2, <1>4, FS_Subset, FS_CardinalityType
<1>6. Alone(x)' => Alone(x)
  BY <1>1 DEF Alone
<1>7. QED BY <1>5, <1>6

\* A row alone at its time and outside the page's Q is below all of it.
LEMMA OwedIsBelow ==
  ASSUME TypeOK, RowsFinite, NEW off \in Nat, NEW lim \in Nat,
         NEW P \in SUBSET Rows, NEW Q \in SUBSET Rows, NEW page, PageOf(page, P, Q, off, lim),
         NEW x \in Rows \ page, Alone(x), off <= Cardinality(Above(x))
  PROVE  x \notin Q /\ Cardinality(Q) <= Cardinality(Above(x))
<1>1. IsFiniteSet(Above(x)) /\ Cardinality(Above(x)) \in Nat
  BY AboveIs
<1>2. x \notin P
  <2> SUFFICES ASSUME x \in P PROVE FALSE
    OBVIOUS
  <2>1. Above(x) \subseteq P
    <3>1. ASSUME NEW y \in Above(x), y \notin P PROVE FALSE
      <4>1. y \in Rows /\ created[y] > created[x] /\ created[x] >= created[y]
        BY <3>1 DEF Above, PageOf
      <4>2. created[x] \in Int /\ created[y] \in Int
        BY <4>1 DEF TypeOK, Rows
      <4>3. QED BY <4>1, <4>2
    <3>2. QED BY <3>1
  <2>2. x \notin Above(x)
    BY DEF Above, TypeOK, Rows
  <2>3. /\ Cardinality(Above(x) \cup {x}) = Cardinality(Above(x)) + 1
    BY <1>1, <2>2, FS_AddElement
  <2>4. IsFiniteSet(P)
    BY FS_Subset DEF RowsFinite
  <2>5. Cardinality(Above(x) \cup {x}) <= Cardinality(P)
    BY <2>1, <2>4, FS_Subset
  <2>6. Cardinality(P) = off
    BY DEF PageOf
  <2>7. QED BY <1>1, <2>3, <2>5, <2>6
<1>3. x \in Rows \ Q
  BY <1>2 DEF PageOf
<1>4. Q \subseteq Above(x)
  <2>1. ASSUME NEW y \in Q PROVE y \in Above(x)
    <3>1. created[y] >= created[x] /\ created[y] # created[x]
      BY <1>3, <2>1 DEF PageOf, Alone
    <3>2. created[x] \in Int /\ created[y] \in Int
      BY <2>1 DEF TypeOK, Rows
    <3>3. QED BY <2>1, <3>1, <3>2 DEF Above
  <2>2. QED BY <2>1
<1>5. QED BY <1>1, <1>3, <1>4, FS_Subset

LEMMA MissInvNext == BaseInv /\ MissInv /\ [Next]_vars => MissInv'
<1> SUFFICES ASSUME BaseInv, MissInv, [Next]_vars PROVE MissInv'
  OBVIOUS
<1> USE DEF BaseInv
<1>1. CASE Read
  <2>1. PICK P, Q, page \in SUBSET Rows :
          /\ PageOf(page, P, Q, offset, Limit(query))
          /\ reader' = IF page = {} THEN "done" ELSE "paging"
          /\ offset' = Cardinality(Q)
          /\ seen' = seen \cup page
    BY <1>1, ReadIs
  <2>2. /\ Rows' = Rows /\ created' = created /\ reader # "done"
        /\ old' = IF reader = "before" THEN Rows ELSE old
    BY <1>1 DEF Read, tableVars, Rows
  <2>3. Limit(query) \in Nat /\ offset \in Nat
    BY LimitIs, ListingAssumption DEF TypeOK
  <2>4. ASSUME NEW x \in old' \ seen', Alone(x)'
        PROVE  offset' <= Cardinality(Above(x)') /\ page # {}
    <3>1. x \in Rows \ page /\ Alone(x) /\ Above(x)' = Above(x)
      BY <2>1, <2>2, <2>4 DEF TypeOK, Alone, Above
    <3>2. offset <= Cardinality(Above(x))
      <4>1. CASE reader = "before"
        BY <3>1, <4>1, AboveIs DEF CountInv
      <4>2. CASE reader # "before"
        BY <2>1, <2>2, <2>4, <3>1, <4>2 DEF MissInv
      <4>3. QED BY <4>1, <4>2
    <3>3. x \notin Q /\ Cardinality(Q) <= Cardinality(Above(x))
      BY <2>1, <2>3, <3>1, <3>2, OwedIsBelow
    <3>4. page # {}
      <4>1. CASE page = {}
        <5>1. Cardinality(page) = 0
          BY <4>1, FS_EmptySet
        <5>2. Cardinality(Q) = offset
          BY <2>1, <2>3, <5>1 DEF PageOf
        <5>3. Q = Rows
          BY <2>1, <5>2 DEF PageOf
        <5>4. QED BY <3>1, <3>3, <5>3
      <4>2. QED BY <4>1
    <3>5. QED BY <2>1, <3>1, <3>3, <3>4
  <2>5. QED BY <2>1, <2>4 DEF MissInv
<1>2. CASE ~Read
  <2>1. UNCHANGED readerVars
    BY <1>2 DEF Next, Begin, End, Tick, vars
  <2>2. ASSUME NEW x \in old, Alone(x)'
        PROVE  /\ Alone(x)
               /\ offset <= Cardinality(Above(x)) => offset <= Cardinality(Above(x)')
    <3>1. x \in Rows /\ offset \in Nat
      BY DEF TypeOK
    <3>2. QED BY <2>2, <3>1, AboveGrows
  <2>3. QED BY <2>1, <2>2 DEF MissInv, readerVars
<1>3. QED BY <1>1, <1>2

LEMMA MissCorrect == Spec => [](BaseInv /\ MissInv)
<1>1. Init => MissInv
  BY DEF Init, MissInv
<1>2. QED BY <1>1, MissInvNext, BaseCorrect, PTL DEF Spec

\* A reader who reaches the end has been given every table that was there when
\* it began and shares its created_at with no other, whatever came in between.
THEOREM ReadersMissNothing == Spec => []PagesMissNothing
<1>1. BaseInv /\ MissInv => PagesMissNothing
  BY UnsharedIsAlone DEF BaseInv, TypeOK, MissInv, PagesMissNothing
<1>2. QED BY <1>1, MissCorrect, PTL

-----------------------------------------------------------------------------
\* A set of natural numbers that is not empty has a least element.
LEMMA LeastOf ==
  ASSUME NEW S \in SUBSET Nat, S # {}
  PROVE  \E n \in S : \A m \in S : n <= m
<1> DEFINE R == {p \in Nat \X Nat : p[1] < p[2]}
<1>1. IsWellFoundedOn(R, Nat)
  BY NatLessThanWellFounded DEF OpToRel
<1>2. PICK n \in S : \A m \in S : ~ (<<m, n>> \in R)
  BY <1>1, WFMin
<1>3. ASSUME NEW m \in S PROVE n <= m
  <2>1. n \in Nat /\ m \in Nat /\ ~ (<<m, n>> \in R)
    BY <1>2
  <2>2. QED BY <2>1
<1>4. QED BY <1>3

\* Of the rows still owed one is the youngest.
LEMMA YoungestOwed ==
  ASSUME TypeOK, NEW U \in SUBSET Rows, U # {}
  PROVE  \E x \in U : \A y \in U : created[x] >= created[y]
<1> DEFINE S == {MaxTime - created[x] : x \in U}
<1>1. \A x \in U : created[x] \in 0..MaxTime
  BY DEF TypeOK, Rows
<1>2. S \in SUBSET Nat /\ S # {}
  BY <1>1, ListingAssumption
<1>3. PICK n \in S : \A m \in S : n <= m
  BY <1>2, LeastOf
<1>4. PICK x \in U : n = MaxTime - created[x]
  OBVIOUS
<1>5. ASSUME NEW y \in U PROVE created[x] >= created[y]
  <2>1. MaxTime - created[x] <= MaxTime - created[y]
    BY <1>3, <1>4
  <2>2. QED BY <1>1, <2>1, ListingAssumption
<1>6. QED BY <1>5

\* A reader is given a table again only because another came in above it.
THEOREM RepeatsAreBounded == Spec => []RepeatsBounded
<1>1. ASSUME BaseInv, MissInv, \A x \in Rows : Unshared(x)
      PROVE  again <= Cardinality(Rows \ old)
  <2> DEFINE U == old \ seen
             N == Rows \ old
  <2>1. /\ IsFiniteSet(Rows) /\ old \subseteq Rows /\ seen \subseteq Rows
        /\ offset \in Nat /\ again \in Nat
        /\ offset = Cardinality(seen) + again /\ offset <= Cardinality(Rows)
    BY <1>1 DEF BaseInv, TypeOK, RowsFinite, CountInv
  <2>2. IsFiniteSet(seen) /\ IsFiniteSet(N)
    BY <2>1, FS_Subset
  <2>3. /\ Cardinality(seen) \in Nat /\ Cardinality(N) \in Nat
        /\ IsFiniteSet(seen \cup N) /\ Cardinality(seen \cup N) \in Nat
        /\ Cardinality(seen \cup N) <= Cardinality(seen) + Cardinality(N)
    <3>1. Cardinality(seen \cup N) = Cardinality(seen) + Cardinality(N) - Cardinality(seen \cap N)
      BY <2>2, FS_Union
    <3>2. IsFiniteSet(seen \cup N) /\ IsFiniteSet(seen \cap N)
      BY <2>2, FS_Union, FS_Intersection
    <3>3. QED BY <2>2, <3>1, <3>2, FS_CardinalityType
  <2>4. offset <= Cardinality(seen \cup N)
    <3>1. CASE U = {}
      <4>1. Rows \subseteq seen \cup N
        BY <2>1, <3>1
      <4>2. Cardinality(Rows) <= Cardinality(seen \cup N) /\ Cardinality(Rows) \in Nat
        BY <2>1, <2>3, <4>1, FS_Subset, FS_CardinalityType
      <4>3. QED BY <2>1, <2>3, <4>2
    <3>2. CASE U # {}
      <4>1. U \in SUBSET Rows
        BY <2>1
      <4>2. PICK x \in U : \A y \in U : created[x] >= created[y]
        BY <1>1, <3>2, <4>1, YoungestOwed DEF BaseInv
      <4>3. x \in Rows /\ Alone(x) /\ offset <= Cardinality(Above(x))
        BY <1>1, <4>1, <4>2, UnsharedIsAlone DEF MissInv
      <4>4. Above(x) \subseteq seen \cup N
        <5>1. ASSUME NEW y \in Above(x), y \notin seen \cup N PROVE FALSE
          <6>1. y \in U /\ created[y] > created[x]
            BY <5>1 DEF Above
          <6>2. created[x] \in Int /\ created[y] \in Int
            BY <1>1, <4>1, <4>2, <6>1 DEF BaseInv, TypeOK, Rows
          <6>3. QED BY <4>2, <6>1, <6>2
        <5>2. QED BY <5>1
      <4>5. Cardinality(Above(x)) <= Cardinality(seen \cup N) /\ Cardinality(Above(x)) \in Nat
        BY <2>3, <4>4, FS_Subset, FS_CardinalityType
      <4>6. QED BY <2>1, <2>3, <4>3, <4>5
    <3>3. QED BY <3>1, <3>2
  <2> HIDE DEF U, N
  <2>5. again <= Cardinality(N)
    BY <2>1, <2>3, <2>4
  <2>6. QED BY <2>5 DEF N
<1>2. BaseInv /\ MissInv => RepeatsBounded
  BY <1>1 DEF RepeatsBounded
<1>3. QED BY <1>2, MissCorrect, PTL
=============================================================================
