----------------------------- MODULE DiceProofs -----------------------------
(***************************************************************************)
(* Theorems about Dice, for every set of formulas and every width of ints. *)
(*                                                                         *)
(* Sums are defined by recursion, so what they are is proved by induction: *)
(* where a statement fails for some number it fails for a least one.       *)
(***************************************************************************)
EXTENDS Dice, FiniteSetTheorems, SequenceTheorems, TLAPS

LEMMA LeastNatural ==
  ASSUME NEW T \in SUBSET Nat, T # {}
  PROVE  \E n \in T : \A k \in T : n <= k
<1> DEFINE R == {p \in Nat \X Nat : p[1] < p[2]}
<1>1. IsWellFoundedOn(R, Nat)
  BY NatLessThanWellFounded DEF OpToRel
<1>2. PICK n \in T : \A k \in T : ~ (<<k, n>> \in R)
  BY <1>1, WFMin
<1>3. ASSUME NEW k \in T PROVE n <= k
  <2>1. n \in Nat /\ k \in Nat /\ ~ (<<k, n>> \in R)
    BY <1>2
  <2>2. QED BY <2>1
<1>4. QED BY <1>3

-----------------------------------------------------------------------------
(***************************************************************************)
(* Sums.                                                                   *)
(***************************************************************************)
\* h has the sums of the first 0, 1, ..., n numbers of s.
PartialSums(h, s, n) == h[0] = 0 /\ \A i \in 1..n : h[i] = h[i - 1] + s[i]

\* There is only one such h ...
LEMMA PartialSumsAgree ==
  ASSUME NEW s, NEW n \in Nat, NEW g, NEW h, PartialSums(g, s, n), PartialSums(h, s, n)
  PROVE  \A i \in 0..n : g[i] = h[i]
<1> DEFINE Bad == {i \in 0..n : g[i] # h[i]}
<1> SUFFICES ASSUME Bad # {} PROVE FALSE
  OBVIOUS
<1>1. PICK k \in Bad : \A i \in Bad : k <= i
  <2>1. Bad \in SUBSET Nat
    OBVIOUS
  <2>2. QED BY <2>1, LeastNatural
<1>2. k # 0
  BY <1>1 DEF PartialSums
<1>3. k \in 1..n /\ k - 1 \in 0..n /\ k - 1 \notin Bad
  BY <1>1, <1>2
<1>4. g[k - 1] = h[k - 1]
  BY <1>3
<1>5. QED BY <1>1, <1>3, <1>4 DEF PartialSums

\* ... and there is one.
LEMMA PartialSumsExist ==
  ASSUME NEW s \in Seq(Int)
  PROVE  \E h \in [0..Len(s) -> Int] : PartialSums(h, s, Len(s))
<1> DEFINE Has(k) == \E h \in [0..k -> Int] : PartialSums(h, s, k)
           Bad == {k \in 0..Len(s) : ~Has(k)}
<1>1. Len(s) \in Nat /\ \A i \in 1..Len(s) : s[i] \in Int
  OBVIOUS
<1>2. SUFFICES ASSUME Bad # {} PROVE FALSE
  <2>1. Len(s) \in 0..Len(s)
    BY <1>1
  <2>2. QED BY <1>2, <2>1
<1>3. PICK k \in Bad : \A i \in Bad : k <= i
  <2>1. Bad \in SUBSET Nat
    OBVIOUS
  <2>2. QED BY <1>2, <2>1, LeastNatural
<1>4. k # 0
  <2>1. [i \in 0..0 |-> 0] \in [0..0 -> Int] /\ PartialSums([i \in 0..0 |-> 0], s, 0)
    BY DEF PartialSums
  <2>2. Has(0)
    BY <2>1
  <2>3. QED BY <1>3, <2>2
<1>5. k \in 1..Len(s) /\ k - 1 \in 0..Len(s) /\ Has(k - 1)
  BY <1>1, <1>3, <1>4
<1>6. PICK h \in [0..k - 1 -> Int] : PartialSums(h, s, k - 1)
  BY <1>5
<1> DEFINE g == [i \in 0..k |-> IF i = k THEN h[k - 1] + s[k] ELSE h[i]]
<1>7. g \in [0..k -> Int]
  BY <1>1, <1>5
<1>8. PartialSums(g, s, k)
  <2>1. g[0] = 0
    BY <1>5, <1>6 DEF PartialSums
  <2>2. ASSUME NEW i \in 1..k PROVE g[i] = g[i - 1] + s[i]
    BY <1>5, <1>6 DEF PartialSums
  <2>3. QED BY <2>1, <2>2 DEF PartialSums
<1>9. QED BY <1>3, <1>7, <1>8

\* A sum is the last of the partial sums.
LEMMA SumIs ==
  ASSUME NEW s \in Seq(Int), NEW h, PartialSums(h, s, Len(s))
  PROVE  Sum(s) = h[Len(s)]
<1> DEFINE Def(u) == [n \in 0..Len(s) |-> IF n = 0 THEN 0 ELSE u[n - 1] + s[n]]
           upTo == CHOOSE u : u = Def(u)
<1>1. Len(s) \in Nat
  OBVIOUS
<1>2. PICK g \in [0..Len(s) -> Int] : PartialSums(g, s, Len(s))
  BY PartialSumsExist
<1>3. g = Def(g)
  BY <1>2 DEF PartialSums
<1>4. upTo = Def(upTo)
  BY <1>3
<1>5. PartialSums(upTo, s, Len(s))
  <2> HIDE DEF upTo
  <2>1. QED BY <1>1, <1>4 DEF PartialSums
<1>6. upTo[Len(s)] = h[Len(s)]
  <2> HIDE DEF upTo
  <2>1. QED BY <1>1, <1>5, PartialSumsAgree
<1>7. Sum(s) = upTo[Len(s)]
  BY DEF Sum
<1>8. QED BY <1>6, <1>7

LEMMA SumInt == ASSUME NEW s \in Seq(Int) PROVE Sum(s) \in Int
<1>1. PICK h \in [0..Len(s) -> Int] : PartialSums(h, s, Len(s))
  BY PartialSumsExist
<1>2. QED BY <1>1, SumIs

LEMMA SumEmpty == Sum(<<>>) = 0
<1>1. <<>> \in Seq(Int) /\ Len(<<>>) = 0
  OBVIOUS
<1>2. PICK h \in [0..Len(<<>>) -> Int] : PartialSums(h, <<>>, Len(<<>>))
  BY <1>1, PartialSumsExist
<1>3. Sum(<<>>) = h[Len(<<>>)]
  BY <1>1, <1>2, SumIs
<1>4. QED BY <1>1, <1>2, <1>3 DEF PartialSums

LEMMA SumAppend ==
  ASSUME NEW s \in Seq(Int), NEW x \in Int
  PROVE  Sum(Append(s, x)) = Sum(s) + x
<1> DEFINE t == Append(s, x)
<1>1. /\ t \in Seq(Int) /\ Len(s) \in Nat /\ Len(t) = Len(s) + 1 /\ t[Len(t)] = x
      /\ \A i \in 1..Len(s) : t[i] = s[i]
  OBVIOUS
<1>2. PICK h \in [0..Len(t) -> Int] : PartialSums(h, t, Len(t))
  BY <1>1, PartialSumsExist
<1>3. PartialSums(h, s, Len(s)) /\ h[Len(t)] = h[Len(s)] + x
  <2> HIDE DEF t
  <2>1. h[0] = 0 /\ \A i \in 1..Len(t) : h[i] = h[i - 1] + t[i]
    BY <1>2 DEF PartialSums
  <2>2. ASSUME NEW i \in 1..Len(s) PROVE h[i] = h[i - 1] + s[i]
    <3>1. i \in 1..Len(t)
      BY <1>1
    <3>2. QED BY <1>1, <2>1, <3>1
  <2>3. Len(t) \in 1..Len(t) /\ Len(t) - 1 = Len(s)
    BY <1>1
  <2>4. h[Len(t)] = h[Len(s)] + x
    BY <1>1, <2>1, <2>3
  <2>5. QED BY <2>1, <2>2, <2>4 DEF PartialSums
<1>4. QED BY <1>1, <1>2, <1>3, SumIs

-----------------------------------------------------------------------------
(***************************************************************************)
(* The ints: a power of two many, of which Wrap gives each number one that *)
(* is as far as a multiple of their number away.                           *)
(***************************************************************************)
LEMMA PowersOfTwo == ASSUME NEW n \in Nat PROVE 2^n \in Nat \ {0} /\ 2^(n + 1) = 2 * 2^n
<1> DEFINE S == 1..n
           x == n + 1
           With == {T \cup {x} : T \in SUBSET S}
<1>1. IsFiniteSet(S) /\ Cardinality(S) = n
  BY FS_Interval
<1>2. IsFiniteSet(S \cup {x}) /\ Cardinality(S \cup {x}) = n + 1
  BY <1>1, FS_AddElement
<1>3. /\ IsFiniteSet(SUBSET S) /\ Cardinality(SUBSET S) = 2^n
      /\ Cardinality(SUBSET (S \cup {x})) = 2^(n + 1)
  BY <1>1, <1>2, FS_SUBSET
<1>4. IsFiniteSet(With) /\ Cardinality(With) = Cardinality(SUBSET S)
  <2> DEFINE f == [T \in SUBSET S |-> T \cup {x}]
  <2>1. f \in [SUBSET S -> With]
    OBVIOUS
  <2>2. ASSUME NEW T \in SUBSET S, NEW U \in SUBSET S, f[T] = f[U] PROVE T = U
    <3>1. x \notin T /\ x \notin U /\ T \cup {x} = U \cup {x}
      BY <2>2
    <3>2. QED BY <3>1
  <2>3. \A W \in With : \E T \in SUBSET S : f[T] = W
    OBVIOUS
  <2>4. f \in Bijection(SUBSET S, With)
    BY <2>1, <2>2, <2>3 DEF Bijection, Injection, IsInjective, Surjection
  <2>5. ExistsBijection(SUBSET S, With)
    BY <2>4 DEF ExistsBijection
  <2>6. QED BY <1>3, <2>5, FS_Bijection
<1>5. SUBSET (S \cup {x}) = (SUBSET S) \cup With
  <2>1. ASSUME NEW T \in SUBSET (S \cup {x}) PROVE T \in (SUBSET S) \cup With
    <3>1. CASE x \in T
      <4>1. T \ {x} \in SUBSET S /\ T = (T \ {x}) \cup {x}
        BY <3>1
      <4>2. QED BY <4>1
    <3>2. CASE x \notin T
      BY <3>2
    <3>3. QED BY <3>1, <3>2
  <2>2. QED BY <2>1
<1>6. (SUBSET S) \cap With = {}
  BY SMT
<1>7. Cardinality(SUBSET S) \in Nat /\ Cardinality(SUBSET S) # 0
  <2>1. SUBSET S # {}
    OBVIOUS
  <2>2. QED BY <1>3, <2>1, FS_CardinalityType, FS_EmptySet
<1>8. Cardinality(SUBSET (S \cup {x})) = Cardinality(SUBSET S) + Cardinality(SUBSET S)
  <2> DEFINE A == SUBSET S
             B == With
  <2>1. IsFiniteSet(A) /\ IsFiniteSet(B) /\ A \cap B = {} /\ Cardinality(B) = Cardinality(A)
    BY <1>3, <1>4, <1>6
  <2>2. Cardinality(A) \in Nat
    BY <1>7
  <2> HIDE DEF A, B
  <2>3. Cardinality(A \cup B) = Cardinality(A) + Cardinality(B) - Cardinality(A \cap B)
    BY <2>1, FS_Union
  <2>4. Cardinality(A \cup B) = Cardinality(A) + Cardinality(A)
    <3>1. Cardinality(A \cap B) = 0
      BY <2>1, FS_EmptySet
    <3>2. QED BY <2>1, <2>2, <2>3, <3>1
  <2>5. QED BY <1>5, <2>4 DEF A, B
<1>9. QED BY <1>3, <1>7, <1>8

Half == 2^(Width - 1)

LEMMA IntsAre ==
  /\ Half \in Nat \ {0}
  /\ 2^Width = 2 * Half
  /\ MinInt = -Half /\ MaxInt = Half - 1
  /\ Ints = -Half..(Half - 1)
<1>1. Width - 1 \in Nat /\ (Width - 1) + 1 = Width
  BY DiceAssumption
<1>2. Half \in Nat \ {0} /\ 2^Width = 2 * Half
  BY <1>1, PowersOfTwo DEF Half
<1>3. QED BY <1>2 DEF MinInt, MaxInt, Ints, Half

LEMMA DivisionIs ==
  ASSUME NEW a \in Int, NEW m \in Nat \ {0}
  PROVE  a % m \in 0..m - 1 /\ \E q \in Int : a % m = a + q * m
<1> DEFINE d == a \div m
           r == a % m
           p == d * m
<1>1. r \in 0..m - 1
  BY SMT
<1>2. d \in Int /\ a = p + r
  BY SMT
<1>3. -d \in Int /\ (-d) * m = -p /\ p \in Int
  BY <1>2
<1>4. r = a + (-d) * m
  <2> DEFINE n == (-d) * m
  <2>1. n = -p
    BY <1>3
  <2> HIDE DEF n, p, d, r
  <2>2. r = a + n
    BY <1>1, <1>2, <1>3, <2>1
  <2>3. QED BY <2>2 DEF n
<1>5. QED BY <1>1, <1>3, <1>4

\* Two numbers of a range of m that are a multiple of m apart are the same.
LEMMA OneOfEach ==
  ASSUME NEW m \in Nat \ {0}, NEW b \in Int, NEW x \in b..(b + m - 1), NEW y \in b..(b + m - 1),
         NEW q \in Int, x = y + q * m
  PROVE  x = y
<1>1. CASE q >= 1
  <2>1. q * m >= m
    BY <1>1
  <2>2. QED BY <2>1
<1>2. CASE q <= -1
  <2>1. q * m <= -m
    BY <1>2
  <2>2. QED BY <2>1
<1>3. CASE q = 0
  BY <1>3
<1>4. QED BY <1>1, <1>2, <1>3

LEMMA WrapIs ==
  ASSUME NEW x \in Int
  PROVE  Wrap(x) \in Ints /\ \E q \in Int : Wrap(x) = x + q * (2 * Half)
<1> DEFINE a == x + Half
           m == 2 * Half
<1>1. a \in Int /\ m \in Nat \ {0} /\ Wrap(x) = (a % m) - Half
  BY IntsAre DEF Wrap
<1>2. PICK q \in Int : a % m = a + q * m
  BY <1>1, DivisionIs
<1>3. a % m \in 0..m - 1
  BY <1>1, DivisionIs
<1>4. Wrap(x) \in Ints
  <2> DEFINE r == a % m
  <2>1. r \in 0..2 * Half - 1 /\ Wrap(x) = r - Half
    BY <1>1, <1>3
  <2> HIDE DEF r
  <2>2. QED BY <2>1, IntsAre
<1>5. Wrap(x) = x + q * m
  <2> DEFINE p == q * m
  <2>1. p \in Int /\ a % m = a + p
    BY <1>1, <1>2
  <2> HIDE DEF p
  <2>2. Wrap(x) = x + p
    BY <1>1, <2>1, IntsAre
  <2>3. QED BY <2>2 DEF p
<1>6. QED BY <1>4, <1>5

\* What is in range stays as it is.
LEMMA WrapInRange == ASSUME NEW x \in Ints PROVE Wrap(x) = x
<1>1. x \in Int /\ x \in -Half..(-Half + 2 * Half - 1) /\ 2 * Half \in Nat \ {0} /\ -Half \in Int
  BY IntsAre
<1>2. PICK q \in Int : Wrap(x) = x + q * (2 * Half)
  BY <1>1, WrapIs
<1>3. Wrap(x) \in -Half..(-Half + 2 * Half - 1)
  <2>1. Wrap(x) \in Ints
    BY <1>1, WrapIs
  <2>2. QED BY <2>1, IntsAre
<1>4. QED BY <1>1, <1>2, <1>3, OneOfEach

\* Wrapping on the way makes no difference to the end.
LEMMA WrapAdd == ASSUME NEW x \in Int, NEW y \in Int PROVE Wrap(Wrap(x) + y) = Wrap(x + y)
<1> DEFINE m == 2 * Half
<1>1. m \in Nat \ {0} /\ -Half \in Int /\ Ints = -Half..(-Half + m - 1) /\ Ints \subseteq Int
  BY IntsAre
<1>2. PICK q \in Int : Wrap(x) = x + q * m
  BY WrapIs
<1>3. Wrap(x) \in Int /\ Wrap(x) + y \in Int /\ x + y \in Int
  <2>1. Wrap(x) \in Ints
    BY WrapIs
  <2>2. QED BY <1>1, <2>1
<1>4. PICK r \in Int : Wrap(Wrap(x) + y) = Wrap(x) + y + r * m
  BY <1>3, WrapIs
<1>5. PICK s \in Int : Wrap(x + y) = x + y + s * m
  BY <1>3, WrapIs
<1>6. Wrap(Wrap(x) + y) \in -Half..(-Half + m - 1) /\ Wrap(x + y) \in -Half..(-Half + m - 1)
  BY <1>1, <1>3, WrapIs
<1>7. q + r - s \in Int /\ Wrap(Wrap(x) + y) = Wrap(x + y) + (q + r - s) * m
  <2> HIDE DEF m
  <2>1. q * m \in Int /\ r * m \in Int /\ s * m \in Int
        /\ (q + r - s) * m = q * m + r * m - s * m
    BY <1>1
  <2> DEFINE qm == q * m
             rm == r * m
             sm == s * m
             d  == (q + r - s) * m
             w  == Wrap(x)
             v  == Wrap(w + y)
             u  == Wrap(x + y)
  <2>2. /\ qm \in Int /\ rm \in Int /\ sm \in Int /\ d = qm + rm - sm
        /\ w = x + qm /\ v = w + y + rm /\ u = x + y + sm
    BY <1>2, <1>4, <1>5, <2>1
  <2> HIDE DEF qm, rm, sm, d, w, v, u
  <2>3. v = u + d
    BY <2>2
  <2>4. QED BY <2>3 DEF u, v, w, d
<1>8. QED
  <2> DEFINE b == -Half
             v == Wrap(Wrap(x) + y)
             u == Wrap(x + y)
             p == q + r - s
  <2>1. /\ m \in Nat \ {0} /\ b \in Int /\ p \in Int /\ v = u + p * m
        /\ v \in b..(b + m - 1) /\ u \in b..(b + m - 1)
    BY <1>1, <1>6, <1>7
  <2> HIDE DEF m, b, v, u, p
  <2>2. v = u
    BY <2>1, OneOfEach
  <2>3. QED BY <2>2 DEF v, u

-----------------------------------------------------------------------------
LEMMA FormulaTypes ==
  ASSUME formula \in Formulas
  PROVE  /\ formula.mod \in Int /\ Len(formula.rolls) \in Nat
         /\ \A i \in 1..Len(formula.rolls) :
              formula.rolls[i].dice \in Ints /\ formula.rolls[i].amount \in Int /\ Asked(i) \in Nat
<1>1. Ints \subseteq Int
  BY IntsAre
<1>2. formula.mod \in Ints /\ formula.rolls \in Seq([dice : Ints, amount : Ints])
  BY DiceAssumption
<1> DEFINE fr == formula.rolls
           G == [dice : Ints, amount : Ints]
<1>3. Len(fr) \in Nat /\ \A i \in 1..Len(fr) : fr[i] \in G
  <2> HIDE DEF fr, G
  <2>1. fr \in Seq(G)
    BY <1>2 DEF fr, G
  <2>2. QED BY <2>1
<1>4. ASSUME NEW i \in 1..Len(fr)
      PROVE  fr[i].dice \in Ints /\ fr[i].amount \in Int /\ Asked(i) \in Nat
  <2>1. fr[i].dice \in Ints /\ fr[i].amount \in Ints
    BY <1>3
  <2>2. fr[i].amount \in Int
    BY <1>1, <2>1
  <2>3. Asked(i) \in Nat
    BY <2>2 DEF Asked
  <2>4. QED BY <2>1, <2>2, <2>3
<1>5. QED BY <1>1, <1>2, <1>3, <1>4

LEMMA CurrentIs ==
  ASSUME TypeOK, Len(rolls) < Len(formula.rolls)
  PROVE  /\ Len(rolls) \in Nat /\ Len(rolls) + 1 \in 1..Len(formula.rolls)
         /\ Current = formula.rolls[Len(rolls) + 1]
         /\ Current.dice \in Ints /\ Current.amount \in Int
<1>1. Len(rolls) \in Nat
  BY DEF TypeOK
<1>2. formula \in Formulas
  BY DEF TypeOK
<1>3. QED BY <1>1, <1>2, FormulaTypes DEF Current

LEMMA TypeOKInit == Init => TypeOK
<1>1. 0 \in Ints
  BY IntsAre
<1>2. <<>> \in Seq(Seq(Ints)) /\ <<>> \in Seq(Ints)
  OBVIOUS
<1>3. QED BY <1>1, <1>2 DEF Init, TypeOK

LEMMA TypeOKNext == TypeOK /\ [Next]_vars => TypeOK'
<1> SUFFICES ASSUME TypeOK, [Next]_vars PROVE TypeOK'
  OBVIOUS
<1>1. rollResult \in Int /\ Ints \subseteq Int /\ formula.mod \in Int
  BY IntsAre, FormulaTypes DEF TypeOK
<1>2. CASE Throw
  <2>1. PICK rolled \in Faces : group' = Append(group, rolled) /\ rollResult' = Wrap(rollResult + rolled)
    BY <1>2 DEF Throw
  <2>2. rolled \in Ints
    BY <1>2, <2>1, CurrentIs, IntsAre DEF Throw, Throwing, Faces
  <2>3. rollResult' \in Ints
    <3>1. rollResult + rolled \in Int
      BY <1>1, <2>2
    <3>2. QED BY <2>1, <3>1, WrapIs
  <2>4. QED BY <1>2, <2>1, <2>2, <2>3 DEF Throw, TypeOK
<1>3. CASE Panic
  BY <1>3 DEF Panic, TypeOK
<1>4. CASE NextGroup
  BY <1>4 DEF NextGroup, TypeOK
<1>5. CASE Finish
  <2>1. rollResult' \in Ints
    <3>1. rollResult + formula.mod \in Int
      BY <1>1
    <3>2. QED BY <1>5, <3>1, WrapIs DEF Finish
  <2>2. QED BY <1>5, <2>1 DEF Finish, TypeOK
<1>6. CASE UNCHANGED vars
  BY <1>6 DEF vars, TypeOK
<1>7. QED BY <1>2, <1>3, <1>4, <1>5, <1>6 DEF Next

-----------------------------------------------------------------------------
(***************************************************************************)
(* The inductive invariant: the groups that are done are as asked, the one *)
(* under way has no more throws than were asked for, and the sum so far is *)
(* that of all of them, wrapped.                                           *)
(***************************************************************************)
ThrowsOf(g, faces) == \A j \in 1..Len(g) : g[j] \in 1..faces
Dice(i) == formula.rolls[i].dice

GroupsInv ==
  /\ Len(rolls) <= Len(formula.rolls)
  /\ \A i \in 1..Len(rolls) : Len(rolls[i]) = Asked(i) /\ ThrowsOf(rolls[i], Dice(i))
  /\ Len(rolls) = Len(formula.rolls) => group = <<>>
  /\ Len(rolls) < Len(formula.rolls) =>
       Len(group) <= Asked(Len(rolls) + 1) /\ ThrowsOf(group, Dice(Len(rolls) + 1))

EndInv ==
  /\ pc = "done" => Len(rolls) = Len(formula.rolls)
  /\ pc = "panic" =>
       /\ Len(rolls) < Len(formula.rolls)
       /\ Current.dice <= 0 /\ Asked(Len(rolls) + 1) > 0

TotalInv ==
  /\ pc = "throwing" => rollResult = Wrap(Thrown(rolls) + Sum(group))
  /\ pc = "done" => rollResult = Wrap(Thrown(rolls) + formula.mod)

DiceInv == GroupsInv /\ EndInv /\ TotalInv

\* The sum of the throws of the groups that are done, as one more is.
LEMMA ThrownIs ==
  ASSUME NEW rs \in Seq(Seq(Ints)), NEW g \in Seq(Ints)
  PROVE  /\ [i \in 1..Len(rs) |-> Sum(rs[i])] \in Seq(Int)
         /\ Thrown(rs) \in Int /\ Sum(g) \in Int
         /\ Thrown(Append(rs, g)) = Thrown(rs) + Sum(g)
<1>1. Ints \subseteq Int /\ g \in Seq(Int)
  <2>1. Ints \subseteq Int
    BY IntsAre
  <2>2. QED BY <2>1, SeqMonotonic
<1>2. Sum(g) \in Int
  BY <1>1, SumInt
<1>3. Len(rs) \in Nat /\ \A i \in 1..Len(rs) : Sum(rs[i]) \in Int
  <2>1. ASSUME NEW i \in 1..Len(rs) PROVE rs[i] \in Seq(Int)
    <3>1. rs[i] \in Seq(Ints)
      OBVIOUS
    <3>2. QED BY <1>1, <3>1, SeqMonotonic
  <2>2. Len(rs) \in Nat
    OBVIOUS
  <2>3. QED BY <2>1, <2>2, SumInt
<1> DEFINE s == [i \in 1..Len(rs) |-> Sum(rs[i])]
           rg == Append(rs, g)
           t == [i \in 1..Len(rg) |-> Sum(rg[i])]
<1>4. s \in Seq(Int) /\ Len(s) = Len(rs)
  <2>1. s \in [1..Len(rs) -> Int]
    BY <1>3
  <2>2. QED BY <1>3, <2>1
<1>5. Len(rg) = Len(rs) + 1 /\ rg[Len(rs) + 1] = g /\ \A i \in 1..Len(rs) : rg[i] = rs[i]
  OBVIOUS
<1>6. t = Append(s, Sum(g))
  <2>1. t \in Seq(Int) /\ Len(t) = Len(rs) + 1
    <3>1. \A i \in 1..Len(rs) + 1 : Sum(rg[i]) \in Int
      <4>1. TAKE i \in 1..Len(rs) + 1
      <4>2. i \in 1..Len(rs) \/ i = Len(rs) + 1
        BY <1>3
      <4>3. QED BY <1>2, <1>3, <1>5, <4>2
    <3>2. t \in [1..Len(rs) + 1 -> Int]
      BY <1>5, <3>1
    <3>3. QED BY <1>3, <3>2
  <2>2. Append(s, Sum(g)) \in Seq(Int) /\ Len(Append(s, Sum(g))) = Len(rs) + 1
    BY <1>2, <1>4
  <2>3. ASSUME NEW i \in 1..Len(rs) + 1 PROVE t[i] = Append(s, Sum(g))[i]
    <3>1. t[i] = Sum(rg[i])
      BY <1>5
    <3>2. CASE i \in 1..Len(rs)
      <4>1. Append(s, Sum(g))[i] = s[i] /\ s[i] = Sum(rs[i])
        BY <1>3, <1>4, <3>2
      <4>2. QED BY <1>5, <3>1, <3>2, <4>1
    <3>3. CASE i = Len(rs) + 1
      <4>1. Append(s, Sum(g))[i] = Sum(g)
        BY <1>2, <1>4, <3>3
      <4>2. QED BY <1>5, <3>1, <3>3, <4>1
    <3>4. QED BY <1>3, <3>2, <3>3
  <2> HIDE DEF s, t
  <2>4. QED BY <2>1, <2>2, <2>3, SeqEqual
<1>7. Sum(t) = Sum(s) + Sum(g) /\ Sum(s) \in Int
  <2> HIDE DEF s, t
  <2>1. QED BY <1>2, <1>4, <1>6, SumAppend, SumInt
<1>8. Thrown(rs) = Sum(s) /\ Thrown(rg) = Sum(t)
  BY DEF Thrown
<1>9. QED BY <1>2, <1>4, <1>7, <1>8

LEMMA ThrownEmpty == Thrown(<<>>) = 0
<1> DEFINE t == [i \in 1..Len(<<>>) |-> Sum(<<>>[i])]
<1>1. t = <<>>
  OBVIOUS
<1>2. Thrown(<<>>) = Sum(t)
  BY DEF Thrown
<1>3. QED BY <1>1, <1>2, SumEmpty

LEMMA DiceInvInit == Init => DiceInv
<1> SUFFICES ASSUME Init PROVE DiceInv
  OBVIOUS
<1>1. rolls = <<>> /\ group = <<>> /\ Len(<<>>) = 0 /\ pc = "throwing" /\ formula \in Formulas
  BY DEF Init
<1>2. GroupsInv
  BY <1>1, FormulaTypes DEF GroupsInv, ThrowsOf
<1>3. Wrap(Thrown(rolls) + Sum(group)) = 0
  <2>1. 0 \in Ints
    BY IntsAre
  <2>2. Thrown(rolls) + Sum(group) = 0
    BY <1>1, SumEmpty, ThrownEmpty
  <2>3. QED BY <2>1, <2>2, WrapInRange
<1>4. EndInv /\ TotalInv
  BY <1>1, <1>3 DEF Init, EndInv, TotalInv
<1>5. QED BY <1>2, <1>4 DEF DiceInv

LEMMA ThrowInv == ASSUME TypeOK, DiceInv, Throw PROVE DiceInv'
<1> DEFINE n == Len(rolls) + 1
<1>1. PICK rolled \in Faces : group' = Append(group, rolled) /\ rollResult' = Wrap(rollResult + rolled)
  BY DEF Throw
<1>2. /\ Len(rolls) < Len(formula.rolls) /\ Len(group) < Current.amount /\ pc = "throwing"
      /\ UNCHANGED <<formula, rolls, pc>>
  BY DEF Throw, Throwing
<1>3. /\ rolled \in 1..formula.rolls[n].dice /\ rolled \in Ints /\ rolled \in Int
      /\ Len(group) < Asked(n) /\ n \in 1..Len(formula.rolls) /\ Asked(n) \in Nat
  <2>1. Current.dice \in Ints /\ Current = formula.rolls[n] /\ n \in 1..Len(formula.rolls)
        /\ Current.amount \in Int
    BY <1>2, CurrentIs
  <2>2. rolled \in 1..formula.rolls[n].dice
    BY <1>1, <2>1 DEF Faces
  <2>3. rolled \in Ints /\ rolled \in Int
    BY <2>1, <2>2, IntsAre
  <2>4. Len(group) \in Nat
    BY DEF TypeOK
  <2>5. Len(group) < Asked(n)
    BY <1>2, <2>1, <2>4 DEF Asked
  <2>6. Asked(n) \in Nat
    BY <2>1, FormulaTypes DEF TypeOK
  <2>7. QED BY <2>1, <2>2, <2>3, <2>5, <2>6
<1>4. GroupsInv'
  <2>1. /\ Len(group') = Len(group) + 1 /\ Len(group) \in Nat /\ group'[Len(group) + 1] = rolled
        /\ \A j \in 1..Len(group) : group'[j] = group[j]
    BY <1>1, <1>3 DEF TypeOK
  <2>2. \A i : Asked(i)' = Asked(i) /\ Dice(i)' = Dice(i)
    BY <1>2 DEF Asked, Dice
  <2>3. ThrowsOf(group', Dice(n))
    <3>1. ThrowsOf(group, Dice(n))
      BY <1>2 DEF DiceInv, GroupsInv
    <3>2. ASSUME NEW j \in 1..Len(group') PROVE group'[j] \in 1..Dice(n)
      <4>1. j \in 1..Len(group) \/ j = Len(group) + 1
        BY <2>1
      <4>2. QED BY <1>3, <2>1, <3>1, <4>1 DEF ThrowsOf, Dice
    <3>3. QED BY <1>2, <3>2 DEF ThrowsOf
  <2>4. Len(group') <= Asked(n)
    BY <1>3, <2>1
  <2>5. Len(rolls) < Len(formula.rolls) /\ Len(rolls) \in Nat /\ Len(formula.rolls) \in Nat
    BY <1>2, CurrentIs, FormulaTypes DEF TypeOK
  <2>6. QED BY <1>2, <2>2, <2>3, <2>4, <2>5 DEF DiceInv, GroupsInv
<1>5. EndInv'
  BY <1>2 DEF EndInv
<1>6. TotalInv'
  <2>1. Sum(group') = Sum(group) + rolled /\ Sum(group) \in Int /\ Thrown(rolls) \in Int
    <3>1. group \in Seq(Int)
      <4>1. Ints \subseteq Int /\ group \in Seq(Ints)
        BY IntsAre DEF TypeOK
      <4>2. QED BY <4>1, SeqMonotonic
    <3>2. QED BY <1>1, <1>3, <3>1, SumAppend, SumInt, ThrownIs DEF TypeOK
  <2>2. rollResult = Wrap(Thrown(rolls) + Sum(group))
    BY <1>2 DEF DiceInv, TotalInv
  <2>3. rollResult' = Wrap((Thrown(rolls) + Sum(group)) + rolled)
    <3>1. Thrown(rolls) + Sum(group) \in Int
      BY <2>1
    <3>2. QED BY <1>1, <1>3, <2>2, <3>1, WrapAdd
  <2>4. (Thrown(rolls) + Sum(group)) + rolled = Thrown(rolls) + Sum(group')
    BY <1>3, <2>1
  <2>5. QED BY <1>2, <2>3, <2>4 DEF TotalInv
<1>7. QED BY <1>4, <1>5, <1>6 DEF DiceInv

LEMMA NextGroupInv == ASSUME TypeOK, DiceInv, NextGroup PROVE DiceInv'
<1> DEFINE n == Len(rolls) + 1
<1>1. /\ pc = "throwing" /\ Len(rolls) < Len(formula.rolls) /\ Len(group) >= Current.amount
      /\ rolls' = Append(rolls, group) /\ group' = <<>> /\ UNCHANGED <<formula, rollResult, pc>>
  BY DEF NextGroup
<1>2. /\ Len(rolls) \in Nat /\ Len(formula.rolls) \in Nat /\ n \in 1..Len(formula.rolls)
      /\ Len(group) \in Nat /\ Current = formula.rolls[n] /\ Current.amount \in Int
  BY <1>1, CurrentIs, FormulaTypes DEF TypeOK
<1>3. Len(group) = Asked(n) /\ ThrowsOf(group, Dice(n))
  <2>1. Len(group) <= Asked(n) /\ ThrowsOf(group, Dice(n))
    BY <1>1 DEF DiceInv, GroupsInv
  <2>2. Asked(n) <= Len(group)
    BY <1>1, <1>2 DEF Asked
  <2>3. Asked(n) \in Nat
    BY <1>2, FormulaTypes DEF TypeOK
  <2>4. QED BY <1>2, <2>1, <2>2, <2>3
<1>4. /\ Len(rolls') = n /\ rolls'[n] = group /\ \A i \in 1..Len(rolls) : rolls'[i] = rolls[i]
  BY <1>1 DEF TypeOK
<1>5. GroupsInv'
  <2>1. \A i : Asked(i)' = Asked(i)
    BY <1>1 DEF Asked
  <2>2. \A i : Dice(i)' = Dice(i)
    BY <1>1 DEF Dice
  <2>3. ASSUME NEW i \in 1..Len(rolls')
        PROVE  Len(rolls'[i]) = Asked(i) /\ ThrowsOf(rolls'[i], Dice(i))
    <3>1. CASE i \in 1..Len(rolls)
      BY <1>4, <3>1 DEF DiceInv, GroupsInv
    <3>2. CASE i = n
      BY <1>3, <1>4, <3>2
    <3>3. QED BY <1>2, <1>4, <3>1, <3>2
  <2>4. /\ Len(group') = 0 /\ \A i : ThrowsOf(group', Dice(i))
        /\ \A i \in 1..Len(formula.rolls) : Asked(i) \in Nat
    BY <1>1, FormulaTypes DEF ThrowsOf, TypeOK
  <2>5. Len(rolls') < Len(formula.rolls) => Len(rolls') + 1 \in 1..Len(formula.rolls)
    BY <1>2, <1>4
  <2>6. Len(rolls') <= Len(formula.rolls)
    BY <1>2, <1>4
  <2>7. QED BY <1>1, <2>1, <2>2, <2>3, <2>4, <2>5, <2>6 DEF GroupsInv
<1>6. EndInv'
  BY <1>1 DEF EndInv
<1>7. TotalInv'
  <2>1. Thrown(rolls') = Thrown(rolls) + Sum(group) /\ Thrown(rolls') \in Int
    <3>1. rolls' \in Seq(Seq(Ints))
      BY <1>1 DEF TypeOK
    <3>2. QED BY <1>1, <3>1, ThrownIs DEF TypeOK
  <2>2. Thrown(rolls') + Sum(group') = Thrown(rolls) + Sum(group)
    BY <1>1, <2>1, SumEmpty
  <2>3. rollResult = Wrap(Thrown(rolls) + Sum(group))
    BY <1>1 DEF DiceInv, TotalInv
  <2>4. QED BY <1>1, <2>2, <2>3 DEF TotalInv
<1>8. QED BY <1>5, <1>6, <1>7 DEF DiceInv

LEMMA FinishInv == ASSUME TypeOK, DiceInv, Finish PROVE DiceInv'
<1>1. /\ pc = "throwing" /\ Len(rolls) = Len(formula.rolls) /\ pc' = "done"
      /\ rollResult' = Wrap(rollResult + formula.mod) /\ UNCHANGED <<formula, rolls, group>>
  BY DEF Finish
<1>2. GroupsInv' /\ EndInv'
  BY <1>1 DEF DiceInv, GroupsInv, EndInv, Dice, Asked
<1>3. group = <<>> /\ Thrown(rolls) \in Int /\ formula.mod \in Int
  BY <1>1, ThrownIs, FormulaTypes DEF DiceInv, GroupsInv, TypeOK
<1>4. rollResult = Wrap(Thrown(rolls) + Sum(group)) /\ Thrown(rolls) + Sum(group) = Thrown(rolls)
  BY <1>1, <1>3, SumEmpty DEF DiceInv, TotalInv
<1>5. rollResult' = Wrap(Thrown(rolls) + formula.mod)
  BY <1>1, <1>3, <1>4, WrapAdd
<1>6. QED BY <1>1, <1>2, <1>5 DEF DiceInv, TotalInv

LEMMA DiceInvNext == TypeOK /\ DiceInv /\ [Next]_vars => DiceInv'
<1> SUFFICES ASSUME TypeOK, DiceInv, [Next]_vars PROVE DiceInv'
  OBVIOUS
<1>1. CASE Panic
  <2>1. Len(group) \in Nat /\ Current.amount \in Int /\ Current = formula.rolls[Len(rolls) + 1]
    BY <1>1, CurrentIs DEF Panic, Throwing, TypeOK
  <2>2. Asked(Len(rolls) + 1) > 0
    BY <1>1, <2>1 DEF Panic, Throwing, Asked
  <2>3. QED
    BY <1>1, <2>2 DEF Panic, Throwing, Current, DiceInv, GroupsInv, EndInv, TotalInv, Dice, Asked
<1>2. CASE UNCHANGED vars
  BY <1>2 DEF vars, DiceInv, GroupsInv, EndInv, TotalInv, Dice, Current, Asked
<1>3. QED BY <1>1, <1>2, ThrowInv, NextGroupInv, FinishInv DEF Next

LEMMA DiceCorrect == Spec => [](TypeOK /\ DiceInv)
BY TypeOKInit, TypeOKNext, DiceInvInit, DiceInvNext, PTL DEF Spec

\* What is reported is what was asked for and thrown, for any number of groups
\* and throws, and whatever overflowed on the way.
THEOREM ReportsAreConsistent == Spec => []ReportIsConsistent
<1>1. TypeOK /\ DiceInv => ReportIsConsistent
  BY DEF TypeOK, DiceInv, GroupsInv, EndInv, TotalInv, ThrowsOf, Dice, ReportIsConsistent
<1>2. QED BY <1>1, DiceCorrect, PTL

\* Only a formula that throws dice without faces panics, and none such is answered.
THEOREM OnlyFacelessPanic == Spec => []PanicsOnlyWithoutFaces
<1>1. ASSUME TypeOK, DiceInv PROVE PanicsOnlyWithoutFaces
  <2>1. formula \in Formulas /\ DOMAIN formula.rolls = 1..Len(formula.rolls)
    BY <1>1, DiceAssumption DEF TypeOK
  <2>2. CASE pc = "panic"
    BY <1>1, <2>1, <2>2, CurrentIs DEF DiceInv, EndInv, PanicsOnlyWithoutFaces
  <2>3. CASE pc = "done"
    <3>1. ASSUME NEW i \in 1..Len(formula.rolls), Asked(i) > 0 PROVE formula.rolls[i].dice > 0
      <4>1. Len(rolls[i]) = Asked(i) /\ ThrowsOf(rolls[i], Dice(i))
        BY <1>1, <2>3, <3>1 DEF DiceInv, EndInv, GroupsInv
      <4>2. 1 \in 1..Len(rolls[i]) /\ formula.rolls[i].dice \in Int
        BY <2>1, <3>1, <4>1, FormulaTypes, IntsAre
      <4>3. QED BY <4>1, <4>2 DEF ThrowsOf, Dice
    <3>2. \A i \in 1..Len(formula.rolls) : formula.rolls[i].dice \in Int
      BY <2>1, FormulaTypes, IntsAre
    <3>3. QED BY <2>1, <2>3, <3>1, <3>2 DEF PanicsOnlyWithoutFaces
  <2>4. QED BY <2>2, <2>3 DEF PanicsOnlyWithoutFaces
<1>2. QED BY <1>1, DiceCorrect, PTL
=============================================================================
