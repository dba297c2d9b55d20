-------------------------------- MODULE Dice --------------------------------
(***************************************************************************)
(* EventService.ProcessSkillRoll, to which ProcessRoll sends every type of *)
(* roll: the loop over the groups of dice a player asks for, in the        *)
(* integers of the machine.                                                *)
(*                                                                         *)
(* One step is one throw, so that what the loop adds up as it goes can be  *)
(* compared with what it reports.                                          *)
(***************************************************************************)
EXTENDS Integers, Sequences

CONSTANTS
  Formulas, \* RollFormula: a sequence of [dice, amount] and a modifier
  Width     \* bits of an int (64 in the code)

MaxInt == 2^(Width - 1) - 1
MinInt == -(2^(Width - 1))
Ints   == MinInt..MaxInt

ASSUME DiceAssumption ==
  /\ Width \in Nat \ {0}
  /\ \A f \in Formulas : f.mod \in Ints /\ f.rolls \in Seq([dice : Ints, amount : Ints])

VARIABLES
  formula,    \* the request
  rolls,      \* RollFormulaResult.Rolls: the results of the groups done
  group,      \* rollResults: the throws of the group under way
  rollResult, \* the sum so far
  pc          \* "throwing", "done", or "panic"

vars == <<formula, rolls, group, rollResult, pc>>

TypeOK ==
  /\ formula \in Formulas
  /\ rolls \in Seq(Seq(Ints))
  /\ group \in Seq(Ints)
  /\ rollResult \in Ints
  /\ pc \in {"throwing", "done", "panic"}

\* The value an int takes for x.
Wrap(x) == ((x - MinInt) % 2^Width) + MinInt

Init ==
  /\ formula \in Formulas
  /\ rolls = <<>>
  /\ group = <<>>
  /\ rollResult = 0
  /\ pc = "throwing"

\* The group of dice being thrown.
Current == formula.rolls[Len(rolls) + 1]

Throwing_AtLeastOnce ==
  /\ pc = "throwing"
  /\ Len(rolls) < Len(formula.rolls)
  /\ Len(group) < Current.amount \/ group = <<>>
Throwing ==
  /\ pc = "throwing"
  /\ Len(rolls) < Len(formula.rolls)
  /\ Len(group) < Current.amount

\* rand.IntN(roll.Dice) + 1
Faces_FromZero == 0..(Current.dice - 1)
Faces == 1..Current.dice

Throw ==
  /\ Throwing
  /\ Current.dice > 0
  /\ \E rolled \in Faces :
       /\ group' = Append(group, rolled)
       /\ rollResult' = Wrap(rollResult + rolled)
  /\ UNCHANGED <<formula, rolls, pc>>

\* rand.IntN panics when its argument is not positive.
Panic ==
  /\ Throwing
  /\ Current.dice <= 0
  /\ pc' = "panic"
  /\ UNCHANGED <<formula, rolls, group, rollResult>>

\* The group has been thrown (at once, if its amount is not positive).
NextGroup ==
  /\ pc = "throwing"
  /\ Len(rolls) < Len(formula.rolls)
  /\ Len(group) >= Current.amount
  /\ rolls' = Append(rolls, group)
  /\ group' = <<>>
  /\ UNCHANGED <<formula, rollResult, pc>>

\* result.RollResult = rollResult + request.Formula.Mod
Finish ==
  /\ pc = "throwing"
  /\ Len(rolls) = Len(formula.rolls)
  /\ rollResult' = Wrap(rollResult + formula.mod)
  /\ pc' = "done"
  /\ UNCHANGED <<formula, rolls, group>>

Next == Throw \/ Panic \/ NextGroup \/ Finish

Spec == Init /\ [][Next]_vars

-----------------------------------------------------------------------------
Asked(i) == IF formula.rolls[i].amount > 0 THEN formula.rolls[i].amount ELSE 0

\* The sum of a sequence of numbers, by its partial sums.
Sum(s) ==
  LET upTo[n \in 0..Len(s)] == IF n = 0 THEN 0 ELSE upTo[n - 1] + s[n] IN upTo[Len(s)]

\* The sum of all throws of the groups in rs, over the integers.
Thrown(rs) == Sum([i \in 1..Len(rs) |-> Sum(rs[i])])

\* What is reported is what was thrown: every group has the throws that were
\* asked for, each a face of its dice, and the total is their sum and the
\* modifier, in the arithmetic of the machine.
ReportIsConsistent ==
  pc = "done" =>
    /\ Len(rolls) = Len(formula.rolls)
    /\ \A i \in 1..Len(rolls) :
         /\ Len(rolls[i]) = Asked(i)
         /\ \A j \in 1..Asked(i) : rolls[i][j] \in 1..formula.rolls[i].dice
    /\ rollResult = Wrap(Thrown(rolls) + formula.mod)

\* The goroutine, and with it the process, ends in a panic only for a formula
\* that throws dice without faces, and is answered for no such formula.
PanicsOnlyWithoutFaces ==
  LET faceless == \E i \in DOMAIN formula.rolls : Asked(i) > 0 /\ formula.rolls[i].dice <= 0
  IN  (pc = "panic" => faceless) /\ (pc = "done" => ~faceless)
=============================================================================
