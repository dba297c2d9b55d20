SPECIFICATION MCSpec
CONSTANTS
  Width = 4
  MaxDice = 3
  MaxAmount = 2
  Formulas <- SmallFormulas
INVARIANTS ReportIsConsistent PanicsOnlyWithoutFaces
