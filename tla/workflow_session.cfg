\* Two executions that may overlap, and every fault.
SPECIFICATION Spec
CONSTANTS
  s1 = s1
  r1 = r1
  r2 = r2
  Symbols <- OneSymbol
  Overnight <- SameOvernight
  Runners <- TwoRunners
  MaxSelected = 1
  MaxRuns = 2
  Faults = {"api", "hermes", "kill"}
SYMMETRY Symmetry
INVARIANTS
  OncePerSession
  HeldCovered
  SetupResolved
  PromotedIsPersisted
  StreakSurvives
PROPERTIES
  BuysNeedUniverse
CHECK_DEADLOCK FALSE
