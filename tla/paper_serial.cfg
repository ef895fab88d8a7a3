\* One cycle at a time; every fault may happen.
SPECIFICATION Spec
CONSTANTS
  a = a
  b = b
  c1 = c1
  c2 = c2
  r1 = r1
  r2 = r2
  Symbols = {a, b}
  Clusters = {c1}
  ClusterOf <- OneCluster
  Runners = {r1}
  Legacy = {a, b}
  Hunter = TRUE
  Faults = {"kill", "store", "plan", "evaluate"}
  PerTradeHeat = 2
  MaxOpenHeat = 3
  MaxClusterHeat = 3
  InitialCash = 3
  ExitLosses = {1}
  MaxDailyBuys = 2
  MaxOpenPositions = 2
  MaxDay = 2
INVARIANTS
  TypeOK
  PositionsManaged
  HeatWithinBudget
  CashCovered
PROPERTIES
  LegacyFailsClosed
  ImplementsBook
SYMMETRY SymbolSymmetry
