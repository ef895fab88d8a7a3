\* Two cycles of one portfolio at a time.
SPECIFICATION Spec
CONSTANTS
  a = a
  b = b
  c1 = c1
  c2 = c2
  r1 = r1
  r2 = r2
  Symbols = {a, b}
  Clusters = {c1}
  ClusterOf <- OneCluster
  Runners = {r1, r2}
  Legacy = {}
  Hunter = TRUE
  Faults = {"kill"}
  PerTradeHeat = 1
  MaxOpenHeat = 2
  MaxClusterHeat = 3
  InitialCash = 2
  ExitLosses = {1}
  MaxDailyBuys = 2
  MaxOpenPositions = 2
  MaxDay = 1
PROPERTIES
  NoDoubleEntry
SYMMETRY SymbolSymmetry
