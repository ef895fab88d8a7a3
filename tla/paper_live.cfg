\* The Rule portfolio with two clusters, undisturbed by crashes: every plan resolves.
SPECIFICATION FairSpec
CONSTANTS
  a = a
  b = b
  c1 = c1
  c2 = c2
  r1 = r1
  r2 = r2
  Symbols = {a, b}
  Clusters = {c1, c2}
  ClusterOf <- TwoClusters
  Runners = {r1}
  Legacy = {}
  Hunter = FALSE
  Faults = {"plan", "evaluate"}
  PerTradeHeat = 2
  MaxOpenHeat = 3
  MaxClusterHeat = 2
  InitialCash = 3
  ExitLosses = {1}
  MaxDailyBuys = 2
  MaxOpenPositions = 2
  MaxDay = 2
PROPERTIES
  PlansResolve
