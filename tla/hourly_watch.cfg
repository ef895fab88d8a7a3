\* Three executions of two calls each: two at a time on one day with one
\* fault, or one at a time on two days with two faults.
SPECIFICATION Spec
CONSTANTS
  MaxExecs = 3
  Portfolios = {"rule", "hermes"}
  Benchmarks = {"069500", "229200"}
  Stocks = {"stock"}
  Lead = "069500"
  Observations <- Seen
  MaxTries = 2
  MaxDays = 2
  Bounds <- SomeBounds
INVARIANTS
  SuppressedIsQueued
PROPERTIES
  AnalysedOnce
  FoundIsAnswered
CHECK_DEADLOCK FALSE
