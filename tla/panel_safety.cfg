\* A daily and an hourly panel, two runners at the same time.
SPECIFICATION Spec
CONSTANTS
  daily = daily
  hourly = hourly
  r1 = r1
  r2 = r2
  analyst = analyst
  skeptic = skeptic
  NoRun = NoRun
  NoPanel = NoPanel
  Panels = {daily, hourly}
  Hourly = {hourly}
  Runs = {r1, r2}
  Roles = {analyst}
  Faults = {"agent", "timeout", "report", "loss"}
  MaxLosses = 1
INVARIANTS
  TypeOK
  ReportedIsComplete
  SucceededIsReported
  AlertedIsFailed
PROPERTIES
  TerminalIsFinal
CHECK_DEADLOCK FALSE
SYMMETRY RunSymmetry
