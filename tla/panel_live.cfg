\* One runner process after another, two of them lost: every panel ends.
SPECIFICATION FairSpec
CONSTANTS
  daily = daily
  hourly = hourly
  r1 = r1
  r2 = r2
  analyst = analyst
  skeptic = skeptic
  NoRun = NoRun
  NoPanel = NoPanel
  Panels = {daily, hourly}
  Hourly = {hourly}
  Runs = {r1}
  Roles = {analyst, skeptic}
  Faults = {"agent", "post", "timeout", "report", "loss"}
  MaxLosses = 2
PROPERTIES
  PanelsResolve
CHECK_DEADLOCK FALSE
