\* The Hermes portfolio: both entries, two sessions of four bars.
SPECIFICATION Spec
CONSTANTS
  Kinds = {"v2", "hunter"}
  Prices <- TwoPrices
  Minutes = 4
  ArmUntil = 3
  Cutoff = 2
  HunterUntil = 4
  Recent = 1
  Page = 2
  BackPage = 1
  ReclaimFrom = 2
  HoldBars = 1
  Faults = {"reject", "lag"}
  MaxDay = 2
INVARIANTS
  TypeOK
  FirstStopHonored
  SoldAfterTrigger
  WaitingExitIsNew
PROPERTIES
  PendingKept
  ReclaimIsFixed
CHECK_DEADLOCK FALSE
