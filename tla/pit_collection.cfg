\* Four days with a holiday, two filings, a crash, a skipped flow, one manual command.
SPECIFICATION Spec
CONSTANTS
  block = block
  announce = announce
  Sessions <- Calendar
  Filings = {block, announce}
  Blocking = {block}
  Lookback = 3
  KisDays = 1
  Window = 2
  Foreign <- Bought
  Institutional <- Bought
  PriceFacts <- Shown
  LastDay = 4
  Bounds <- Few
INVARIANTS
  NoMissedBlock
  IndexIsDistance
PROPERTIES
  PastDecisionIsFixed
CHECK_DEADLOCK FALSE
