\* Two symbols, six timestamps in days of three, four shapes of bars.
SPECIFICATION ReplaySpec
CONSTANTS
  Names <- TwoNames
  Shapes <- FourShapes
  Warm <- Level
  Times = 6
  DayLength = 3
  Quantity = 1
  InitialCash = 30000
  Slippage = 10
  CommissionRate = 1
  TaxRate = 2
  Limits <- Both
  ShortWindow = 1
  LongWindow = 2
  MinHold = 2
  AtrPeriod = 2
  AtrMultiple = 1
  Early = 1
INVARIANTS
  BooksBalance
  ReplaysAgree
PROPERTIES
  ExitsAreTaken
CHECK_DEADLOCK FALSE
