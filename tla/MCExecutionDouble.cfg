SPECIFICATION Spec
CHECK_DEADLOCK FALSE
CONSTANTS
  daily = daily
  intraday = intraday
  a = a
  b = b
  Desk = {intraday}
  Symbol = {a}
  MaxShares = 6
  StampsPerSecond = 1
  Audited = {intraday}
  CancelsStale = {}
  ManagesHeld = {intraday}
  CanFlatten = {}
  Reserved <- NothingReserved
  Book <- OneBook
  Quotes <- OneQuote
  EquityLevel = {8}
  WeightUnit = 4
  MaxPositionWeight = 2
  MaxGross = 4
  MaxNet = 4
  Ceiling = 9
  MaxDrawdown = 30
  MaxDailyLoss = 20
  RebalanceBand = 0
  RateCap = 1
  MaxQty = 2
  Dollar = 2
  MaxPass = 3
PROPERTIES
  NoDoubleSubmit
