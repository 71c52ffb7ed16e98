SPECIFICATION Spec
CONSTANTS
  daily = daily
  intraday = intraday
  a = a
  b = b
  Desk = {daily}
  Symbol = {a}
  MaxShares = 6
  StampsPerSecond = 2
  Audited = {daily}
  CancelsStale = {daily}
  ManagesHeld = {daily}
  CanFlatten = {}
  Reserved <- NothingReserved
  Book <- HaltBooks
  Quotes <- OneQuote
  EquityLevel = {6, 8, 10}
  WeightUnit = 4
  MaxPositionWeight = 2
  MaxGross = 4
  MaxNet = 4
  Ceiling = 9
  MaxDrawdown = 30
  MaxDailyLoss = 20
  RebalanceBand = 0
  RateCap = 1
  MaxQty = 2
  Dollar = 2
  MaxPass = 3
INVARIANTS
  TripIsFinal
  PeaksRise
  AuditIsTrue
PROPERTIES
  ImplementsHaltGate
