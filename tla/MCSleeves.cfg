SPECIFICATION Spec
CONSTANTS
  a = a
  b = b
  s1 = s1
  s2 = s2
  Symbol = {a, b}
  Story = {s1}
  NewsNames = 1
  InsiderNames = 1
  NewsHold = 2
  InsiderHold = 2
  Cooldown = 1
  BookUnits = 2
  NewsUnits = 1
  InsiderUnits = 1
  Quotable <- Quotes
  MaxClock = 3
CHECK_DEADLOCK FALSE
INVARIANTS
  TypeOK
  SlotsHold
  OneStoryOnePass
  ShortNeedsARace
  TimeBoxed
  NoOrphans
SYMMETRY Names
