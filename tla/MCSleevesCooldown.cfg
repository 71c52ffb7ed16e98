SPECIFICATION Spec
CONSTANTS
  a = a
  b = b
  s1 = s1
  s2 = s2
  Symbol = {a}
  Story = {s1, s2}
  NewsNames = 1
  InsiderNames = 1
  NewsHold = 2
  InsiderHold = 1
  Cooldown = 2
  BookUnits = 2
  NewsUnits = 1
  InsiderUnits = 1
  Quotable <- Quotes
  MaxClock = 4
CHECK_DEADLOCK FALSE
INVARIANT
  CooldownHolds
