SPECIFICATION Spec
CONSTANTS
  Armed = {"daily", "intraday"}
  MaxSession = 1
  MaxLife = 1
CHECK_DEADLOCK FALSE
PROPERTIES
  StandsDown
