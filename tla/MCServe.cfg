SPECIFICATION Spec
CONSTANTS
  Armed = {"daily", "intraday", "news"}
  MaxSession = 3
  MaxLife = 2
CHECK_DEADLOCK FALSE
INVARIANTS
  TypeOK
  OneCyclePerClose
PROPERTIES
  CycleAfterClose
  CloseIsFollowedByCycle
  LoopsSurvive
