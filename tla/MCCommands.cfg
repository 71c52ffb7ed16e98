SPECIFICATION Spec
CONSTANTS
  Names <- Names4
  Sectors <- Sectors4
  Limits <- Limits4
  Rankings <- Rankings4
  Closes <- Closes4
  Known <- Known4
  Marked <- Marked4
  Gapped <- Gapped4
  Sleeve <- Sleeve4
  Leaning <- Leaning4
  Governor <- Governor4
  RawBooks <- RawBooks4
  TopQuantile <- Half
  ExitBand <- OneAndHalf
  MaxPositions = 2
  RebalanceBand <- NoBand
  CapitalCeiling = 44
  StartingCash = 40
  Dollar = 4
  MaxDay = 2
  Listed = {"x"}
  Ids = {1, 2, 3}
  Prices = {0, 2, 3}
  Shares = {1, 3}
  Opening = 10
  Universe <- Pair
  LastDay = 3
  Horizon = 2
  Close <- Closes2
  Forming <- Forming2
  Absent <- Absent2
  Scorers = {"composite", "forecast"}
  MaxPreds = 2
  Command = {1, 2, 3}
  MaxTime = 3
  Rows = 6
  Date <- Dates6
  FirstPrice <- Listed4
  Signals <- Signals4
  InverseVol <- Even4
  Factors <- Governor4
  Warmup = 1
  Every = {2, 3}
  MinRebalances = 2
  Fraction <- Half
  Slots = 2
  Lookback = 2
  Weeks = 3
  Holidays <- Holidays3
  Ahead = 3
  Stride = 2
  MaxDates = 7
  Members = 2
  Splits = {3, 5}
  Embargoes = {0, 2}
  Family = {"f", "g", "h"}
  BurnIn = 1
  Spacings = {2, 3}
  SealedShare <- Third
  Alpha = 6
  PValues = {1, 2, 3, 4, 5, 6, 7}
  Listing = {"x", "y"}
  Panel = 10
  Holes <- Missed
  Disclosures <- Histories
  Lookbacks = {7, 9}
  Buffer = 1
  MinHistory = 4
  Step = 2
  ClusterSize = 2
  ClusterWindow = 4
  Estimation = 2
  Gap = 1
  Post = 2
  MaxPermutations = 2
  Level <- Third
  Symbols <- TwoNames
  Budget = 1
  NewsWindow = 2
  ReadWindow = 2
  MaxHour = 3
  MaxSweeps = 2
  Grid = 2
  RiskWeight <- Half
CHECK_DEADLOCK FALSE
INVARIANTS
  TypeOK
  NeverRefused
  SoldForAReason
  NothingLingers
  WithinBudget
  FillsExplainAccount
  NoFutureGrades
  OwnTrackRecord
  SingleLook
  ToldTheSealed
  DecidedBefore
  PaidFor
  NoLeak
  LargestRejection
  AnchoredWhenKnowable
  FairNull
  NoHindsight
  PanelOnlyDamps
PROPERTIES
  BooksBalance
  GradesAreFinal
