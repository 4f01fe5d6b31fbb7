SPECIFICATION FairSpec
CONSTANTS
  MarketIds = {m1}
  SpotPrices <- MCPrices
  Timeframes <- MCTimeframes
  Ids = {1, 2, 3}
  LastSecond = 4
  Limit = 2
  MaxRestarts = 1
  MaxFailures = 1
INVARIANTS CandlesExact NoSwapPassed FinestSurvives
PROPERTIES EventuallyTaken
CHECK_DEADLOCK FALSE
