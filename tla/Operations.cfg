SPECIFICATION FairSpec
CONSTANTS
  Creators = {c1, c2}
  MaxRuns = 2
  MaxMarkets = 2
  Prices = {1, 2}
  MaxErrors = 1
  MaxQuotes = 2
  MaxFaults = 2
INVARIANTS SavedIsWired RecordsGenuine
PROPERTIES EventuallyPosted
CHECK_DEADLOCK FALSE
