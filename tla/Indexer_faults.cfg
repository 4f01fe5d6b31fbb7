SPECIFICATION FairSpec
CONSTANTS
  Markets = {m1}
  Users = {u1, u2}
  SwapFees = {1}
  RecordAmounts = {}
  CLAIM = CLAIM
  LP_REWARDS = LP_REWARDS
  Strategies = {CLAIM, LP_REWARDS}
  MaxBlocks = 3
  BatchSize = 2
  MaxCrashes = 1
  MaxFailures = 1
INVARIANTS NoSwapSkipped CreatedAreTracked CountsNeverShort ReservesFollowSwaps
PROPERTIES OnlyOpenBatchReplayed EventuallyIndexed
CHECK_DEADLOCK FALSE
