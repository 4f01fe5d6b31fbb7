SPECIFICATION Spec
CONSTANTS
  Markets = {m1, m2}
  Users = {u1}
  SwapFees = {1}
  RecordAmounts = {1}
  CLAIM = CLAIM
  LP_REWARDS = LP_REWARDS
  Strategies = {CLAIM, LP_REWARDS}
  MaxBlocks = 4
  BatchSize = 2
  MaxCrashes = 0
  MaxFailures = 0
INVARIANTS PendingIndexed LaterStrategyIndexed
PROPERTIES ImplementsSubgraph
CHECK_DEADLOCK FALSE
