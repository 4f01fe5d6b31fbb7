SPECIFICATION Spec
CONSTANTS
  u1 = u1
  u2 = u2
  Users <- MCUsers
  Zero = Zero
  Pool = Pool
  Router = Router
  NoRow = NoRow
  Supply = 3
  Amounts = {1}
  MaxBlocks = 4
  BatchSize = 2
  MaxFaults = 1
SYMMETRY Symmetry
INVARIANTS USIDIndexed SubgraphBalances HoldersExact UsersNeverOvercounted
CHECK_DEADLOCK FALSE
