SPECIFICATION Spec
CONSTANTS
  Markets = {m1, m2}
  Users = {u1, u2}
  Prices = {3}
  Hour = 1
  MaxSwaps = 2
  MaxTime = 2
  MaxHolders = 2
  MaxRankings = 2
SYMMETRY Symmetry
INVARIANTS RankingWhole LeadersRankFirst
CHECK_DEADLOCK FALSE
