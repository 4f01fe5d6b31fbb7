SPECIFICATION Spec
CONSTANTS
  Markets = {m1, m2}
  Users = {u1, u2}
  USID = USID
  Prices = {2, 4}
  SeriesLength <- MCSeriesLength
  MaxLogs = 2
  MaxTime = 2
  MaxFaults = 1
SYMMETRY Symmetry
INVARIANTS RelationsResolve SeriesPrices
PROPERTIES PagesStay
CHECK_DEADLOCK FALSE
