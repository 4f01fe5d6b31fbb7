------------------------------- MODULE MCApi -------------------------------
EXTENDS Api, TLC

Symmetry == Permutations(Users)

MCSeriesLength == [market_5min_data |-> 1, market_hour_data |-> 1, market_day_data |-> 2]
=============================================================================
