SPECIFICATION MCSpec
CONSTANTS
  coin1 = coin1
  coin2 = coin2
  Users = {u1}
  Operators = {}
  Markets = {m1, m2}
  Stables = {coin1, coin2}
  InitialStablecoins <- ListOfTwo
  FeeCollector = FeeCollector
  Dead = Dead
  VirtualUSD = 100
  InitialTokens = 400
  FeeRates = {300}
  Funds = 200
  TradeAmounts = {100}
  TransferAmounts = {}
  MinOuts = {0}
  RecordAmounts = {0, 2}
  MaxOps = 5
INVARIANTS BooksExact CollectorConsistent
CHECK_DEADLOCK FALSE
