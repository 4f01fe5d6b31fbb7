SPECIFICATION MCSpec
CONSTANTS
  coin1 = coin1
  coin2 = coin2
  Users = {u1}
  Operators = {u1}
  Markets = {m1}
  Stables = {coin1, coin2}
  InitialStablecoins <- ListOfOne
  FeeCollector = FeeCollector
  Dead = Dead
  VirtualUSD = 100
  InitialTokens = 400
  FeeRates = {30, 300}
  Funds = 200
  TradeAmounts = {100}
  TransferAmounts = {40}
  MinOuts = {0, 90}
  RecordAmounts = {}
  MaxOps = 7
INVARIANTS TokensBacked ReservesBacked ListMatchesFlags
PROPERTIES FloorIsPayable BuyKeepsProduct
CHECK_DEADLOCK FALSE
