SPECIFICATION MCSpec
CONSTANTS
  Users = {u1}
  Markets = {m1, m2}
  FeeCollector = FeeCollector
  PaxFunds = 202
  PRICE_UNIT = 2
  Prices = {2, 3}
  INITIAL_USID = 100
  INITIAL_TOKENS = 400
  FeeRates = {10, 300}
  DepositAmounts = {101}
  WithdrawAmounts = {1, 2}
  TradeAmounts = {100}
  TransferAmounts = {1}
  RecordAmounts = {1}
  Shares = {1}
  MaxOps = 7
INVARIANTS SupplyExact CollectorSolvent GapWithinFees
PROPERTIES SwapKeepsProduct RoundingKeepsBacking
CHECK_DEADLOCK FALSE
