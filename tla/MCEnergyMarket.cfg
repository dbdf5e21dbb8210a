CONSTANTS
  SwapFee = 250
  EvmFee = 2
  SpendThreshold = 50
  BaseRate = 40
  ScalingFactor = 20
  TargetBalance = 2
  StaticRate <- MCStaticRate
  Rates <- MCRates
  Capacities = {0, 3}
  Thresholds = {3}
  Fees = {1, 3}
  Tips = {0, 1}
  Amounts = {2}
  Start <- MCStart
  MaxTxs = 3
  MaxRounds = 2
SPECIFICATION Spec
INVARIANTS
  NothingMinted
  QuoteHolds
  BurnIsBounded
PROPERTY StockWithinCapacity
