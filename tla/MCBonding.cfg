CONSTANTS
  Accuracy = 1000
  SessionsPerEra = 1
  BondingDuration = 3
  HistoryDepth = 4
  MaxSession = 4
  SlashDeferDuration = 1
  MaxUnlockingChunks = 4
  MinBalance = 2
  MinBond = 2
  TaxPercents = {0, 30}
  Supply = 5
SPECIFICATION Spec
INVARIANTS
  StakeIsBacked
  StakeAwaitsSlash
PROPERTY OnlyDustEscapes
