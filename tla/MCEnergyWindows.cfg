CONSTANTS
  SessionsPerEra = 2
  BondingDuration = 2
  HistoryDepth = 2
  MaxSession = 6
  SlashDeferDuration = 1
  BurnedEnergySessionsCount = 2
  Settings <- MCSettings
  Amounts = {2}
  MaxBurns = 2
SPECIFICATION WindowSpec
INVARIANTS
  LookupsAgree
  ErasInv
  BurnsAddUp
  EraEnergyIsDue
PROPERTY PlannedEraStarts
