CONSTANTS
  v = v
  w = w
  c = c
  Stashes <- MCStashes
  Exposures <- MCExposures
  SessionsPerEra = 1
  BondingDuration = 3
  HistoryDepth = 4
  SlashDeferDuration = 1
  MaxSession = 5
  MaxReports = 2
SPECIFICATION Spec
INVARIANTS
  QueueInv
PROPERTY KeepsPromise
