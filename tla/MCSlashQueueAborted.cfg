CONSTANTS
  v = v
  w = w
  c = c
  Stashes <- MCStashes
  Exposures <- MCExposures
  SessionsPerEra = 1
  BondingDuration = 2
  HistoryDepth = 4
  SlashDeferDuration = 1
  MaxSession = 4
  MaxReports = 2
SPECIFICATION Spec
PROPERTY TakenIsEnacted

