CONSTANTS
  SessionsPerEra = 1
  BondingDuration = 1
  HistoryDepth = 2
  MaxSession = 5
  stash = stash
  Stashes = {stash}
SPECIFICATION Spec
INVARIANTS
  PaidOnce
  BoundIsMet
  EarnedCanBeClaimed
