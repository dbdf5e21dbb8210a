CONSTANTS
  x = x
  Nobody = Nobody
  NoItem = NoItem
  Accounts = {a}
  Addresses = {e}
  Items = {x}
  NewClaims <- MCNewClaims
  Fundings = {4}
  Transfers = {2}
  MaxBlock = 2
  HashOrder <- MCHashOrder
  Levels = {2}
  Byte = 2
  MaxAssigned = 7
  MaxBalance = 8
  Members = {b, d}
  DaysPerYear = 2
  MaxDay = 3
  MaxGap = 1
  MaxUpdateDays = 4
  IncreaseConstant = 1
  Stakes = {2}
  Thresholds = {1}
  MaxThreshold = 1
  RewardSums = {5}
  ForcedPoints = {0}
  Funds = 20
SPECIFICATION MCSpec
SYMMETRY MCSymmetry
CHECK_DEADLOCK FALSE
INVARIANT ThresholdsNeedVipps
