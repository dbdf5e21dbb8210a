CONSTANTS
  a = a
  b = b
  u = u
  v = v
  w = w
  x = x
  y = y
  Accounts = {a}
  MaxRank = 10
  FromRank <- MCFromRank
  PointsPerBlock = 1
  Amounts = {1, 7, 15}
  MaxPoints = 20
  MaxBlock = 4
  Elections <- MCElections
  DisablingLimitFactor = 1
  SessionsPerEra = 2
  BondingDuration = 1
  HistoryDepth = 2
  MaxSession = 5
  Users = {a, b}
  Owners = {a}
  Spenders = {b}
  Vesters = {b}
  Requesters = {b}
  BridgeAccount = bridge
  FeeReceiverAccount = fees
  Values = {1, 2}
  Deadlines = {1}
  WithdrawalFeePercent = 50
  DepositFeePercent = 50
  Schedules <- MCSchedules
  Endowed <- MCEndowed
  MaxAmount = 2
  AccumulationPeriod = 2
  BalanceMax = 7
  MaxHeight = 2
  MaxNonce = 1
  Accuracy = 1000
  MaxValue = 2
  MaxActive = 4
  MaxEra = 3
  MaxChunks = 3
  WindowLength = 1
  RewardProportion = 100
  Exposures = {0, 2}
  Points = {0, 1, 3}
  Fractions = {50, 100}
  LastEra = 2
  MaxReports = 3
SPECIFICATION MCSpec
CHECK_DEADLOCK FALSE
INVARIANTS
  TierCoversRank
  ZeroRankWasHeld
  AccruedOnce
  OffendersAreOut
  SlashIsExact
  UnlockingIsExact
  SpansHold
  TokensConserved
  ApprovalsHold
  NothingVestsEarly
  FaucetIsBounded
PROPERTY ClosedSpansStay
