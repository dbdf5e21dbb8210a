CONSTANTS
  v = v
  w = w
  c = c
  Stashes = {v, w, c}
  Candidates = {v, w, c}
  Joiners = {c}
  Vips = {c}
  MaxStake <- MCMaxStake
  MaxLevel <- MCMaxLevel
  CooperatorLevel = 1
  ValidatorLevel = 1
  CollaborativeLevel = 2
  BonusPart <- MCBonusPart
  MinValidatorBond = 1
  MinCooperatorBond = 1
  MaxCooperations = 2
  TaxPercent = 60
  Accuracy = 1000
SYMMETRY MCSymmetry
SPECIFICATION Spec
INVARIANTS
  NobodyOverexposed
  RolesAreBonded
  CopyNeverShort
