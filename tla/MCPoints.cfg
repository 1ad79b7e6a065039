CONSTANTS
  ada = ada
  obi = obi
  Users = {ada}
  Activities <- MCActivities
  Amounts = {1, 2}
  Workers = {w1, w2}
  DailyCap = 2
  RapidThreshold = 2
  RepeatThreshold = 1
  MaxAwards = 3
SPECIFICATION Spec
SYMMETRY Symmetry
INVARIANTS TypeOK AwardedOnce BalanceIsLedger
