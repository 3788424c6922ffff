CONSTANTS
  Formations <- MCFormations
  BonusOnly <- MCBonusOnly
  Starters = 5
  BenchSize = 3
  MaxTactical = 2
  Flags <- MCFlags
  DefenseDelta <- MCDefenseDelta
  RotaldoPerOwnGoal = 2
  TontonCap = 1
  HomeSheets <- MCHomeSheets
  AwaySheets <- MCAwaySheets
  BonusPairs <- MCBonusPairs
SPECIFICATION Spec
INVARIANTS
  GoalkeeperWatertight
  NobodyPlaysTwice
  RotaldoIsLastResort
  TieRuleSymmetric
  HomeAdvantage
  PunishmentStands
  BetterRatingNeverHurts
CHECK_DEADLOCK FALSE
