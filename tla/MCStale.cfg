CONSTANTS
  Formations <- MCFormations
  BonusOnly <- MCBonusOnly
  Starters = 3
  BenchSize = 1
  MaxTactical = 1
  Flags <- MCFlags
  DefenseDelta <- MCDefenseDelta
  RotaldoPerOwnGoal = 2
  TontonCap = 1
  Sessions = {s1}
  MaxRequests = 5
  Users = {1, 2, 3, 4}
  Creator = 1
  Sizes = {2, 4}
  ReturnLegs = TRUE
  FirstGameWeek = 1
  SquadOf <- MCSquadOf
  UltraOf <- MCUltraOf
  Sheets <- MCOtherSheets
  Poses <- MCPoses
  BonusQuota <- MCBonusQuota
  Weeks = {1, 2}
  Refreshes <- MCRefreshes
  PlayedWeeks = {1}
  Volatile = 2
SPECIFICATION Spec
INVARIANT
  StaleIsFlagged
CHECK_DEADLOCK FALSE
