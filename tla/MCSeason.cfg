CONSTANTS
  Formations <- MCFormations
  BonusOnly <- MCBonusOnly
  Starters = 3
  BenchSize = 1
  MaxTactical = 1
  Flags <- MCFlags
  DefenseDelta <- MCDefenseDelta
  RotaldoPerOwnGoal = 2
  TontonCap = 1
  Sessions = {s1, s2}
  MaxRequests = 4
  Users = {1, 2, 3, 4}
  Creator = 1
  Sizes = {2, 4}
  ReturnLegs = TRUE
  FirstGameWeek = 1
  SquadOf <- MCSquadOf
  UltraOf <- MCUltraOf
  Sheets <- MCSheets
  Poses <- MCPoses
  BonusQuota <- MCBonusQuota
  Weeks = {1, 2}
  Refreshes <- MCRefreshes
  PlayedWeeks = {1}
  Volatile = 2
SYMMETRY Permutation
SPECIFICATION Spec
INVARIANTS
  CalendarHolds
  SheetsAreLegal
  BonusOverrunBounded
PROPERTY
  PublishedStands
CHECK_DEADLOCK FALSE
