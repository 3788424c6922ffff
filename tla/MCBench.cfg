CONSTANTS
  Formations <- MCFormations
  BonusOnly <- MCBonusOnly
  Starters = 4
  BenchSize = 2
  MaxTactical = 5
  Players <- MCPlayers
  UltraOf <- MCUltraOf
  Quotation <- MCQuotation
  Quota <- MCQuota
  MaxBids = 3
  Shortlist = 2
  BaseRounds = 2
  Budgets = {6, 9}
  Amounts = {0, 3}
  Answers = 3
  Fallback <- MCFallback
  BenchShape <- MCBenchShape
  Named = 3
SPECIFICATION Spec
INVARIANTS
  ReserveKept
  SheetAccepted
  LineupAccepted
CHECK_DEADLOCK FALSE
