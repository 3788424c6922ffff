CONSTANTS
  Participant = {1, 2}
  Player = {1, 2}
  Line = {1, 2}
  LineOf <- MCLineOf
  Quotation <- MCQuotation
  Quota <- MCQuota
  MercatoBudget = 2
  BaseRounds = 1
  FirstRoundDays = 1
  NextRoundDays = 1
  AutoCloseDays = 1
  Unsettled = {}
  Intents <- MCFewIntents
  MaxRound = 2
  MaxTime = 1
  MaxInFlight = 2
  MaxAborts = 1
  DoubleSubmit = TRUE
  BidDuring = TRUE
SPECIFICATION Spec
INVARIANTS
  TypeOK
  UniqueOwner
  MoneyConserved
PROPERTIES
  SettledStands
CHECK_DEADLOCK FALSE
