CONSTANTS
  Participant = {1, 2}
  Player = {1, 2}
  Line = {1}
  LineOf <- MCLineOf
  Quotation <- MCQuotation
  Quota <- MCQuota
  MercatoBudget = 2
  BaseRounds = 1
  FirstRoundDays = 1
  NextRoundDays = 1
  AutoCloseDays = 1
  Unsettled = {}
  Intents <- MCIntents
  MaxRound = 2
  MaxTime = 1
  MaxInFlight = 1
  MaxAborts = 0
  DoubleSubmit = FALSE
  BidDuring = FALSE
SPECIFICATION RaceSpec
INVARIANTS
  UniqueOwner
CHECK_DEADLOCK FALSE
