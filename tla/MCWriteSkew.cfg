CONSTANTS
  Participant = {1, 2}
  Player = {1, 2, 3}
  Line = {1}
  LineOf <- MCLineOf
  Quotation <- MCQuotation
  Quota <- MCQuota
  MercatoBudget = 3
  BaseRounds = 2
  FirstRoundDays = 1
  NextRoundDays = 1
  AutoCloseDays = 2
  Unsettled = {}
  Intents <- MCIntents
  MaxRound = 2
  MaxTime = 2
  MaxInFlight = 2
  MaxAborts = 0
  DoubleSubmit = FALSE
  BidDuring = FALSE
SPECIFICATION Spec
INVARIANTS
  ValidatedMeansResolved
CHECK_DEADLOCK FALSE
