CONSTANTS
  Participant = {1, 2}
  Player = {1, 2}
  Line = {1}
  LineOf <- MCLineOf
  Quotation <- MCQuotation
  Quota <- MCQuota
  MercatoBudget = 1
  BaseRounds = 1
  FirstRoundDays = 1
  NextRoundDays = 1
  AutoCloseDays = 1
  Unsettled = {2}
  Intents <- MCOneIntent
  MaxRound = 2
  MaxTime = 1
  MaxInFlight = 1
  MaxAborts = 1
  DoubleSubmit = FALSE
  BidDuring = FALSE
SPECIFICATION FairSpec
PROPERTIES
  MercatoEnds
  DueRoundResolved
CHECK_DEADLOCK FALSE
