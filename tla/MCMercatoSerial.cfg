CONSTANTS
  Participant = {1, 2}
  Player = {1, 2, 3}
  Line = {1}
  LineOf <- MCLineOf
  Quotation <- MCQuotation
  Quota <- MCQuota2
  MercatoBudget = 3
  BaseRounds = 2
  FirstRoundDays = 1
  NextRoundDays = 1
  AutoCloseDays = 2
  Unsettled = {}
  Intents <- MCIntents
  MaxRound = 2
  MaxTime = 2
  MaxInFlight = 1
  MaxAborts = 0
  DoubleSubmit = FALSE
  BidDuring = FALSE
SPECIFICATION Spec
INVARIANTS
  TypeOK
  UniqueOwner
  MoneyConserved
  OneOpenRound
  BidsWithinBudget
  SoundMercato
  ValidatedMeansResolved
PROPERTIES
  SettledStands
  ClosingCompletesSquads
  SecondClosingChangesNothing
  KeepsMarketPromise
CHECK_DEADLOCK FALSE
