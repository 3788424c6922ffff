\* 3 participants with budgets 1..3 (or closed), 2 players, bids 1..2.
CONSTANTS
  Participant = {1, 2, 3}
  Player = {1, 2}
  MaxAmount = 2
  MaxBudget = 3
SPECIFICATION MCSpec
INVARIANTS
  AllocTypeOK
  OneTaker
  NobodyPassedOver
  DebitedExactly
  CapMakesLeaderWin
