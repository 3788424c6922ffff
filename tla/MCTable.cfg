CONSTANTS
  Leagues <- MCLeagues
  Scores = {0, 1}
SPECIFICATION Spec
INVARIANTS
  CalendarIsRoundRobin
  HeadToHeadDecides
PROPERTIES
  WinnerNeverDrops
  OthersKeepTheirOrder
CHECK_DEADLOCK FALSE
