SPECIFICATION Spec
CONSTANTS
  Hours = {6, 24}
  Hours0 = 24
  MaxPts = 4
  Plans <- MCPlans
  MaxMoves = 6
  MaxFlight = 3
  MaxDays = 3
INVARIANTS TypeOK LogPolled
PROPERTIES PowerSettles HistoryHeals WalkComplete
CHECK_DEADLOCK FALSE
