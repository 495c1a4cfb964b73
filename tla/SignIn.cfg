SPECIFICATION MCSpec
CONSTANTS
  MaxTokens = 4  MaxConns = 2  MaxKills = 1  MaxEnds = 2  MaxRuns = 2  Overlap = FALSE
  MaxStarts = 2  MaxTurns = 3
CHECK_DEADLOCK FALSE
INVARIANTS TypeOK StoredIsLive ShareEnds
PROPERTIES OnlyEndedSignsOut 
