SPECIFICATION MCFairSpec
CONSTANTS
  MaxFrames = 3
  MaxSockets = 2
  MaxCuts = 1
  MaxEnds = 1
  Hidden <- MCHidden
  Most = 1
  BusFrames = 1
  QueueFrames = 1
INVARIANTS
  TypeOK
  WholeReplay
  SignedOutStaysOut
PROPERTIES
  OnlyCurrentDetaches
  ImplementsFeed
  
  SignOutReaches
CHECK_DEADLOCK FALSE
