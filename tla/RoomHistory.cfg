SPECIFICATION MCSpec
CONSTANTS
  MaxMsgs = 3  MaxPosting = 2  MaxOpenings = 2  MaxEdits = 1
  Sends = {k1}  MaxTries = 2  Quiet = {2}  Lag = 2
  PageSize = 2  Kept = 1  TrimOver = 2  Waits = 1  Other = Other
  MaxExtras = 2
CHECK_DEADLOCK FALSE
INVARIANTS TypeOK   PostedOnce
