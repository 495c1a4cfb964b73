SPECIFICATION FairSpec
CONSTANTS
  Sharers = {a, b}  Watcher = w  OnAir = b
  MaxEvents = 2  Retries = 1  WatchQueue = 1
CHECK_DEADLOCK FALSE
INVARIANTS TypeOK CaptureEnds 
 
