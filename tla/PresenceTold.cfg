SPECIFICATION MCSpec
CONSTANTS
  Sessions = {s1, s2}  Second = s2
  Rooms = {ra, rb, dm}  DMs = {dm}  NoRoom = NoRoom
  MaxOpens = 2  MaxFrames = 2  MaxBacks = 1
CHECK_DEADLOCK FALSE
INVARIANTS TypeOK HeardIsRight OfflineStays RoomsAreRight WholeGrace AppsAreBelieved
PROPERTY HeldOverEnds
