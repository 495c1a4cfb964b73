SPECIFICATION Spec
CONSTANTS
  Sessions = {s1}  Rooms = {ra}  DMs = {}  NoRoom = NoRoom
  MaxOpens = 2  MaxFrames = 2  MaxBacks = 0
CHECK_DEADLOCK FALSE
INVARIANT SilenceIsAround
