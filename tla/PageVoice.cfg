SPECIFICATION Spec
CONSTANTS
  VoiceRooms = {ra, rb}  MaxJoins = 2  MaxPresses = 2  MaxLists = 1  MaxDrops = 1  Crossing = FALSE
CHECK_DEADLOCK FALSE
INVARIANTS TypeOK   MutedIsSilent
