SPECIFICATION Spec
CONSTANTS
  u1 = u1
  Sessions = {s1, s2}  Rooms = {ra, rb}  Users = {u1}
  UserOf <- MCUserOf  Forwarding = {s1, s2}  Mutes = {FALSE}
  MaxPeers = 2  MaxAsks = 2  MaxTakeOuts = 0
  NoRoom = NoRoom
CHECK_DEADLOCK FALSE
INVARIANT EndedLeavesVoice
