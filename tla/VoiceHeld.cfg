SPECIFICATION FairSpec
CONSTANTS
  u1 = u1
  Sessions = {s1}  Rooms = {ra, rb}  Users = {u1}
  UserOf <- MCUserOf  Forwarding = {s1}  Mutes = {FALSE}
  MaxPeers = 1  MaxAsks = 3  MaxTakeOuts = 1
  NoRoom = NoRoom
CHECK_DEADLOCK FALSE
INVARIANTS TypeOK SeatFollows
PROPERTIES TurnSeatsLiving HeldIsTaken 
