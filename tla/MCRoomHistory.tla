--------------------------- MODULE MCRoomHistory ---------------------------
EXTENDS RoomHistory

CONSTANT MaxExtras  \* openings, tries of sends and edits, together

Extras ==
  openings + Cardinality(edited) + MapThenSumSet(LAMBDA s : sends[s].try, Sends)

\* What people start is bounded together; what the network does is not.
MCNext == Next /\ (Extras' <= MaxExtras \/ Network)

MCSpec == Init /\ [][MCNext]_vars
=============================================================================
