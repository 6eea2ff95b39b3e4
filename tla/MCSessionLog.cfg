CONSTANTS
  Guilds = {g1, g2}
  Sockets = {s1, s2}
  NoSocket = NoSocket
  Bot = TRUE
  Limit = 2
  MaxSeq = 5
  MaxDowns = 2
SPECIFICATION FairSpec
INVARIANTS
  NothingLostBeforeAck
  NumbersAccountedFor
PROPERTIES
  OverflowEndsSession
  OrphanResumesOrStops
CHECK_DEADLOCK FALSE
