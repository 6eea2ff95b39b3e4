CONSTANTS
  Guilds = {g1}
  NoSocket = NoSocket
  Limit = 2
  MaxSeq = 3
  MaxDowns = 2
  MaxConns = 2
  MaxReqs = 1
  MaxLeaves = 1
SPECIFICATION FairSpec
INVARIANTS
  NoGapUnlessMisled
  ResumeNeverRefused
PROPERTIES
  ImplementsStream
  ConnectingResolves
  AbandonedSessionStops
CHECK_DEADLOCK FALSE
