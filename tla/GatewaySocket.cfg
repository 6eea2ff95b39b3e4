CONSTANTS
  MaxSockets = 1
  MaxOpening = 1
  MaxSessions = 1
  MaxSeq = 2
  MaxQueue = 2
  Sleeps = TRUE
  UserActs = TRUE
SPECIFICATION FairSpec
INVARIANTS
  TypeOK
  NeverStranded
PROPERTIES
  KeepsLiveSession
  ConnectionKept
  DeadConnectionNoticed
  ReconnectProceeds
