CONSTANTS
  MaxSockets = 1
  MaxOpening = 1
  MaxSessions = 1
  MaxSeq = 1
  MaxQueue = 1
  Sleeps = FALSE
  UserActs = FALSE
SPECIFICATION Spec
INVARIANTS
  IdentifiesOnce
