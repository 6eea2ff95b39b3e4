SPECIFICATION FairSpec
CONSTANTS
  s1 = s1
  s2 = s2
  g1 = g1
  g2 = g2
  Sessions = {s1, s2}
  Guilds = {g1}
  MaxInflight = 8
  MaxWorkers = 1
  MaxAttempt = 0
  EasyAttempt = 0
  MaxPids = 2
  MaxVersion = 1
  MaxMoves = 0
  MaxSwitches = 0
  MaxFaults = 1
  MayEnd = TRUE
CHECK_DEADLOCK FALSE
INVARIANTS
  WorkersCounted
  PendingServed
  DeadSessionsLeave
PROPERTIES
  MembersConnect
