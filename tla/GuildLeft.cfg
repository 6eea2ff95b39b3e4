SPECIFICATION Spec
CONSTANTS
  s1 = s1
  s2 = s2
  g1 = g1
  g2 = g2
  Sessions = {s1}
  Guilds = {g1}
  MaxInflight = 8
  MaxWorkers = 2
  MaxAttempt = 1
  EasyAttempt = 1
  MaxPids = 2
  MaxVersion = 0
  MaxMoves = 1
  MaxSwitches = 0
  MaxFaults = 0
  MayEnd = FALSE
CHECK_DEADLOCK FALSE
INVARIANTS
  LeftIsGone
