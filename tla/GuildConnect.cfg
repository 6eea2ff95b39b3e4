SPECIFICATION Spec
SYMMETRY Symmetry
CONSTANTS
  s1 = s1
  s2 = s2
  g1 = g1
  g2 = g2
  Sessions = {s1}
  Guilds = {g1, g2}
  MaxInflight = 1
  MaxWorkers = 1
  MaxAttempt = 2
  EasyAttempt = 1
  MaxPids = 3
  MaxVersion = 0
  MaxMoves = 1
  MaxSwitches = 1
  MaxFaults = 1
  MayEnd = FALSE
CHECK_DEADLOCK FALSE
INVARIANTS
  TypeOK
  NotForgotten
  InflightResolves
  ConnectedIsKnown
