CONSTANTS
  Guilds = {g1}
  NoSocket = NoSocket
  Limit = 2
  MaxSeq = 2
  MaxDowns = 2
  MaxConns = 2
  MaxReqs = 1
  MaxLeaves = 1
SPECIFICATION Spec
INVARIANTS
  NoGap
CHECK_DEADLOCK FALSE
