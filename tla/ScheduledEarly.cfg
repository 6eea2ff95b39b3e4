SPECIFICATION Spec
CONSTANTS
  Messages = {m1}
  Bodies = {b1}
  Workers = {w1, w2}
  MaxDeliver = 2
  MaxTime = 2
  MaxJobs = 2
CHECK_DEADLOCK FALSE
INVARIANTS
  SentOnTime
