SPECIFICATION FairSpec
CONSTANTS
  u1 = u1
  u2 = u2
  s1 = s1
  s2 = s2
  s3 = s3
  Users = {u1, u2}
  Sessions = {s1, s2, s3}
  Owner <- TwoAndOne
  Nobody = Nobody
  MaxTries = 1
  MaxCalls = 1
  MaxTalks = 2
  MaxRings = 1
  MaxEnds = 1
CHECK_DEADLOCK FALSE
INVARIANTS
  TypeOK
  NoGhosts
  RingingIsTimed
  Announced
  CallIsKnown
PROPERTIES
  EmptyCallEnds
