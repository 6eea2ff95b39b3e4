SPECIFICATION FairSpec
CONSTANTS
  w = w
  k = k
  a = a
  Writers = {w}
  Askers = {k}
  Admins = {a}
  Nobody = Nobody
  MaxGuilds = 2
  MaxCrashes = 1
  MaxShardCrashes = 1
  MaxSlow = 1
CHECK_DEADLOCK FALSE
INVARIANTS
  TypeOK
  OneServes
  EntryIsWatched
  DispatchedIsKept
PROPERTIES
  WaitersAnswered
