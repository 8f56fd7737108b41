CONSTANTS
  Keys = {k1, k2}
  k1 = k1
  k2 = k2
  Signatures = {s1, s2}
  s1 = s1
  s2 = s2
  NoAlert = NoAlert
  Idle = 2
  MaxDuration = 3
  MinAge = 1
  MinPackets = 2
  EveryN = 2
  EveryM = 1
  Skew = 1
  MaxPackets = 5
  MaxTime = 5
SPECIFICATION Spec
INVARIANTS
  TypeOK
  PacketsAccounted
  NothingOverdue
  NoGhostSession
  AlertStateOwned
CHECK_DEADLOCK FALSE
