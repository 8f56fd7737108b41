CONSTANTS
  Workers = {w1, w2}
  w1 = w1
  w2 = w2
  Spilling = {TRUE, FALSE}
  QueueMax = 2
  MaxEntries = 2
  BatchSize = 2
  DiskFaults = TRUE
  ReadFaults = FALSE
  MaxPayloads = 6
  MaxFaults = 2
SPECIFICATION FairSpec
INVARIANTS
  TypeOK
  NoSilentLoss
  BacklogSound
  NoDuplicateDelivery
PROPERTIES
  RemovalsSound
  QueueServed
CHECK_DEADLOCK FALSE
