CONSTANTS
  Workers = {w1}
  w1 = w1
  Spilling = {TRUE}
  QueueMax = 2
  MaxEntries = 2
  BatchSize = 2
  DiskFaults = FALSE
  ReadFaults = TRUE
  MaxPayloads = 4
  MaxFaults = 0
SPECIFICATION Spec
PROPERTIES
  DiscardsOnlyDelivered
CHECK_DEADLOCK FALSE
