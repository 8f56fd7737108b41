SPECIFICATION Spec
CONSTANTS
  Threads = {consumer, command}
  Consumer = consumer
  Commander = command
  Ips = {a1, a2}
  MaxTracked = 1
  MaxFileEntries = 1
  Interval = 1
  MaxRecords = 5
  MaxFaults = 1
  QueueMax = 1
  Window = 1
  MaxPackets = 2
  MaxTime = 1
  MaxRestarts = 1
SYMMETRY MCSymmetry
INVARIANTS
  TypeOK
  
  RaisesOnlyContended

  
CHECK_DEADLOCK FALSE
