CONSTANTS
  Modes = {"ws", "poll"}
  MaxCommands = 3
  PollLimit = 3
  MaxIds = 2
  AckQueueMax = 1
  MaxAttempt = 4
  WsFaults = {"connect", "drop", "ack", "raise", "save", "crash"}
  PollFaults = {"poll", "ack", "crash"}
  MaxFaults = 3
SPECIFICATION FairSpec
INVARIANTS
  TypeOK
  
PROPERTIES
  NoStaleCommand
  
CHECK_DEADLOCK FALSE
