CONSTANTS
  Modes = {"ws"}
  MaxCommands = 2
  PollLimit = 2
  MaxIds = 3
  AckQueueMax = 1
  MaxAttempt = 2
  WsFaults = {"poll", "drop"}
  PollFaults = {}
  MaxFaults = 2
SPECIFICATION Spec
PROPERTIES
  NoStaleCommand
CHECK_DEADLOCK FALSE
