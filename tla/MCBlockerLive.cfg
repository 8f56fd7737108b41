CONSTANTS
  Addrs = {a1, a2}
  a1 = a1
  a2 = a2
  NoAddr = NoAddr
  Consumers = {consumer}
  consumer = consumer
  Commanders = {command}
  command = command
  Cooldown = 1
  AutoDurations = {1}
  ManualDurations = {1}
  MaxLag = 0
  MaxRules = 1
SPECIFICATION FairSpec
PROPERTIES
  BlocksExpire
