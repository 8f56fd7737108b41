CONSTANTS
  Addrs = {a1, a2}
  a1 = a1
  a2 = a2
  NoAddr = NoAddr
  Consumers = {consumer}
  consumer = consumer
  Commanders = {command}
  command = command
  Cooldown = 2
  AutoDurations = {3}
  ManualDurations = {1}
  MaxLag = 1
  MaxRules = 2
SPECIFICATION Spec
SYMMETRY AddrSymmetry
INVARIANTS
  TypeOK
  
  

  
