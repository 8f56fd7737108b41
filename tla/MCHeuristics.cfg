SPECIFICATION DetectorSpec
CONSTANTS
  s1 = s1
  s2 = s2
  s3 = s3
  h1 = h1
  h2 = h2
  NoPort = NoPort
  Never = Never
  Sources <- MCSources
  Hosts <- MCHosts
  Packets <- MCPackets
  SensitivePorts = {22, 80}
  ServicePorts = {22}
  Width <- MCWidth
  Threshold <- MCThreshold
  AttemptWindow = 4
  AttemptThreshold = 3
  MaxTracked = 1
  PruneInterval = 3
  Steps = {0, 2}
  Lag = 1
  MaxPackets = 5
INVARIANTS DetectorTypeOK NoMissedAttack NoFalseBlock
PROPERTY EvictionSound
CHECK_DEADLOCK FALSE
