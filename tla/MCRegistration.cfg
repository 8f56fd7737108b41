SPECIFICATION FairSpec
CONSTANTS
  Credentials = {c1, c2}
  Incomplete = Incomplete
  None = None
  Token = Token
  MaxPosts = 3
  MaxFaults = 2
INVARIANTS TypeOK 
PROPERTIES SavesOwnCredential StartupEnds
CHECK_DEADLOCK FALSE
