CONSTANTS
  secret = secret
  wrong = wrong
  None = None
  Token = secret
  Requests = {r1, r2}
  Messages <- TwoMessages
  ShutdownTimeout = 0
  PoolSize = 2
SPECIFICATION FairSpec
PROPERTY ShutdownCompletes
