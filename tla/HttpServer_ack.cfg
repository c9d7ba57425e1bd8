CONSTANTS
  secret = secret
  wrong = wrong
  None = None
  Token = secret
  Requests = {r1, r2, r3}
  Messages <- TwoMessages
  ShutdownTimeout = 0
  PoolSize = 3
SPECIFICATION Spec
INVARIANT AnyAckClosesGate
