CONSTANTS
  secret = secret
  wrong = wrong
  None = None
  Token = secret
  Requests = {r1, r2, r3}
  Messages <- AllMessages
  ShutdownTimeout = 1
  PoolSize = 2
SYMMETRY Symmetry
SPECIFICATION Spec
INVARIANTS
  TypeOK
  InFlightExact
  ShutdownThreadHandover
  InitiatorAckClosesGate
PROPERTY ImplementsRequestGate
