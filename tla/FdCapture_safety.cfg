CONSTANTS
  Batches = {b1, b2, b3}
  lockOf <- OneInvoker
  MayFail = {"dup", "mkstemp", "open"}
  Terminal = Terminal
  NoFile = NoFile
SPECIFICATION Spec
INVARIANTS
  TypeOK
  PersistedReport
  StreamsRestored
  OutputDelivered
  CaptureIsClosed
