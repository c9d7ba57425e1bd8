CONSTANTS
  Batches = {b1, b2}
  lockOf <- InvokerEach
  MayFail = {"dup"}
  Terminal = Terminal
  NoFile = NoFile
SPECIFICATION Spec
INVARIANTS
  SomeReportPersisted
