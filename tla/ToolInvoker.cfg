CONSTANTS
  Owner = Owner
  Idle = Idle
  NoJob = NoJob
  Configs <- AllConfigs
  Workers = {w1, w2}
  MaxTasks = 10
SPECIFICATION FairSpec
INVARIANTS
  TypeOK
  NeverMoreThanRequested
  ReportComplete
  SummaryIsOwn
  CaptureIsExclusive
  NoUseAfterDestroy
  NoExceptionLost
PROPERTIES
  RunEnds
  ImplementsThreadPool
