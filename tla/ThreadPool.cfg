CONSTANTS
  Idle = Idle
  Workers = {w1, w2, w3}
  MaxTasks = 4
SPECIFICATION FairSpec
INVARIANTS
  TypeOK
  NoLostWakeup
PROPERTIES
  ImplementsTaskService
  EveryTaskEnds
  DestructorReturns
