\* Two workers, a queue of two, both drop policies, shutdown at any point.
SPECIFICATION FairSpec
CONSTANTS
  Workers = {w1, w2}
  MaxQueueSize = 2
  MaxTasks = 5
INVARIANTS
  ThreadPoolTypeOK
  TasksAccounted
  NewestGetsIn
  DrainIsComplete
PROPERTIES
  TasksRun
  PoolShutsDown
CHECK_DEADLOCK FALSE
