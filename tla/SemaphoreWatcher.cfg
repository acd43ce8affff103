CONSTANTS
  Semaphores = {s1, s2}
  MaxValue = 2
SPECIFICATION FairSpec
INVARIANTS WatcherAwake LimiterDiscipline
PROPERTIES Notifies EverySignalled
CHECK_DEADLOCK FALSE
