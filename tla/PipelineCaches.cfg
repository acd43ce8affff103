CONSTANTS
  Windows = {w1}
  PerWindow = 2
  MaxPipelines = 2
  ClosesEarly = FALSE
  Files = {"absent", "invalid", "valid"}
  None = None
SPECIFICATION FairSpec
INVARIANTS CacheExternallySynchronized MoverAwake SavedLast
PROPERTIES EventuallySaved
CHECK_DEADLOCK FALSE
