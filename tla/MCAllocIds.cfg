SPECIFICATION AllocSpec
CHECK_DEADLOCK FALSE
CONSTANTS
  UTH_MAX_UTHREADS = 5
  Creators = {0, 2}
INVARIANT DistinctIds
