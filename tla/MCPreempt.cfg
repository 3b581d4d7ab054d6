SPECIFICATION PreemptFairSpec
CONSTANTS
  Uthreads = {main, reaper, u}
  Lwps = {l1, l2}
  FirstThr = main
  ReaperThr = reaper
  NULL = NULL
  MaxNest = 2
INVARIANTS PreemptTypeOK InterruptSafe MaskFollowsCount
PROPERTY RunnableRuns
