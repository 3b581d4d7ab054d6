SPECIFICATION MtxSpec
CONSTANTS
  Uthreads = {main, reaper, u}
  Lwps = {l1, l2}
  SyncObjs = {m, n}
  Mutexes = {m, n}
  UTH_MAXPRIO = 1
  FirstThr = main
  ReaperThr = reaper
  FirstLwp = l1
  NULL = NULL
INVARIANTS RunqCoherent RunqSizeExact MtxTypeOK MutualExclusion HandoffDelivered FreeMutexHasNoWaiter
PROPERTIES DispatchesHighest ImplementsHandoff
