SPECIFICATION SchedSpec
CONSTANTS
  Uthreads = {main, reaper, u}
  Lwps = {l1, l2}
  SyncObjs = {m}
  UTH_MAXPRIO = 0
  FirstThr = main
  ReaperThr = reaper
  FirstLwp = l1
  NULL = NULL
INVARIANTS TypeOK StackExclusive WaiterAccounted HandedMutexHeld PanicOnlyIfStuck NoJoinerForgotten
