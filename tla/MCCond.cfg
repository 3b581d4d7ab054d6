SPECIFICATION CondFairSpec
CONSTANTS
  Uthreads = {main, reaper, u}
  Lwps = {l1, l2}
  SyncObjs = {m, c}
  Mutexes = {m}
  Conds = {c}
  UTH_MAXPRIO = 0
  FirstThr = main
  ReaperThr = reaper
  FirstLwp = l1
  NULL = NULL
INVARIANTS CondTypeOK SignalSeesWaiters
PROPERTIES ImplementsCondVar BroadcastEnds WokenReturn LockersServed
