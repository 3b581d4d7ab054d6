SPECIFICATION LifeSpec
CONSTANTS
  Uthreads = {main, reaper, u, v}
  u = u
  v = v
  Lwps = {l1, l2}
  SyncObjs = {reap_mtx, reap_cond}
  Mutexes = {reap_mtx}
  ReapMtx = reap_mtx
  ReapCond = reap_cond
  SingleClaim = FALSE
  UTH_MAXPRIO = 0
  FirstThr = main
  ReaperThr = reaper
  FirstLwp = l1
  NULL = NULL
INVARIANT ClaimedOnce
