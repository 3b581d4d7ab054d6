SPECIFICATION QueueSpec
CONSTANTS
  Uthreads = {t1, t2, t3, t4}
  Queues = {q, r}
  NULL = NULL
INVARIANTS QueueTypeOK RingsMatch AssertionsHold
PROPERTIES ImplementsFifo
