----------------------------- MODULE UthreadMtx -----------------------------
(***************************************************************************)
(* The mutexes of uthread_mtx.c on top of the scheduler.  The waiters of   *)
(* mutex m are waiters[m] and its m_pmut is pmut[m]; the module adds the   *)
(* owner.  A blocked caller is queued by its LWP when it is off its stack, *)
(* and m_pmut stays locked until then.                                     *)
(***************************************************************************)
EXTENDS UthreadSched

CONSTANT Mutexes

ASSUME MtxAssumption == Mutexes \subseteq SyncObjs

VARIABLES
  m_owner, \* the owner of each mutex, or NULL
  wants,   \* the mutex whose uthread_mtx_lock the uthread is blocked in
  held     \* the mutexes whose lock has returned to the uthread

mtxVars == <<m_owner, wants, held>>
allMtxVars == <<schedVars, mtxVars>>

MtxInit ==
  /\ SchedInit
  /\ m_owner = [m \in Mutexes |-> NULL]
  /\ wants = [t \in Uthreads |-> NULL]
  /\ held = [t \in Uthreads |-> {}]

-----------------------------------------------------------------------------

InProgram(l, t) == Runs(l, t, "client") /\ wants[t] = NULL

\* Wrong: the owner is not looked at.
MtxTake_OwnerIgnored(l, t, m) ==
  /\ pmut[m] = NULL
  /\ m_owner' = [m_owner EXCEPT ![m] = t]
  /\ held' = [held EXCEPT ![t] = @ \cup {m}]
  /\ UNCHANGED <<schedVars, wants>>

\* A free mutex is taken.
MtxTake(l, t, m) ==
  /\ pmut[m] = NULL
  /\ m_owner[m] = NULL
  /\ m_owner' = [m_owner EXCEPT ![m] = t]
  /\ held' = [held EXCEPT ![t] = @ \cup {m}]
  /\ UNCHANGED <<schedVars, wants>>

\* An owned one is waited for.
MtxBlock(l, t, m) ==
  /\ pmut[m] = NULL
  /\ m_owner[m] # NULL
  /\ WaitOn(l, t, m)
  /\ wants' = [wants EXCEPT ![t] = m]
  /\ UNCHANGED <<m_owner, held>>

\* A mutex is not recursive: its owner does not lock it again.
UthreadMtxLock(l, t, m) ==
  /\ InProgram(l, t)
  /\ m \notin held[t]
  /\ MtxTake(l, t, m) \/ MtxBlock(l, t, m)

\* Wrong: the code after the switch runs for every caller.
UthreadMtxLockReturn_Always(l, t) ==
  /\ Runs(l, t, "client")
  /\ held' = [held EXCEPT ![t] = @ \cup {wants[t]}]
  /\ wants' = [wants EXCEPT ![t] = NULL]
  /\ UNCHANGED <<schedVars, m_owner>>

\* The return of uthread_switch in uthread_mtx_lock; the assertion there is
\* HandoffDelivered.
UthreadMtxLockReturn(l, t) ==
  /\ Runs(l, t, "client")
  /\ wants[t] # NULL
  /\ held' = [held EXCEPT ![t] = @ \cup {wants[t]}]
  /\ wants' = [wants EXCEPT ![t] = NULL]
  /\ UNCHANGED <<schedVars, m_owner>>

\* A failed attempt changes nothing.
UthreadMtxTrylock(l, t, m) ==
  /\ InProgram(l, t)
  /\ MtxTake(l, t, m)

\* Wrong: the mutex is freed although a waiter was taken off the queue.
MtxRelease_NotHandedOver(l, t, m) ==
  /\ m_owner' = [m_owner EXCEPT ![m] = NULL]
  /\ IF waiters[m] = <<>> THEN UNCHANGED schedVars
                          ELSE TakeWaiter(l, t, m, FALSE)

\* Wrong: the owner is cleared but the waiters are left asleep.
MtxRelease_NobodyWoken(l, t, m) ==
  /\ m_owner' = [m_owner EXCEPT ![m] = NULL]
  /\ UNCHANGED schedVars

\* The mutex goes to the first waiter, who is woken, or becomes free.
MtxRelease(l, t, m) ==
  IF waiters[m] = <<>>
  THEN /\ m_owner' = [m_owner EXCEPT ![m] = NULL]
       /\ UNCHANGED schedVars
  ELSE /\ m_owner' = [m_owner EXCEPT ![m] = Head(waiters[m])]
       /\ TakeWaiter(l, t, m, FALSE)

UthreadMtxUnlock(l, t, m) ==
  /\ InProgram(l, t)
  /\ m \in held[t]
  /\ pmut[m] = NULL
  /\ MtxRelease(l, t, m)
  /\ held' = [held EXCEPT ![t] = @ \ {m}]
  /\ UNCHANGED wants

MtxStep(l, t) ==
  \/ \E m \in Mutexes : \/ UthreadMtxLock(l, t, m)
                        \/ UthreadMtxTrylock(l, t, m)
                        \/ UthreadMtxUnlock(l, t, m)
  \/ UthreadMtxLockReturn(l, t)

\* The program's other steps: it yields (or is preempted), creates uthreads
\* and changes priorities.
ProgramStep(l, t) ==
  /\ wants[t] = NULL
  /\ \/ Yield(l, t)
     \/ \E slot \in Uthreads : Allocate(l, t, slot)
     \/ \E id \in Uthreads, prio \in Prios : UthreadSetprio(l, t, id, prio)

\* What runs below the calls of the program.
KernelStep ==
  \/ \E l \in Lwps : LwpStep(l) \/ SpuriousWakeup(l)
  \/ \E l \in Lwps, t \in Uthreads :
       \/ UthreadSwitch(l, t)
       \/ UthreadWake(l, t)
       \/ \E prio \in Prios : UthreadStartOnRunq(l, t, prio)

MtxNext ==
  \/ Aborted /\ UNCHANGED mtxVars
  \/ /\ ~panic
     /\ \/ KernelStep /\ UNCHANGED mtxVars
        \/ \E l \in Lwps, t \in Uthreads :
             \/ ProgramStep(l, t) /\ UNCHANGED mtxVars
             \/ MtxStep(l, t)

MtxSpec == MtxInit /\ [][MtxNext]_allMtxVars

\* what t does next in library code
InLibrary(l, t) ==
  \/ UthreadSwitch(l, t) /\ UNCHANGED mtxVars
  \/ UthreadWake(l, t) /\ UNCHANGED mtxVars
  \/ \E prio \in Prios : UthreadStartOnRunq(l, t, prio) /\ UNCHANGED mtxVars
  \/ UthreadMtxLockReturn(l, t)

-----------------------------------------------------------------------------
(* Properties.                                                             *)

\* The owner, the calls in progress and the mutexes held have their types.
MtxTypeOK ==
  /\ m_owner \in [Mutexes -> Uthreads \cup {NULL}]
  /\ wants \in [Uthreads -> Mutexes \cup {NULL}]
  /\ held \in [Uthreads -> SUBSET Mutexes]

\* Two uthreads are never inside the same mutex: who has returned from
\* uthread_mtx_lock or a successful trylock is the owner until it unlocks.
MutualExclusion ==
  \A t \in Uthreads : \A m \in held[t] : m_owner[m] = t

\* uthread_mtx_lock's "when return, we own mtx": a uthread that was blocked
\* on a mutex runs again only as its owner.
HandoffDelivered ==
  \A l \in Lwps, t \in Uthreads :
    Runs(l, t, "client") /\ wants[t] # NULL => m_owner[wants[t]] = t

\* No wake-up is lost between a locker that is not yet queued and an unlocker
\* that looks at the queue: nobody waits, or is about to, for a free mutex.
FreeMutexHasNoWaiter ==
  \A m \in Mutexes :
    m_owner[m] = NULL => \A t \in Uthreads : ~Awaits(t, m)

\* The mutexes implement the hand-off mutex.  A caller joins the abstract queue
\* when it finds the mutex owned, before its LWP has really queued it.
AboutToWait(m) == {t \in Uthreads : ToBeQueued(t, m)}

SeenQueue(m) ==
  waiters[m] \o (IF AboutToWait(m) = {} THEN <<>>
                 ELSE <<CHOOSE t \in AboutToWait(m) : TRUE>>)

Handoff ==
  INSTANCE HandoffMutex WITH
    owner <- m_owner,
    queue <- [m \in Mutexes |-> SeenQueue(m)]

ImplementsHandoff == Handoff!HandoffSpec

\* Every uthread that blocks on a mutex gets it, if the uthreads have one
\* priority and every owner unlocks.
LockersServed ==
  \A t \in Uthreads, m \in Mutexes : (wants[t] = m) ~> (m \in held[t])

=============================================================================
