---------------------------- MODULE UthreadLife ----------------------------
(***************************************************************************)
(* The life of a uthread (uthread.c): uthread_create, uthread_exit,        *)
(* uthread_join, uthread_detach, make_reapable and the reaper, over the    *)
(* mutex reap_mtx and the condition variable reap_cond.                    *)
(*                                                                         *)
(* The steps go from one acquisition of a mutex to the next one; while a   *)
(* uthread is blocked in a call, at says where that call returns to.  The  *)
(* process stops at the first undefined or fatal event: outcome says which.*)
(***************************************************************************)
EXTENDS UthreadMtx

CONSTANTS
  ReapMtx,    \* reap_mtx
  ReapCond,   \* reap_cond
  SingleClaim \* TRUE if the program joins or detaches each uthread once only

ASSUME LifeAssumption ==
  /\ ReapMtx \in Mutexes
  /\ ReapCond \in SyncObjs \ Mutexes
  /\ SingleClaim \in BOOLEAN

VARIABLES
  at,          \* where a uthread is in the code of uthread.c, see LifePcs
  subject,     \* the uthread it joins, detaches or destroys there
  ut_detached, \* uthread_t.ut_detached
  reap_queue,  \* the zombies the reaper is to destroy, head first
  claimed,     \* the uthreads for which join or detach was called (history)
  outcome      \* why the process has stopped

lifeVars == <<at, subject, ut_detached, reap_queue, claimed, outcome>>
allLifeVars == <<allMtxVars, lifeVars>>

\* running; exit: the reaper called exit; abort: an assertion failed or a
\* checked POSIX call did; freed: a stack was freed while in use
Outcomes == {"running", "exit", "abort", "freed"}

LifePcs ==
  {"program",
   "exit", "exit_wake", "exit_unlock", "exit_leave", "exit_bare", "gone",
   "joined", "join_reap", "join_check", "detach_reap", "detach_check",
   "signal", "signalled", "reap_unlock",
   "reaper", "reaper_loop", "reaper_unlock", "reaper_sleep", "reaper_destroy"}

LifeInit ==
  /\ MtxInit
  /\ at = [t \in Uthreads |-> IF t = ReaperThr THEN "reaper" ELSE "program"]
  /\ subject = [t \in Uthreads |-> NULL]
  /\ ut_detached = [t \in Uthreads |-> t \in Created]
  /\ reap_queue = <<>>
  /\ claimed = Created
  /\ outcome = "running"

-----------------------------------------------------------------------------

Here(l, t, pc) == InProgram(l, t) /\ at[t] = pc
Goes(t, pc) == at' = [at EXCEPT ![t] = pc]
Fails(bad) == outcome' = IF bad THEN "abort" ELSE outcome

\* uthread_mtx_lock(&reap_mtx) and uthread_mtx_unlock(&reap_mtx), from pc to
\* next; the code at next waits until the lock has returned.
LocksReap(l, t, pc, next) ==
  /\ Here(l, t, pc)
  /\ UthreadMtxLock(l, t, ReapMtx)
  /\ Goes(t, next)
  /\ UNCHANGED <<subject, ut_detached, reap_queue, claimed, outcome>>

UnlocksReap(l, t, pc, next) ==
  /\ Here(l, t, pc)
  /\ UthreadMtxUnlock(l, t, ReapMtx)
  /\ Goes(t, next)
  /\ UNCHANGED <<subject, ut_detached, reap_queue, claimed, outcome>>

HasReap(t) == ReapMtx \in held[t]

\* utqueue_enqueue(&reap_queue, z) asserts that z is on no queue.
Reaps(z) ==
  /\ reap_queue' = utqueue_enqueue(reap_queue, z)
  /\ Fails(Occurs(reap_queue, z))

-----------------------------------------------------------------------------
(* make_reapable, from the signal on; its caller has reap_mtx and has      *)
(* locked the zombie's ut_pmut.                                            *)

\* unlocks ut_pmut of the zombie, and the mutexes also
UnlocksSubject(l, t, also) ==
  /\ pmut' = [o \in Objs |-> IF o \in also \cup {subject[t]} THEN NULL
                                                             ELSE pmut[o]]
  /\ Fails(pmut[subject[t]] # l)
  /\ Goes(t, "reap_unlock")
  /\ UNCHANGED <<threadVars, waiters, runqVars, runq_mtx, lwpVars, panic,
                 mtxVars, subject, ut_detached, reap_queue, claimed>>

\* Wrong: the reaper is not signalled.
SignalReaper_Forgotten(l, t) ==
  /\ Here(l, t, "signal")
  /\ UnlocksSubject(l, t, {})

SignalReaper(l, t) ==
  /\ Here(l, t, "signal")
  /\ pmut[ReapCond] = NULL
  /\ IF waiters[ReapCond] = <<>>
     THEN UnlocksSubject(l, t, {})
     ELSE /\ TakeWaiter(l, t, ReapCond, TRUE)
          /\ Goes(t, "signalled")
          /\ UNCHANGED <<mtxVars, subject, ut_detached, reap_queue, claimed,
                         outcome>>

Signalled(l, t) ==
  /\ Here(l, t, "signalled")
  /\ UnlocksSubject(l, t, {ReapCond})

ReapUnlock(l, t) ==
  UnlocksReap(l, t, "reap_unlock",
              IF subject[t] = t THEN "exit_bare" ELSE "program")

\* the switch of make_reapable, which hands over no mutex
ExitBare(l, t) ==
  /\ Here(l, t, "exit_bare")
  /\ CallsSwitch(t, NULL, FALSE, NULL)
  /\ Goes(t, "gone")
  /\ UNCHANGED <<ut_state, ut_prio, target, objVars, runqVars, runq_mtx,
                 lwpVars, panic, mtxVars, subject, ut_detached, reap_queue,
                 claimed, outcome>>

MakeReapable(l, t) ==
  SignalReaper(l, t) \/ Signalled(l, t) \/ ReapUnlock(l, t) \/ ExitBare(l, t)

-----------------------------------------------------------------------------
(* uthread_exit.                                                           *)

\* Wrong: it is not itself that the uthread puts on the reap queue.
ExitZombie_OtherQueued(l, t) ==
  /\ Here(l, t, "exit")
  /\ HasReap(t)
  /\ ut_detached[t]
  /\ BecomeZombie(l, t)
  /\ Reaps(subject[t])
  /\ Goes(t, "signal")
  /\ UNCHANGED <<mtxVars, subject, ut_detached, claimed>>

\* Wrong: a joinable uthread puts itself on the reap queue, too.
ExitZombie_AlwaysQueued(l, t) ==
  /\ Here(l, t, "exit")
  /\ HasReap(t)
  /\ BecomeZombie(l, t)
  /\ Reaps(t)
  /\ subject' = [subject EXCEPT ![t] = t]
  /\ Goes(t, IF ut_detached[t] THEN "signal"
             ELSE IF waiters[t] = <<>> THEN "exit_unlock" ELSE "exit_wake")
  /\ UNCHANGED <<mtxVars, ut_detached, claimed>>

ExitZombie(l, t) ==
  /\ Here(l, t, "exit")
  /\ HasReap(t)
  /\ BecomeZombie(l, t)
  /\ IF ut_detached[t]
     THEN /\ Reaps(t)
          /\ subject' = [subject EXCEPT ![t] = t]
          /\ Goes(t, "signal")
     ELSE /\ Goes(t, IF waiters[t] = <<>> THEN "exit_unlock" ELSE "exit_wake")
          /\ UNCHANGED <<subject, reap_queue, outcome>>
  /\ UNCHANGED <<mtxVars, ut_detached, claimed>>

\* Wrong: the joiner is left asleep.
ExitWake_Forgotten(l, t) ==
  /\ Here(l, t, "exit_wake")
  /\ Goes(t, "exit_unlock")
  /\ UNCHANGED <<allMtxVars, subject, ut_detached, reap_queue, claimed, outcome>>

ExitWake(l, t) ==
  /\ Here(l, t, "exit_wake")
  /\ TakeWaiter(l, t, t, TRUE)
  /\ Goes(t, "exit_unlock")
  /\ UNCHANGED <<mtxVars, subject, ut_detached, reap_queue, claimed, outcome>>

ExitLeave(l, t) ==
  /\ Here(l, t, "exit_leave")
  /\ CallsSwitch(t, NULL, FALSE, t)
  /\ Goes(t, "gone")
  /\ UNCHANGED <<ut_state, ut_prio, target, objVars, runqVars, runq_mtx,
                 lwpVars, panic, mtxVars, subject, ut_detached, reap_queue,
                 claimed, outcome>>

UthreadExit(l, t) ==
  \/ t # ReaperThr /\ LocksReap(l, t, "program", "exit")
  \/ ExitZombie(l, t)
  \/ ExitWake(l, t)
  \/ UnlocksReap(l, t, "exit_unlock", "exit_leave")
  \/ ExitLeave(l, t)

-----------------------------------------------------------------------------
(* uthread_join and uthread_detach.  A call that is refused (somebody is   *)
(* waiting already, or the uthread is detached) changes nothing.           *)

Accepts(l, t, thr) ==
  /\ Here(l, t, "program")
  /\ t # ReaperThr
  /\ ut_state[thr] \notin {"NO_STATE", "TRANSITION"}
  /\ SingleClaim => thr \notin claimed
  /\ pmut[thr] = NULL
  /\ waiters[thr] = <<>>
  /\ ~ut_detached[thr]

\* Wrong: the joiner does not mark the uthread.
MarksDetached_Not(thr) == ut_detached' = ut_detached
MarksDetached(thr) == ut_detached' = [ut_detached EXCEPT ![thr] = TRUE]

Join(l, t, thr) ==
  /\ Accepts(l, t, thr)
  /\ thr # t
  /\ claimed' = claimed \cup {thr}
  /\ subject' = [subject EXCEPT ![t] = thr]
  /\ \/ /\ WaitForExit(l, t, thr)
        /\ Goes(t, "joined")
        /\ UNCHANGED ut_detached
     \/ /\ ut_state[thr] = "ZOMBIE"
        /\ MarksDetached(thr)
        /\ Goes(t, "join_reap")
        /\ UNCHANGED schedVars
  /\ UNCHANGED <<mtxVars, reap_queue, outcome>>

\* after the switch; without a zombie the call fails
JoinReturn(l, t) ==
  LET thr == subject[t]
  IN  /\ Here(l, t, "joined")
      /\ pmut[thr] = NULL
      /\ IF ut_state[thr] = "ZOMBIE"
         THEN MarksDetached(thr) /\ Goes(t, "join_reap")
         ELSE Goes(t, "program") /\ UNCHANGED ut_detached
      /\ UNCHANGED <<allMtxVars, subject, reap_queue, claimed, outcome>>

\* the second look at the zombie, under reap_mtx
JoinCheck(l, t) ==
  LET thr == subject[t]
  IN  /\ Here(l, t, "join_check")
      /\ HasReap(t)
      /\ pmut[thr] = NULL
      /\ IF ut_state[thr] = "ZOMBIE"
         THEN /\ LockPmut(l, t, thr)
              /\ Reaps(thr)
              /\ Goes(t, "signal")
         ELSE /\ Goes(t, "reap_unlock")
              /\ UNCHANGED <<schedVars, reap_queue, outcome>>
      /\ UNCHANGED <<mtxVars, subject, ut_detached, claimed>>

UthreadJoin(l, t) ==
  \/ \E thr \in Uthreads : Join(l, t, thr)
  \/ JoinReturn(l, t)
  \/ LocksReap(l, t, "join_reap", "join_check")
  \/ JoinCheck(l, t)

\* Wrong: the zombie of the special case is left alone.
Detach_ZombieLeft(l, t, thr) ==
  /\ Accepts(l, t, thr)
  /\ claimed' = claimed \cup {thr}
  /\ MarksDetached(thr)
  /\ UNCHANGED <<allMtxVars, at, subject, reap_queue, outcome>>

\* The ut_pmut of a zombie stays locked while reap_mtx is locked.
Detach(l, t, thr) ==
  /\ Accepts(l, t, thr)
  /\ claimed' = claimed \cup {thr}
  /\ MarksDetached(thr)
  /\ IF ut_state[thr] = "ZOMBIE"
     THEN /\ LockPmut(l, t, thr)
          /\ subject' = [subject EXCEPT ![t] = thr]
          /\ Goes(t, "detach_reap")
     ELSE UNCHANGED <<schedVars, at, subject>>
  /\ UNCHANGED <<mtxVars, reap_queue, outcome>>

DetachCheck(l, t) ==
  LET thr == subject[t]
  IN  /\ Here(l, t, "detach_check")
      /\ HasReap(t)
      /\ \/ /\ ut_state[thr] = "ZOMBIE"
            /\ Reaps(thr)
            /\ Goes(t, "signal")
            /\ UNCHANGED <<allMtxVars, subject, ut_detached, claimed>>
         \/ /\ ut_state[thr] # "ZOMBIE"
            /\ UnlocksSubject(l, t, {})

UthreadDetach(l, t) ==
  \/ \E thr \in Uthreads : Detach(l, t, thr)
  \/ LocksReap(l, t, "detach_reap", "detach_check")
  \/ DetachCheck(l, t)

-----------------------------------------------------------------------------
(* The reaper.                                                             *)

\* Wrong: the condition variable's mutex is not locked before reap_mtx is
\* unlocked.
ReaperWait_Unprotected(l, t) ==
  /\ Here(l, t, "reaper_loop")
  /\ HasReap(t)
  /\ reap_queue = <<>>
  /\ Goes(t, "reaper_unlock")
  /\ UNCHANGED <<allMtxVars, subject, ut_detached, reap_queue, claimed,
                 outcome>>

\* uthread_cond_wait(&reap_cond, &reap_mtx) up to the unlocking of reap_mtx
ReaperWait(l, t) ==
  /\ Here(l, t, "reaper_loop")
  /\ HasReap(t)
  /\ reap_queue = <<>>
  /\ LockPmut(l, t, ReapCond)
  /\ Goes(t, "reaper_unlock")
  /\ UNCHANGED <<mtxVars, subject, ut_detached, reap_queue, claimed, outcome>>

ReaperSleep(l, t) ==
  /\ Here(l, t, "reaper_sleep")
  /\ WaitOn(l, t, ReapCond)
  /\ Goes(t, "reaper")
  /\ UNCHANGED <<mtxVars, subject, ut_detached, reap_queue, claimed, outcome>>

ReaperTake(l, t) ==
  LET z == Head(reap_queue)
  IN  /\ Here(l, t, "reaper_loop")
      /\ HasReap(t)
      /\ reap_queue # <<>>
      /\ reap_queue' = Tail(reap_queue)
      /\ subject' = [subject EXCEPT ![t] = z]
      /\ Fails(ut_state[z] # "ZOMBIE")
      /\ Goes(t, "reaper_destroy")
      /\ UNCHANGED <<allMtxVars, ut_detached, claimed>>

\* Wrong: the reaper's own slot counts as one in use.
ReaperDestroy_CountsItself(l, t) ==
  LET z == subject[t]
      lastOne == /\ reap_queue = <<>>
                 /\ \A u \in Uthreads \ {z} : ut_state[u] = "NO_STATE"
  IN  /\ Here(l, t, "reaper_destroy")
      /\ Destroy(l, t, z)
      /\ ut_detached' = [ut_detached EXCEPT ![z] = FALSE]
      /\ claimed' = claimed \ {z}
      /\ at' = [at EXCEPT ![t] = "reaper_loop", ![z] = "program"]
      /\ subject' = [subject EXCEPT ![t] = NULL, ![z] = NULL]
      /\ outcome' = IF \E k \in Lwps : OnStack(k, z) THEN "freed"
                    ELSE IF lastOne THEN "exit" ELSE outcome
      /\ UNCHANGED <<mtxVars, reap_queue>>

\* uthread_destroy, and the exit when that was the last uthread.  No slot can
\* be taken behind the scan, for only the reaper frees slots and only a uthread
\* that has one creates uthreads.
ReaperDestroy(l, t) ==
  LET z == subject[t]
      lastOne == /\ reap_queue = <<>>
                 /\ \A u \in Uthreads \ {ReaperThr, z} : ut_state[u] = "NO_STATE"
  IN  /\ Here(l, t, "reaper_destroy")
      /\ Destroy(l, t, z)
      /\ ut_detached' = [ut_detached EXCEPT ![z] = FALSE]
      /\ claimed' = claimed \ {z}
      /\ at' = [at EXCEPT ![t] = "reaper_loop", ![z] = "program"]
      /\ subject' = [subject EXCEPT ![t] = NULL, ![z] = NULL]
      /\ outcome' = IF \E k \in Lwps : OnStack(k, z) THEN "freed"
                    ELSE IF lastOne THEN "exit" ELSE outcome
      /\ UNCHANGED <<mtxVars, reap_queue>>

Reaper(l, t) ==
  \/ LocksReap(l, t, "reaper", "reaper_loop")
  \/ ReaperWait(l, t)
  \/ UnlocksReap(l, t, "reaper_unlock", "reaper_sleep")
  \/ ReaperSleep(l, t)
  \/ ReaperTake(l, t)
  \/ ReaperDestroy(l, t)

-----------------------------------------------------------------------------
(* Behaviours.                                                             *)

\* A ut_pmut is an error-checking mutex: an LWP that locks it again aborts.
Relock(l, t) ==
  /\ \/ Here(l, t, "exit") /\ HasReap(t) /\ pmut[t] = l
     \/ Here(l, t, "joined") /\ pmut[subject[t]] = l
     \/ Here(l, t, "join_check") /\ HasReap(t) /\ pmut[subject[t]] = l
     \/ Here(l, t, "reaper_destroy") /\ pmut[subject[t]] = l
     \/ /\ Here(l, t, "program") /\ ~SingleClaim
        /\ \E thr \in Uthreads : pmut[thr] = l
  /\ outcome' = "abort"
  /\ UNCHANGED <<allMtxVars, at, subject, ut_detached, reap_queue, claimed>>

\* preemption, and uthread_create
OtherStep(l, t) ==
  /\ Here(l, t, "program")
  /\ t # ReaperThr
  /\ Yield(l, t) \/ \E slot \in Uthreads : Allocate(l, t, slot)
  /\ UNCHANGED <<mtxVars, lifeVars>>

Stopped == panic \/ outcome # "running"

LifeNext ==
  \/ Stopped /\ UNCHANGED allLifeVars
  \/ /\ ~Stopped
     /\ \/ \E l \in Lwps : (LwpStep(l) \/ SpuriousWakeup(l))
                             /\ UNCHANGED <<mtxVars, lifeVars>>
        \/ \E l \in Lwps, t \in Uthreads :
             \/ InLibrary(l, t) /\ UNCHANGED lifeVars
             \/ UthreadExit(l, t)
             \/ UthreadJoin(l, t)
             \/ UthreadDetach(l, t)
             \/ MakeReapable(l, t)
             \/ Reaper(l, t)
             \/ Relock(l, t)
             \/ OtherStep(l, t)

LifeSpec == LifeInit /\ [][LifeNext]_allLifeVars

\* t goes on in the library
Continues(l, t) ==
  \/ InLibrary(l, t) /\ UNCHANGED lifeVars
  \/ at[t] # "program" /\ (UthreadExit(l, t) \/ UthreadJoin(l, t)
                              \/ UthreadDetach(l, t))
  \/ MakeReapable(l, t)
  \/ Reaper(l, t)

\* LWPs run, library code goes on, and the clock interrupt reaches a uthread
\* that keeps running.
LifeFairness ==
  /\ \A l \in Lwps :
       SF_allLifeVars(~Stopped /\ LwpStep(l) /\ UNCHANGED <<mtxVars, lifeVars>>)
  /\ \A t \in Uthreads :
       /\ SF_allLifeVars(~Stopped /\ \E l \in Lwps : Continues(l, t))
       /\ SF_allLifeVars(~Stopped /\ \E l \in Lwps :
                            Here(l, t, "program") /\ Yield(l, t)
                              /\ UNCHANGED <<mtxVars, lifeVars>>)

LifeFairSpec == LifeSpec /\ LifeFairness

-----------------------------------------------------------------------------
(* Properties.                                                             *)

\* The fields and the places in the code have their types.
LifeTypeOK ==
  /\ at \in [Uthreads -> LifePcs]
  /\ subject \in [Uthreads -> Uthreads \cup {NULL}]
  /\ ut_detached \in [Uthreads -> BOOLEAN]
  /\ reap_queue \in Seq(Uthreads)
  /\ claimed \subseteq Uthreads
  /\ outcome \in Outcomes

\* The assertion of the reaper, "thread->ut_state == UT_ZOMBIE", and the one of
\* utqueue_enqueue: what is on the reap queue, or in the hands of the reaper,
\* is there once and is a zombie that was joined or detached.
ReapQueueSound ==
  /\ NoDup(reap_queue)
  /\ \A z \in Uthreads :
       LET taken == at[ReaperThr] = "reaper_destroy" /\ subject[ReaperThr] = z
       IN  /\ Occurs(reap_queue, z) \/ taken =>
                ut_state[z] = "ZOMBIE" /\ ut_detached[z]
           /\ ~(Occurs(reap_queue, z) /\ taken)

\* A joiner that is woken finds that its target has exited and has not been
\* destroyed, nor its slot used again: the EINVAL after the switch of
\* uthread_join is never returned.
JoinerFindsZombie ==
  \A l \in Lwps, t \in Uthreads :
    Here(l, t, "joined") => ut_state[subject[t]] = "ZOMBIE"

\* No signal to the reaper is lost: it does not sleep, and is not about to,
\* while a zombie is on the reap queue, unless a uthread is about to signal.
ReaperSignalled ==
  reap_queue # <<>> /\ Awaits(ReaperThr, ReapCond) =>
    \E t \in Uthreads : at[t] = "signal"

\* The comment of uthread_exit, "we must make sure that pmut is not unlocked
\* until the thread's stack is no longer in use", and the one in the reaper,
\* "the thread is effectively gone": a stack is freed only when no LWP is on it.
StackKept == outcome # "freed"

\* The comment in make_reapable, "reap_mtx and uth->ut_pmut are locked by
\* caller": whoever signals there owns both, and can unlock both.
MakeReapableLocked ==
  \A l \in Lwps, t \in Uthreads :
    Here(l, t, "signal") => HasReap(t) /\ pmut[subject[t]] = l

\* The comment of uthread_join lists "two threads attempting to join the same
\* thread" among the errors: two calls of join or detach for one uthread do not
\* both pass the error checks.
ClaimedOnce ==
  \A t1, t2 \in Uthreads :
    /\ t1 # t2
    /\ {at[t1], at[t2]} \subseteq {"join_reap", "join_check", "detach_reap",
                                  "detach_check"}
    => subject[t1] # subject[t2]

\* When every other uthread has exited and was joined or detached, the reaper
\* gets to its exit: nothing is left behind that would make the last LWP to
\* park PANIC.
ProcessEnds ==
  (\A u \in Uthreads \ {ReaperThr} :
     ut_state[u] = "NO_STATE" \/ (ut_state[u] = "ZOMBIE" /\ ut_detached[u]))
    ~> outcome # "running"

\* Every uthread that has exited and was joined or detached is destroyed in the
\* end, unless the process ends before; no lost signal makes it PANIC.
ClaimedDestroyed ==
  \A z \in Uthreads :
    ut_state[z] = "ZOMBIE" /\ ut_detached[z]
      ~> ut_state[z] = "NO_STATE" \/ outcome # "running"

\* A join whose target has exited returns in the end, and no lost wake-up makes
\* the process PANIC.
JoinsReturn ==
  \A t \in Uthreads :
    at[t] = "joined" /\ ut_state[subject[t]] = "ZOMBIE"
      ~> at[t] = "program" \/ outcome # "running"

\* A claimed zombie is never dropped: until it is destroyed it is on the reap
\* queue, or with the reaper, or the uthread that claimed it will queue it.
ZombieAccounted ==
  \A z \in Uthreads :
    ut_state[z] = "ZOMBIE" /\ ut_detached[z] =>
      \/ Occurs(reap_queue, z)
      \/ at[ReaperThr] = "reaper_destroy" /\ subject[ReaperThr] = z
      \/ \E t \in Uthreads :
           /\ subject[t] = z
           /\ at[t] \in {"join_reap", "join_check", "detach_reap",
                         "detach_check"}

=============================================================================
