-------------------------- MODULE UthreadLifeProofs --------------------------
(***************************************************************************)
(* The life of a uthread, for any number of uthreads and LWPs.             *)
(*                                                                         *)
(* uthread.c breaks the rules of the scheduler in one place: a detached    *)
(* uthread that exits unlocks its own ut_pmut while it is on its stack, so *)
(* that the reaper may destroy it there.  FreedOnlyByItself says that no   *)
(* other way leads to a freed stack.  Until that happens the invariants of *)
(* the scheduler and of the mutexes hold.                                  *)
(*                                                                         *)
(* A process that has stopped takes no further step; the scheduler's       *)
(* invariant is claimed for a running one only, for a checked              *)
(* pthread_mutex_unlock that fails ends it.                                *)
(***************************************************************************)
EXTENDS UthreadLife, UthreadMtxProofs

\* What the objects of uthread.c are.
LEMMA LifeObjects ==
  /\ ReapMtx \in Mutexes /\ ReapMtx \in SyncObjs /\ ReapMtx \in Objs
  /\ ReapCond \in SyncObjs /\ ReapCond \notin Mutexes /\ ReapCond \in Objs
  /\ ReapMtx # ReapCond
  /\ ReaperThr \in Uthreads /\ Uthreads \subseteq Objs
  /\ NULL \notin Uthreads /\ NULL \notin Lwps /\ NULL \notin Objs
  /\ \A o \in SyncObjs, t \in Uthreads : o # t
BY LifeAssumption, MtxAssumption, SchedAssumption
   DEF LifeAssumption, MtxAssumption, SchedAssumption, Objs

-----------------------------------------------------------------------------
(* The steps.                                                              *)

\* A step of uthread u in its own code, or in a call of uthread.c.
LifeCall(k, u) ==
  \/ UthreadExit(k, u) \/ UthreadJoin(k, u) \/ UthreadDetach(k, u)
  \/ MakeReapable(k, u) \/ Reaper(k, u)

\* Locking and unlocking reap_mtx are calls of uthread_mtx.c.
LEMMA ReapMtxSteps ==
  ASSUME NEW k, NEW u, NEW pc, NEW next
  PROVE  /\ LocksReap(k, u, pc, next) => MtxStep(k, u)
         /\ UnlocksReap(k, u, pc, next) => MtxStep(k, u)
BY LifeObjects DEF LocksReap, UnlocksReap, MtxStep

\* What a process that has not stopped does next.
LEMMA LifeSteps ==
  ASSUME [LifeNext]_allLifeVars
  PROVE  \/ UNCHANGED allLifeVars
         \/ /\ outcome = "running" /\ ~panic
            /\ \/ KernelStep /\ UNCHANGED <<mtxVars, lifeVars>>
               \/ \E k \in Lwps, u \in Uthreads :
                    \/ UthreadMtxLockReturn(k, u) /\ UNCHANGED lifeVars
                    \/ OtherStep(k, u)
                    \/ LifeCall(k, u)
                    \/ Relock(k, u)
<1>1. ASSUME NEW k \in Lwps, NEW u \in Uthreads, InLibrary(k, u), UNCHANGED lifeVars
      PROVE  \/ KernelStep /\ UNCHANGED <<mtxVars, lifeVars>>
             \/ UthreadMtxLockReturn(k, u) /\ UNCHANGED lifeVars
  BY <1>1 DEF InLibrary, KernelStep
<1>2. ASSUME NEW k \in Lwps, LwpStep(k) \/ SpuriousWakeup(k)
      PROVE  KernelStep
  BY <1>2 DEF KernelStep
<1>3. CASE LifeNext /\ ~Stopped
  <2>1. PICK k \in Lwps :
          \/ (LwpStep(k) \/ SpuriousWakeup(k)) /\ UNCHANGED <<mtxVars, lifeVars>>
          \/ \E u \in Uthreads :
               \/ InLibrary(k, u) /\ UNCHANGED lifeVars
               \/ LifeCall(k, u) \/ Relock(k, u) \/ OtherStep(k, u)
    BY <1>3, SchedAssumption DEF LifeNext, LifeCall, SchedAssumption
  <2> QED BY <1>1, <1>2, <1>3, <2>1 DEF Stopped
<1> QED BY <1>3 DEF LifeNext

\* Uthreads neither exit nor vanish, and nobody waits for one anew.
ThreadsKept ==
  \A s \in Uthreads : /\ ut_state'[s] = "ZOMBIE" <=> ut_state[s] = "ZOMBIE"
                      /\ waiters'[s] = waiters[s]

\* The steps of LWPs and of library code: a zombie is on no run queue and is
\* not woken, and an LWP queues uthreads on mutexes and condition variables.
LEMMA KernelKeepsThreads ==
  ASSUME IInv, KernelStep
  PROVE  ThreadsKept
<1> USE DEF ThreadsKept, threadVars, objVars, runqVars, lwpVars
<1>0. TypeOK /\ LwpInv /\ CallInv
  BY DEF IInv, PlaceInv
<1>1. ASSUME NEW k \in Lwps,
             LwpStart(k) \/ LwpPark(k) \/ LwpUnpark(k) \/ SpuriousWakeup(k)
      PROVE  ThreadsKept
  BY <1>1 DEF LwpStart, LwpPark, LwpUnpark, SpuriousWakeup
<1>2. ASSUME NEW k \in Lwps, LwpDispatch(k)
      PROVE  ThreadsKept
  <2>1. PICK p \in Prios : /\ runq_table[p] # <<>>
                           /\ ut_state' = [ut_state EXCEPT ![Head(runq_table[p])] = "ON_CPU"]
    BY <1>2 DEF LwpDispatch, FirstNonEmpty
  <2>2. runq_table[p] \in Seq(Uthreads)
    BY <1>0 DEF TypeOK
  <2>3. Head(runq_table[p]) \in Uthreads /\ Occurs(runq_table[p], Head(runq_table[p]))
    BY <2>1, <2>2, DequeueQueue
  <2>4. ut_state[Head(runq_table[p])] = "RUNNABLE"
    BY <2>3 DEF IInv, RunqCoherent
  <2>5. waiters' = waiters
    BY <1>2 DEF LwpDispatch
  <2> QED BY <1>0, <2>1, <2>3, <2>4, <2>5 DEF TypeOK
<1>3. ASSUME NEW k \in Lwps, LwpSwitch(k)
      PROVE  ThreadsKept
  <2> DEFINE t == ut_curthr[k]
  <2>1. ASSUME t # NULL PROVE t \in Uthreads /\ Asks(k, t, curlwp[k])
    BY <1>0, <1>3, <2>1 DEF TypeOK, LwpSwitch, IInv, PlaceInv, AsksInv, AsksOf
  <2>2. ASSUME NEW s \in Uthreads PROVE waiters'[s] = waiters[s]
    BY <1>0, <1>3, <2>1, LifeObjects DEF LwpSwitch, TypeOK, Asks
  <2>3. ASSUME NEW s \in Uthreads
        PROVE  ut_state'[s] = "ZOMBIE" <=> ut_state[s] = "ZOMBIE"
    BY <1>0, <1>3, <2>1, LifeObjects DEF LwpSwitch, TypeOK
  <2> QED BY <2>2, <2>3
<1>4. ASSUME NEW k \in Lwps, NEW u \in Uthreads, UthreadSwitch(k, u)
      PROVE  ThreadsKept
  BY <1>4 DEF UthreadSwitch
<1>5. ASSUME NEW k \in Lwps, NEW u \in Uthreads,
             UthreadWake(k, u) \/ \E prio \in Prios : UthreadStartOnRunq(k, u, prio)
      PROVE  ThreadsKept
  BY <1>0, <1>5 DEF UthreadWake, UthreadStartOnRunq, Runs, CallInv, TypeOK
<1> QED BY <1>1, <1>2, <1>3, <1>4, <1>5 DEF KernelStep, LwpStep

\* So do those of the program, of uthread_mtx.c and on reap_cond.
LEMMA ClientKeepsThreads ==
  ASSUME IInv, NEW k \in Lwps, NEW u \in Uthreads,
         \/ UNCHANGED schedVars \/ MtxStep(k, u) \/ Yield(k, u)
         \/ \E slot \in Uthreads : Allocate(k, u, slot)
         \/ \E o \in Objs : LockPmut(k, u, o)
         \/ UNCHANGED <<threadVars, waiters>>
         \/ WaitOn(k, u, ReapCond) \/ TakeWaiter(k, u, ReapCond, TRUE)
  PROVE  ThreadsKept
<1> USE DEF ThreadsKept, threadVars, objVars, runqVars, lwpVars
<1>0. TypeOK
  BY DEF IInv
<1>1. ASSUME NEW o \in SyncObjs, WaitOn(k, u, o)
      PROVE  ThreadsKept
  BY <1>0, <1>1 DEF WaitOn, TypeOK
<1>2. ASSUME NEW o \in SyncObjs, NEW keep \in BOOLEAN, TakeWaiter(k, u, o, keep)
      PROVE  ThreadsKept
  BY <1>0, <1>2, LifeObjects DEF TakeWaiter, TypeOK
<1>3. CASE UNCHANGED schedVars
  BY <1>3 DEF schedVars
<1>4. CASE MtxStep(k, u)
  BY <1>1, <1>2, <1>3, <1>4, MutexesDistinct
     DEF MtxStep, UthreadMtxLock, UthreadMtxTrylock, UthreadMtxUnlock,
         UthreadMtxLockReturn, MtxTake, MtxBlock, MtxRelease
<1>5. CASE Yield(k, u) \/ \E o \in Objs : LockPmut(k, u, o)
  BY <1>5 DEF Yield, LockPmut
<1>6. CASE \E slot \in Uthreads : Allocate(k, u, slot)
  BY <1>0, <1>6 DEF Allocate, TypeOK
<1> QED BY <1>1, <1>2, <1>3, <1>4, <1>5, <1>6, LifeObjects

-----------------------------------------------------------------------------
(* Where a uthread is.                                                     *)

\* the code of the reaper, and that of uthread_exit once a uthread is a zombie
ReaperPcs == {"reaper", "reaper_loop", "reaper_unlock", "reaper_sleep",
              "reaper_destroy"}
ExitedPcs == {"exit_wake", "exit_unlock", "exit_leave", "exit_bare", "gone"}

\* the uthread has called uthread_join or uthread_detach and has not put its
\* target on the reap queue
ClaimPcs == {"joined", "join_reap", "join_check", "detach_reap", "detach_check"}
SubjectPcs == ClaimPcs \cup {"signal", "signalled", "reap_unlock",
                             "reaper_destroy"}

\* A uthread at pc that has subject z has exited; if it is detached, it is in
\* make_reapable for itself.
ReapPcs == {"signal", "signalled", "reap_unlock"}
Exited(t, pc, z) == pc \in ExitedPcs \/ (pc \in ReapPcs /\ z = t)

\* The zombies are those in the code of uthread_exit that follows; a uthread
\* has one joiner at most, which is gone when it leaves its stack; a uthread
\* joins, detaches or destroys another one.
PlaceOf(t) ==
  /\ at[t] \in LifePcs
  /\ at[t] \in ReaperPcs <=> t = ReaperThr
  /\ ut_state[t] = "ZOMBIE" <=> Exited(t, at[t], subject[t])
  /\ ut_state[t] = "ZOMBIE" /\ at[t] # "exit_wake" => waiters[t] = <<>>
  /\ Len(waiters[t]) <= 1
  /\ at[t] \in SubjectPcs => subject[t] \in Uthreads
  /\ at[t] \in ClaimPcs \cup {"reaper_destroy"} => subject[t] # t
  /\ at[t] = "exit_bare" => subject[t] = t

\* Every uthread is where its state says.
PlacesInv ==
  /\ at \in [Uthreads -> LifePcs]
  /\ subject \in [Uthreads -> Uthreads \cup {NULL}]
  /\ \A t \in Uthreads : PlaceOf(t)

\* Nobody waits for the exit of a uthread that is detached.
DetachedInv == \A t \in Uthreads : ut_detached[t] => waiters[t] = <<>>

\* A step of u that neither makes a zombie nor touches the joiners.
LEMMA PlacesByStep ==
  ASSUME PlacesInv, NEW u \in Uthreads, NEW next \in LifePcs,
         Goes(u, next), ThreadsKept,
         subject' \in [Uthreads -> Uthreads \cup {NULL}],
         \A s \in Uthreads \ {u} : subject'[s] = subject[s],
         next \in ReaperPcs <=> u = ReaperThr,
         Exited(u, next, subject'[u]) <=> Exited(u, at[u], subject[u]),
         at[u] # "exit_wake",
         next \in SubjectPcs => subject'[u] \in Uthreads,
         next \in ClaimPcs \cup {"reaper_destroy"} => subject'[u] # u,
         next = "exit_bare" => subject'[u] = u
  PROVE  PlacesInv'
<1>1. at' = [at EXCEPT ![u] = next] /\ at' \in [Uthreads -> LifePcs]
  BY DEF Goes, PlacesInv
<1>2. ASSUME NEW s \in Uthreads \ {u} PROVE PlaceOf(s)'
  <2>1. at'[s] = at[s] /\ subject'[s] = subject[s] /\ PlaceOf(s)
    BY <1>1 DEF PlacesInv
  <2>2. waiters'[s] = waiters[s] /\ (ut_state'[s] = "ZOMBIE" <=> ut_state[s] = "ZOMBIE")
    BY DEF ThreadsKept
  <2> QED BY <2>1, <2>2 DEF PlaceOf
<1>3. PlaceOf(u)'
  <2>1. at'[u] = next /\ PlaceOf(u)
    BY <1>1 DEF PlacesInv
  <2>2. waiters'[u] = waiters[u] /\ (ut_state'[u] = "ZOMBIE" <=> ut_state[u] = "ZOMBIE")
    BY DEF ThreadsKept
  <2> QED BY <2>1, <2>2 DEF PlaceOf
<1> QED BY <1>1, <1>2, <1>3 DEF PlacesInv

\* What only the scheduler, or its clients in the program, change.
LEMMA PlacesKept ==
  ASSUME PlacesInv, UNCHANGED <<at, subject>>, ThreadsKept
  PROVE  PlacesInv'
<1>1. ASSUME NEW s \in Uthreads PROVE PlaceOf(s)'
  <2>1. /\ at'[s] = at[s] /\ subject'[s] = subject[s] /\ PlaceOf(s)
        /\ waiters'[s] = waiters[s]
        /\ ut_state'[s] = "ZOMBIE" <=> ut_state[s] = "ZOMBIE"
    BY DEF PlacesInv, ThreadsKept
  <2> QED BY <2>1 DEF PlaceOf
<1> QED BY <1>1 DEF PlacesInv

\* Locking and unlocking reap_mtx.
LEMMA ReapMtxPlaces ==
  ASSUME IInv, PlacesInv, NEW k \in Lwps, NEW u \in Uthreads,
         NEW pc, NEW next \in LifePcs,
         LocksReap(k, u, pc, next) \/ UnlocksReap(k, u, pc, next),
         pc \in ReaperPcs <=> next \in ReaperPcs,
         Exited(u, next, subject[u]) <=> Exited(u, pc, subject[u]),
         pc # "exit_wake",
         next \in SubjectPcs => pc \in SubjectPcs,
         next \in ClaimPcs \cup {"reaper_destroy"} => pc \in ClaimPcs,
         next = "exit_bare" => subject[u] = u
  PROVE  PlacesInv'
<1>1. ThreadsKept
  BY ReapMtxSteps, ClientKeepsThreads
<1>2. /\ at[u] = pc /\ Goes(u, next) /\ subject' = subject
  BY DEF LocksReap, UnlocksReap, Here
<1>3. PlaceOf(u) /\ subject \in [Uthreads -> Uthreads \cup {NULL}]
  BY DEF PlacesInv
<1> QED BY <1>1, <1>2, <1>3, PlacesByStep DEF PlaceOf

\* Taking the only element off a queue empties it.
LEMMA SingleTail ==
  ASSUME NEW S, NEW q \in Seq(S), q # <<>>, Len(q) <= 1
  PROVE  Tail(q) = <<>>
<1>1. Len(q) = 1
  <2>1. Len(q) \in Nat \ {0}
    BY EmptySeq
  <2> QED BY <2>1
<1>2. Tail(q) \in Seq(S) /\ Len(Tail(q)) = 0
  BY <1>1, HeadTailProperties
<1>3. \A r \in Seq(S) : Len(r) = 0 => r = <<>>
  BY EmptySeq
<1> QED BY <1>2, <1>3

\* uthread_exit.
LEMMA ExitPlaces ==
  ASSUME IInv, PlacesInv, DetachedInv,
         NEW k \in Lwps, NEW u \in Uthreads, UthreadExit(k, u)
  PROVE  PlacesInv'
<1> USE DEF LifePcs, ReaperPcs, ExitedPcs, ReapPcs, SubjectPcs, ClaimPcs
<1>0. PlaceOf(u) /\ at \in [Uthreads -> LifePcs]
      /\ subject \in [Uthreads -> Uthreads \cup {NULL}]
  BY DEF PlacesInv
<1>1. CASE u # ReaperThr /\ LocksReap(k, u, "program", "exit")
  BY <1>1, ReapMtxPlaces DEF Exited
<1>2. CASE ExitZombie(k, u)
  <2>1. /\ at[u] = "exit" /\ BecomeZombie(k, u)
        /\ \/ ut_detached[u] /\ subject' = [subject EXCEPT ![u] = u] /\ Goes(u, "signal")
           \/ /\ Goes(u, IF waiters[u] = <<>> THEN "exit_unlock" ELSE "exit_wake")
              /\ subject' = subject
    BY <1>2 DEF ExitZombie, Here
  <2>2. /\ \/ at'[u] = "exit_wake"
           \/ at'[u] = "exit_unlock" /\ waiters[u] = <<>>
           \/ at'[u] = "signal" /\ waiters[u] = <<>> /\ subject'[u] = u
        /\ \A s \in Uthreads \ {u} : subject'[s] = subject[s]
        /\ subject' \in [Uthreads -> Uthreads \cup {NULL}]
    BY <1>0, <2>1 DEF Goes, DetachedInv
  <2>3. /\ \A s \in Uthreads \ {u} : at'[s] = at[s]
        /\ at' \in [Uthreads -> LifePcs]
    BY <1>0, <2>1 DEF Goes
  <2>4. /\ ut_state'[u] = "ZOMBIE"
        /\ \A s \in Uthreads \ {u} : ut_state'[s] = ut_state[s]
        /\ waiters' = waiters
    BY <2>1 DEF BecomeZombie, IInv, TypeOK
  <2>5. ASSUME NEW s \in Uthreads \ {u} PROVE PlaceOf(s)'
    BY <2>2, <2>3, <2>4 DEF PlacesInv, PlaceOf, Exited
  <2>6. PlaceOf(u)'
    BY <1>0, <2>1, <2>2, <2>4 DEF PlaceOf, Exited
  <2> QED BY <1>0, <2>2, <2>3, <2>5, <2>6 DEF PlacesInv
<1>3. CASE ExitWake(k, u)
  <2>1. /\ at[u] = "exit_wake" /\ TakeWaiter(k, u, u, TRUE)
        /\ Goes(u, "exit_unlock") /\ subject' = subject
    BY <1>3 DEF ExitWake, Here
  <2>2. /\ at'[u] = "exit_unlock" /\ at' \in [Uthreads -> LifePcs]
        /\ \A s \in Uthreads \ {u} : at'[s] = at[s]
    BY <1>0, <2>1 DEF Goes
  <2>3. /\ ut_state' = ut_state /\ waiters[u] # <<>> /\ waiters'[u] = Tail(waiters[u])
        /\ \A s \in Uthreads \ {u} : waiters'[s] = waiters[s]
        /\ waiters[u] \in Seq(Uthreads)
    BY <2>1, LifeObjects DEF TakeWaiter, IInv, TypeOK
  <2>4. waiters'[u] = <<>> /\ Len(waiters'[u]) <= 1
    <3>1. Len(waiters[u]) <= 1
      BY <1>0 DEF PlaceOf, Exited
    <3>2. Tail(waiters[u]) = <<>>
      BY <2>3, <3>1, SingleTail
    <3>3. Len(<<>>) <= 1
      OBVIOUS
    <3> QED BY <2>3, <3>2, <3>3
  <2>5. ASSUME NEW s \in Uthreads \ {u} PROVE PlaceOf(s)'
    BY <2>1, <2>2, <2>3 DEF PlacesInv, PlaceOf, Exited
  <2>6. PlaceOf(u)'
    BY <1>0, <2>1, <2>2, <2>3, <2>4 DEF PlaceOf, Exited
  <2> QED BY <1>0, <2>1, <2>2, <2>5, <2>6 DEF PlacesInv
<1>4. CASE UnlocksReap(k, u, "exit_unlock", "exit_leave")
  <2>1. at[u] = "exit_unlock"
    BY <1>4 DEF UnlocksReap, Here
  <2>2. waiters[u] = <<>>
    BY <1>0, <2>1 DEF PlaceOf, Exited
  <2> QED BY <1>4, <2>2, ReapMtxPlaces DEF Exited
<1>5. CASE ExitLeave(k, u)
  <2>1. /\ at[u] = "exit_leave" /\ Goes(u, "gone") /\ subject' = subject
        /\ UNCHANGED <<ut_state, waiters>>
    BY <1>5 DEF ExitLeave, Here, objVars
  <2>2. ThreadsKept
    BY <2>1 DEF ThreadsKept
  <2> QED BY <1>0, <2>1, <2>2, PlacesByStep DEF PlaceOf, Exited
<1> QED BY <1>1, <1>2, <1>3, <1>4, <1>5 DEF UthreadExit

\* Who runs in the code of the program, or anywhere in uthread.c but in
\* uthread_exit, has not exited.
LEMMA RunsAlive ==
  ASSUME PlacesInv, NEW u \in Uthreads, ~Exited(u, at[u], subject[u])
  PROVE  ut_state[u] # "ZOMBIE"
BY DEF PlacesInv, PlaceOf, Exited

\* Unlocking the ut_pmut of the subject.
LEMMA UnlockPlaces ==
  ASSUME IInv, PlacesInv, NEW k \in Lwps, NEW u \in Uthreads,
         NEW also, UnlocksSubject(k, u, also),
         at[u] \in {"signal", "signalled", "detach_check"}
  PROVE  PlacesInv'
<1>1. /\ UNCHANGED <<threadVars, waiters>> /\ Goes(u, "reap_unlock")
      /\ subject' = subject
  BY DEF UnlocksSubject
<1>2. ThreadsKept
  BY <1>1, ClientKeepsThreads
<1>3. PlaceOf(u) /\ subject \in [Uthreads -> Uthreads \cup {NULL}]
  BY DEF PlacesInv
<1> QED BY <1>1, <1>2, <1>3, PlacesByStep
        DEF PlaceOf, Exited, LifePcs, ReaperPcs, ExitedPcs, ReapPcs, SubjectPcs, ClaimPcs

\* make_reapable, of another uthread or of the caller.
LEMMA ReapablePlaces ==
  ASSUME IInv, PlacesInv,
         NEW k \in Lwps, NEW u \in Uthreads, MakeReapable(k, u)
  PROVE  PlacesInv'
<1> USE DEF LifePcs, ReaperPcs, ExitedPcs, ReapPcs, SubjectPcs, ClaimPcs
<1>0. PlaceOf(u) /\ subject \in [Uthreads -> Uthreads \cup {NULL}]
  BY DEF PlacesInv
<1>1. CASE SignalReaper(k, u)
  <2>1. at[u] = "signal"
    BY <1>1 DEF SignalReaper, Here
  <2>2. CASE UnlocksSubject(k, u, {})
    BY <2>1, <2>2, UnlockPlaces
  <2>3. CASE TakeWaiter(k, u, ReapCond, TRUE) /\ Goes(u, "signalled") /\ subject' = subject
    <3>1. ThreadsKept
      BY <2>3, ClientKeepsThreads
    <3> QED BY <1>0, <2>1, <2>3, <3>1, PlacesByStep DEF PlaceOf, Exited
  <2> QED BY <1>1, <2>2, <2>3 DEF SignalReaper
<1>2. CASE Signalled(k, u)
  BY <1>0, <1>2, UnlockPlaces DEF Signalled, Here
<1>3. CASE ReapUnlock(k, u)
  <2>1. CASE subject[u] # u /\ UnlocksReap(k, u, "reap_unlock", "program")
    BY <2>1, ReapMtxPlaces DEF Exited
  <2>2. CASE subject[u] = u /\ UnlocksReap(k, u, "reap_unlock", "exit_bare")
    BY <2>2, ReapMtxPlaces DEF Exited
  <2> QED BY <1>3, <2>1, <2>2 DEF ReapUnlock
<1>4. CASE ExitBare(k, u)
  <2>1. /\ at[u] = "exit_bare" /\ Goes(u, "gone") /\ subject' = subject
        /\ UNCHANGED <<ut_state, waiters>>
    BY <1>4 DEF ExitBare, Here, objVars
  <2>2. ThreadsKept
    BY <2>1 DEF ThreadsKept
  <2> QED BY <1>0, <2>1, <2>2, PlacesByStep DEF PlaceOf, Exited
<1> QED BY <1>1, <1>2, <1>3, <1>4 DEF MakeReapable

\* uthread_join.
LEMMA JoinPlaces ==
  ASSUME IInv, PlacesInv, NEW k \in Lwps, NEW u \in Uthreads, UthreadJoin(k, u)
  PROVE  PlacesInv'
<1> USE DEF LifePcs, ReaperPcs, ExitedPcs, ReapPcs, SubjectPcs, ClaimPcs
<1>0. PlaceOf(u) /\ subject \in [Uthreads -> Uthreads \cup {NULL}]
      /\ at \in [Uthreads -> LifePcs]
  BY DEF PlacesInv
<1>1. ASSUME NEW thr \in Uthreads, Join(k, u, thr)
      PROVE  PlacesInv'
  <2>1. /\ at[u] = "program" /\ thr # u /\ u # ReaperThr
        /\ subject' = [subject EXCEPT ![u] = thr] /\ waiters[thr] = <<>>
        /\ subject'[u] = thr /\ \A s \in Uthreads \ {u} : subject'[s] = subject[s]
        /\ subject' \in [Uthreads -> Uthreads \cup {NULL}]
    BY <1>0, <1>1 DEF Join, Accepts, Here
  <2>2. CASE WaitForExit(k, u, thr) /\ Goes(u, "joined")
    <3>1. /\ ut_state' = [ut_state EXCEPT ![u] = "WAIT"] /\ ut_state[u] = "ON_CPU"
          /\ waiters' = [waiters EXCEPT ![thr] = Append(@, u)]
          /\ ut_state[thr] # "ZOMBIE"
      BY <2>2 DEF WaitForExit, utqueue_enqueue, Active
    <3>2. /\ at'[u] = "joined" /\ at' \in [Uthreads -> LifePcs]
          /\ \A s \in Uthreads \ {u} : at'[s] = at[s]
      BY <1>0, <2>2 DEF Goes
    <3>3. /\ \A s \in Uthreads : ut_state'[s] = "ZOMBIE" <=> ut_state[s] = "ZOMBIE"
          /\ waiters'[thr] = <<u>>
          /\ \A s \in Uthreads \ {thr} : waiters'[s] = waiters[s]
      BY <2>1, <3>1, LifeObjects DEF IInv, TypeOK
    <3>4. Len(<<u>>) <= 1
      OBVIOUS
    <3>5. ASSUME NEW s \in Uthreads \ {u} PROVE PlaceOf(s)'
      <4>1. CASE s = thr
        BY <2>1, <3>1, <3>2, <3>3, <3>4, <4>1 DEF PlacesInv, PlaceOf, Exited
      <4>2. CASE s # thr
        BY <2>1, <3>2, <3>3, <4>2 DEF PlacesInv, PlaceOf, Exited
      <4> QED BY <4>1, <4>2
    <3>6. PlaceOf(u)'
      BY <1>0, <2>1, <3>2, <3>3 DEF PlaceOf, Exited
    <3> QED BY <2>1, <3>2, <3>5, <3>6 DEF PlacesInv
  <2>3. CASE Goes(u, "join_reap") /\ UNCHANGED schedVars
    <3>1. ThreadsKept
      BY <2>3, ClientKeepsThreads
    <3> QED BY <1>0, <2>1, <2>3, <3>1, PlacesByStep DEF PlaceOf, Exited
  <2> QED BY <1>1, <2>2, <2>3 DEF Join
<1>2. CASE JoinReturn(k, u)
  <2>1. /\ at[u] = "joined" /\ UNCHANGED allMtxVars /\ subject' = subject
        /\ Goes(u, "join_reap") \/ Goes(u, "program")
    BY <1>2 DEF JoinReturn, Here
  <2>2. ThreadsKept
    BY <2>1, ClientKeepsThreads DEF allMtxVars
  <2> QED BY <1>0, <2>1, <2>2, PlacesByStep DEF PlaceOf, Exited
<1>3. CASE LocksReap(k, u, "join_reap", "join_check")
  BY <1>3, ReapMtxPlaces DEF Exited
<1>4. CASE JoinCheck(k, u)
  <2>1. /\ at[u] = "join_check" /\ subject' = subject
        /\ subject[u] \in Uthreads \ {u} /\ subject[u] \in Objs
        /\ \/ LockPmut(k, u, subject[u]) /\ Goes(u, "signal")
           \/ UNCHANGED schedVars /\ Goes(u, "reap_unlock")
    BY <1>0, <1>4, LifeObjects DEF JoinCheck, Here, PlaceOf
  <2>2. ThreadsKept
    BY <2>1, ClientKeepsThreads
  <2> QED BY <1>0, <2>1, <2>2, PlacesByStep DEF PlaceOf, Exited
<1> QED BY <1>1, <1>2, <1>3, <1>4 DEF UthreadJoin

\* uthread_detach: the zombie is not the caller, who has not exited.
LEMMA DetachPlaces ==
  ASSUME IInv, PlacesInv, NEW k \in Lwps, NEW u \in Uthreads, UthreadDetach(k, u)
  PROVE  PlacesInv'
<1> USE DEF LifePcs, ReaperPcs, ExitedPcs, ReapPcs, SubjectPcs, ClaimPcs
<1>0. PlaceOf(u) /\ subject \in [Uthreads -> Uthreads \cup {NULL}]
      /\ at \in [Uthreads -> LifePcs]
  BY DEF PlacesInv
<1>1. ASSUME NEW thr \in Uthreads, Detach(k, u, thr)
      PROVE  PlacesInv'
  <2>1. at[u] = "program" /\ u # ReaperThr
    BY <1>1 DEF Detach, Accepts, Here
  <2>2. CASE ut_state[thr] = "ZOMBIE"
    <3>1. /\ LockPmut(k, u, thr) /\ Goes(u, "detach_reap")
          /\ subject' = [subject EXCEPT ![u] = thr]
      BY <1>1, <2>2 DEF Detach
    <3>2. thr # u
      BY <2>1, <2>2, RunsAlive DEF Exited
    <3>3. ThreadsKept
      BY <3>1, ClientKeepsThreads, LifeObjects
    <3>4. /\ subject' \in [Uthreads -> Uthreads \cup {NULL}]
          /\ subject'[u] = thr /\ \A s \in Uthreads \ {u} : subject'[s] = subject[s]
      BY <1>0, <3>1
    <3> QED BY <1>0, <2>1, <3>1, <3>2, <3>3, <3>4, PlacesByStep DEF PlaceOf, Exited
  <2>3. CASE ut_state[thr] # "ZOMBIE"
    <3>1. UNCHANGED <<schedVars, at, subject>>
      BY <1>1, <2>3 DEF Detach
    <3> QED BY <3>1, ClientKeepsThreads, PlacesKept
  <2> QED BY <2>2, <2>3
<1>2. CASE LocksReap(k, u, "detach_reap", "detach_check")
  BY <1>2, ReapMtxPlaces DEF Exited
<1>3. CASE DetachCheck(k, u)
  <2>1. at[u] = "detach_check" /\ subject[u] \in Uthreads \ {u}
    BY <1>0, <1>3 DEF DetachCheck, Here, PlaceOf
  <2>2. CASE UnlocksSubject(k, u, {})
    BY <2>1, <2>2, UnlockPlaces
  <2>3. CASE UNCHANGED allMtxVars /\ subject' = subject /\ Goes(u, "signal")
    <3>1. ThreadsKept
      BY <2>3, ClientKeepsThreads DEF allMtxVars
    <3> QED BY <1>0, <2>1, <2>3, <3>1, PlacesByStep DEF PlaceOf, Exited
  <2> QED BY <1>3, <2>2, <2>3 DEF DetachCheck
<1> QED BY <1>1, <1>2, <1>3 DEF UthreadDetach

\* The reaper itself is not on the reap queue.
QueueOfOthers == reap_queue \in Seq(Uthreads \ {ReaperThr})

\* The reaper.
LEMMA ReaperPlaces ==
  ASSUME IInv, PlacesInv, QueueOfOthers,
         NEW k \in Lwps, NEW u \in Uthreads, Reaper(k, u)
  PROVE  PlacesInv'
<1> USE DEF LifePcs, ReaperPcs, ExitedPcs, ReapPcs, SubjectPcs, ClaimPcs
<1>0. PlaceOf(u) /\ subject \in [Uthreads -> Uthreads \cup {NULL}]
      /\ at \in [Uthreads -> LifePcs]
  BY DEF PlacesInv
<1>1. CASE LocksReap(k, u, "reaper", "reaper_loop")
  BY <1>1, ReapMtxPlaces DEF Exited
<1>2. CASE UnlocksReap(k, u, "reaper_unlock", "reaper_sleep")
  BY <1>2, ReapMtxPlaces DEF Exited
<1>3. CASE ReaperWait(k, u) \/ ReaperSleep(k, u)
  <2>1. /\ subject' = subject
        /\ \/ /\ at[u] = "reaper_loop" /\ LockPmut(k, u, ReapCond)
              /\ Goes(u, "reaper_unlock")
           \/ /\ at[u] = "reaper_sleep" /\ WaitOn(k, u, ReapCond)
              /\ Goes(u, "reaper")
    BY <1>3 DEF ReaperWait, ReaperSleep, Here
  <2>2. ThreadsKept
    BY <2>1, ClientKeepsThreads, LifeObjects
  <2> QED BY <1>0, <2>1, <2>2, PlacesByStep DEF PlaceOf, Exited
<1>4. CASE ReaperTake(k, u)
  <2> DEFINE z == Head(reap_queue)
  <2>1. /\ at[u] = "reaper_loop" /\ Goes(u, "reaper_destroy")
        /\ reap_queue # <<>> /\ subject' = [subject EXCEPT ![u] = z]
        /\ UNCHANGED allMtxVars
    BY <1>4 DEF ReaperTake, Here
  <2>2. u = ReaperThr
    BY <1>0, <2>1 DEF PlaceOf, Exited
  <2>3. z \in Uthreads \ {u}
    BY <2>1, <2>2, HeadTailProperties DEF QueueOfOthers
  <2> HIDE DEF z
  <2>4. /\ subject' \in [Uthreads -> Uthreads \cup {NULL}]
        /\ subject'[u] = z /\ \A s \in Uthreads \ {u} : subject'[s] = subject[s]
    BY <1>0, <2>1, <2>3
  <2>5. ThreadsKept
    BY <2>1, ClientKeepsThreads DEF allMtxVars
  <2> QED BY <1>0, <2>1, <2>3, <2>4, <2>5, PlacesByStep DEF PlaceOf, Exited
<1>5. CASE ReaperDestroy(k, u)
  <2>0. PICK z \in Uthreads : z = subject[u]
    BY <1>0, <1>5 DEF ReaperDestroy, Here, PlaceOf
  <2>1. /\ at[u] = "reaper_destroy" /\ Destroy(k, u, z)
        /\ at' = [at EXCEPT ![u] = "reaper_loop", ![z] = "program"]
        /\ subject' = [subject EXCEPT ![u] = NULL, ![z] = NULL]
    BY <1>5, <2>0 DEF ReaperDestroy, Here
  <2>2. z \in Uthreads \ {u} /\ u = ReaperThr
    BY <1>0, <2>0, <2>1 DEF PlaceOf, Exited
  <2>3. /\ at'[u] = "reaper_loop" /\ at'[z] = "program"
        /\ \A s \in Uthreads \ {u, z} : at'[s] = at[s] /\ subject'[s] = subject[s]
        /\ at' \in [Uthreads -> LifePcs]
        /\ subject' \in [Uthreads -> Uthreads \cup {NULL}]
    BY <1>0, <2>1, <2>2
  <2>4. /\ ut_state'[z] = "NO_STATE" /\ waiters'[z] = <<>>
        /\ \A s \in Uthreads \ {z} : ut_state'[s] = ut_state[s] /\ waiters'[s] = waiters[s]
    BY <2>1, <2>2, LifeObjects DEF Destroy, IInv, TypeOK
  <2>5. Len(<<>>) <= 1
    OBVIOUS
  <2>6. ASSUME NEW s \in Uthreads \ {u, z} PROVE PlaceOf(s)'
    BY <2>3, <2>4 DEF PlacesInv, PlaceOf, Exited
  <2>7. PlaceOf(u)'
    BY <1>0, <2>1, <2>2, <2>3, <2>4 DEF PlaceOf, Exited
  <2>8. PlaceOf(z)'
    BY <2>2, <2>3, <2>4, <2>5 DEF PlaceOf, Exited
  <2> QED BY <2>3, <2>6, <2>7, <2>8 DEF PlacesInv
<1> QED BY <1>1, <1>2, <1>3, <1>4, <1>5 DEF Reaper

\* Only zombies are put on the reap queue.
LEMMA QueueOfOthersStep ==
  ASSUME PlacesInv, QueueOfOthers,
         NEW k \in Lwps, NEW u \in Uthreads, LifeCall(k, u)
  PROVE  QueueOfOthers'
<1>1. ASSUME NEW z \in Uthreads, at[z] \notin ReaperPcs,
             reap_queue' = Append(reap_queue, z)
      PROVE  QueueOfOthers'
  <2>1. z # ReaperThr
    BY <1>1 DEF PlacesInv, PlaceOf, Exited
  <2> QED BY <1>1, <2>1 DEF QueueOfOthers
<1>2. reap_queue' = reap_queue => QueueOfOthers'
  BY DEF QueueOfOthers
<1>3. CASE ExitZombie(k, u)
  <2>1. at[u] = "exit" /\ (reap_queue' = reap_queue \/ reap_queue' = Append(reap_queue, u))
    BY <1>3 DEF ExitZombie, Here, Reaps, utqueue_enqueue
  <2> QED BY <1>1, <1>2, <2>1 DEF ReaperPcs
<1>4. CASE ReaperTake(k, u)
  <2>1. reap_queue # <<>> /\ reap_queue' = Tail(reap_queue)
    BY <1>4 DEF ReaperTake
  <2> QED BY <2>1, HeadTailProperties DEF QueueOfOthers
<1>5. CASE JoinCheck(k, u) \/ DetachCheck(k, u)
  <2>1. subject[u] \in Uthreads
    BY <1>5 DEF JoinCheck, DetachCheck, Here, PlacesInv, PlaceOf, SubjectPcs, ClaimPcs
  <2>2. \/ reap_queue' = reap_queue
        \/ ut_state[subject[u]] = "ZOMBIE" /\ reap_queue' = Append(reap_queue, subject[u])
    BY <1>5 DEF JoinCheck, DetachCheck, Reaps, utqueue_enqueue, UnlocksSubject
  <2>3. ut_state[subject[u]] = "ZOMBIE" => at[subject[u]] \notin ReaperPcs
    BY <2>1 DEF PlacesInv, PlaceOf, Exited, ReaperPcs, ExitedPcs, ReapPcs
  <2> QED BY <1>1, <1>2, <2>1, <2>2, <2>3
<1>6. CASE reap_queue' = reap_queue
  BY <1>2, <1>6
<1>7. \/ reap_queue' = reap_queue
      \/ ExitZombie(k, u) \/ ReaperTake(k, u) \/ JoinCheck(k, u) \/ DetachCheck(k, u)
  BY DEF LifeCall, UthreadExit, UthreadJoin, UthreadDetach, MakeReapable, Reaper,
         LocksReap, UnlocksReap, ExitWake, ExitLeave, Join, JoinReturn, Detach,
         SignalReaper, Signalled, ReapUnlock, ExitBare, UnlocksSubject,
         ReaperWait, ReaperSleep, ReaperDestroy
<1> QED BY <1>3, <1>4, <1>5, <1>6, <1>7

\* Every step.
LEMMA NextPlaces ==
  ASSUME IInv, PlacesInv, QueueOfOthers, DetachedInv,
         outcome = "running", [LifeNext]_allLifeVars
  PROVE  PlacesInv' /\ QueueOfOthers'
<1>1. CASE UNCHANGED allLifeVars
  <2>1. ThreadsKept /\ UNCHANGED <<at, subject, reap_queue>>
    BY <1>1 DEF allLifeVars, allMtxVars, lifeVars, schedVars, threadVars, objVars,
                ThreadsKept
  <2> QED BY <2>1, PlacesKept DEF QueueOfOthers
<1>2. CASE KernelStep /\ UNCHANGED lifeVars
  <2>1. ThreadsKept /\ UNCHANGED <<at, subject, reap_queue>>
    BY <1>2, KernelKeepsThreads DEF lifeVars
  <2> QED BY <2>1, PlacesKept DEF QueueOfOthers
<1>3. ASSUME NEW k \in Lwps, NEW u \in Uthreads,
             \/ UthreadMtxLockReturn(k, u) /\ UNCHANGED lifeVars
             \/ OtherStep(k, u) \/ Relock(k, u)
      PROVE  PlacesInv' /\ QueueOfOthers'
  <2>1. ThreadsKept
    BY <1>3, ClientKeepsThreads DEF OtherStep, Relock, MtxStep, allMtxVars
  <2>2. UNCHANGED <<at, subject, reap_queue>>
    BY <1>3 DEF OtherStep, Relock, lifeVars
  <2> QED BY <2>1, <2>2, PlacesKept DEF QueueOfOthers
<1>4. ASSUME NEW k \in Lwps, NEW u \in Uthreads, LifeCall(k, u)
      PROVE  PlacesInv' /\ QueueOfOthers'
  BY <1>4, ExitPlaces, JoinPlaces, DetachPlaces, ReapablePlaces, ReaperPlaces,
     QueueOfOthersStep DEF LifeCall
<1> QED BY <1>1, <1>2, <1>3, <1>4, LifeSteps

\* At first the first uthread is in the program and the reaper in its loop.
LEMMA InitPlaces == LifeInit => PlacesInv /\ QueueOfOthers
<1> SUFFICES ASSUME LifeInit PROVE PlacesInv /\ QueueOfOthers
  OBVIOUS
<1>1. /\ at = [t \in Uthreads |-> IF t = ReaperThr THEN "reaper" ELSE "program"]
      /\ subject = [t \in Uthreads |-> NULL]
      /\ \A t \in Uthreads : ut_state[t] # "ZOMBIE" /\ waiters[t] = <<>>
  BY LifeObjects DEF LifeInit, MtxInit, SchedInit
<1>2. Len(<<>>) <= 1
  OBVIOUS
<1>3. ASSUME NEW t \in Uthreads PROVE PlaceOf(t)
  BY <1>1, <1>2 DEF PlaceOf, Exited, LifePcs, ReaperPcs, ExitedPcs, ReapPcs,
                    SubjectPcs, ClaimPcs
<1> QED BY <1>1, <1>3 DEF PlacesInv, LifePcs, QueueOfOthers, LifeInit

-----------------------------------------------------------------------------
(* Every call is one that the scheduler allows.                            *)

\* After ReaperWait and until it is asleep the reaper has locked the mutex of
\* reap_cond, and so has who takes it off the queue of reap_cond.  An exited
\* uthread has locked its own ut_pmut, until it leaves its stack or, if it reaps
\* itself, until the end of make_reapable.
HeldPcs == {"signalled", "reaper_unlock", "reaper_sleep"}
OwnPcs == {"exit_wake", "exit_unlock", "exit_leave"}
HoldsOwn(t) == at[t] \in OwnPcs
               \/ (at[t] \in {"signal", "signalled"} /\ subject[t] = t)
HeldOf(t) ==
  /\ at[t] \in HeldPcs => \E l \in Lwps : Holds(l, t, ReapCond)
  /\ HoldsOwn(t) => \E l \in Lwps : Holds(l, t, t)
  /\ \A l \in Lwps :
       at[t] = "gone" /\ OnStack(l, t) =>
         call[t] = "switch" /\ (args[t].pmut = t \/ subject[t] = t)
HeldInv == \A t \in Uthreads : HeldOf(t)

\* Who runs on LWP k has locked there what it has locked.
LEMMA HeldHere ==
  ASSUME IInv, HeldInv, NEW k \in Lwps, NEW u \in Uthreads, OnStack(k, u)
  PROVE  /\ at[u] \in HeldPcs => pmut[ReapCond] = k
         /\ HoldsOwn(u) => pmut[u] = k
<1>1. \A l \in Lwps : OnStack(l, u) => l = k
  BY LifeObjects DEF OnStack, IInv, PlaceInv, LwpInv
<1>2. HeldOf(u)
  BY DEF HeldInv
<1> QED BY <1>1, <1>2 DEF HeldOf, Holds

\* What a step of uthread.c asks of the scheduler, besides mutexes.
ReapObjs == Uthreads \cup {ReapCond}
WakesReaper(k, u) == SignalReaper(k, u) /\ TakeWaiter(k, u, ReapCond, TRUE)
DestroyCall(k, u, thr) ==
  /\ Destroy(k, u, thr)
  /\ outcome' # "freed" => \A l \in Lwps : ~OnStack(l, thr)
SchedCall(k, u) ==
  \/ UNCHANGED schedVars
  \/ \E o \in ReapObjs : LockPmut(k, u, o)
  \/ \E os \in SUBSET (ReapObjs) : Unlocks(k, u, os)
  \/ ReaperSleep(k, u) \/ WakesReaper(k, u)
  \/ \E thr \in Uthreads : WaitForExit(k, u, thr) \/ TakeWaiter(k, u, thr, TRUE)
  \/ \E thr \in Uthreads : DestroyCall(k, u, thr)
  \/ BecomeZombie(k, u)
  \/ LeaveForGood(k, u) /\ pmut[u] = k
  \/ LeaveBare(k, u)

\* A checked pthread_mutex_unlock aborts the process.
Aborts ==
  /\ outcome' # "running"
  /\ UNCHANGED <<threadVars, waiters, runqVars, runq_mtx, lwpVars, panic>>

\* If the one of the subject's ut_pmut does not, it unlocks what the LWP has
\* locked.
LEMMA SubjectUnlocked ==
  ASSUME NEW k \in Lwps, NEW u \in Uthreads, NEW also \in SUBSET Objs,
         UnlocksSubject(k, u, also), Runs(k, u, "client"),
         \A o \in also : pmut[o] = k,
         subject[u] \in Uthreads, outcome = "running"
  PROVE  /\ Unlocks(k, u, also \cup {subject[u]}) \/ Aborts
         /\ UNCHANGED mtxVars
<1>1. CASE pmut[subject[u]] = k
  BY <1>1 DEF UnlocksSubject, Unlocks
<1>2. CASE pmut[subject[u]] # k
  BY <1>2 DEF UnlocksSubject, Fails, Aborts
<1> QED BY <1>1, <1>2

\* uthread_exit: it leaves when it is a zombie without joiner.
LEMMA ExitCalls ==
  ASSUME IInv, PlacesInv, HeldInv, NEW k \in Lwps, NEW u \in Uthreads, UthreadExit(k, u)
  PROVE  /\ Runs(k, u, "client")
         /\ MtxStep(k, u) \/ (UNCHANGED mtxVars /\ SchedCall(k, u))
<1>1. Runs(k, u, "client") /\ PlaceOf(u)
  BY DEF UthreadExit, LocksReap, UnlocksReap, ExitZombie, ExitWake, ExitLeave, Here,
         InProgram, PlacesInv
<1>2. CASE ExitZombie(k, u)
  BY <1>1, <1>2 DEF ExitZombie, SchedCall
<1>3. CASE ExitWake(k, u)
  BY <1>1, <1>3 DEF ExitWake, SchedCall
<1>4. CASE ExitLeave(k, u)
  <2>1. ut_state[u] = "ZOMBIE" /\ waiters[u] = <<>>
    BY <1>1, <1>4 DEF ExitLeave, Here, PlaceOf, Exited, ExitedPcs
  <2>2. LeaveForGood(k, u)
    BY <1>1, <1>4, <2>1 DEF ExitLeave, LeaveForGood
  <2>3. pmut[u] = k
    BY <1>1, <1>4, HeldHere
       DEF ExitLeave, Here, HoldsOwn, OwnPcs, Runs, OnStack
  <2> QED BY <2>3, <1>1, <1>4, <2>2 DEF ExitLeave, SchedCall
<1> QED BY <1>1, <1>2, <1>3, <1>4, ReapMtxSteps DEF UthreadExit

\* uthread_join and uthread_detach.
LEMMA ClaimCalls ==
  ASSUME PlacesInv, NEW k \in Lwps, NEW u \in Uthreads,
         UthreadJoin(k, u) \/ UthreadDetach(k, u),
         outcome = "running"
  PROVE  /\ Runs(k, u, "client")
         /\ MtxStep(k, u) \/ (UNCHANGED mtxVars /\ (SchedCall(k, u) \/ Aborts))
<1>0. \A t \in Uthreads : t \in ReapObjs
  BY DEF ReapObjs
<1>1. Runs(k, u, "client") /\ PlaceOf(u)
  BY DEF UthreadJoin, UthreadDetach, LocksReap, Join, JoinReturn, JoinCheck, Detach,
         DetachCheck, Accepts, Here, InProgram, PlacesInv
<1>2. ASSUME NEW thr \in Uthreads, Join(k, u, thr) \/ Detach(k, u, thr)
      PROVE  UNCHANGED mtxVars /\ SchedCall(k, u)
  BY <1>0, <1>2 DEF Join, Detach, SchedCall
<1>3. CASE JoinReturn(k, u)
  BY <1>1, <1>3 DEF JoinReturn, SchedCall, allMtxVars
<1>4. CASE JoinCheck(k, u)
  <2>1. subject[u] \in Uthreads
    BY <1>1, <1>4 DEF JoinCheck, Here, PlaceOf, SubjectPcs, ClaimPcs
  <2> QED BY <1>0, <1>1, <1>4, <2>1 DEF JoinCheck, SchedCall
<1>5. CASE DetachCheck(k, u)
  <2>1. subject[u] \in Uthreads
    BY <1>1, <1>5 DEF DetachCheck, Here, PlaceOf, SubjectPcs, ClaimPcs
  <2>2. CASE UnlocksSubject(k, u, {})
    <3>1. /\ Unlocks(k, u, {} \cup {subject[u]}) \/ Aborts
          /\ UNCHANGED mtxVars
      BY <1>1, <2>1, <2>2, SubjectUnlocked
    <3>2. {} \cup {subject[u]} \in SUBSET (ReapObjs)
      BY <1>0, <2>1
    <3> QED BY <1>1, <3>1, <3>2 DEF SchedCall
  <2>3. CASE UNCHANGED allMtxVars
    BY <1>1, <2>3 DEF SchedCall, allMtxVars
  <2> QED BY <1>5, <2>2, <2>3 DEF DetachCheck
<1> QED BY <1>1, <1>2, <1>3, <1>4, <1>5, ReapMtxSteps DEF UthreadJoin, UthreadDetach

\* make_reapable and the reaper.
LEMMA ReapCalls ==
  ASSUME IInv, PlacesInv, HeldInv,
         NEW k \in Lwps, NEW u \in Uthreads, MakeReapable(k, u) \/ Reaper(k, u),
         outcome = "running"
  PROVE  /\ Runs(k, u, "client")
         /\ MtxStep(k, u) \/ (UNCHANGED mtxVars /\ (SchedCall(k, u) \/ Aborts))
<1>0. ReapCond \in ReapObjs /\ \A t \in Uthreads : t \in ReapObjs
  BY DEF ReapObjs
<1>1. Runs(k, u, "client") /\ PlaceOf(u)
  BY DEF MakeReapable, Reaper, LocksReap, UnlocksReap, SignalReaper, Signalled,
         ReapUnlock, ExitBare, ReaperWait, ReaperSleep, ReaperTake, ReaperDestroy,
         Here, InProgram, PlacesInv
<1>2. ASSUME NEW also \in SUBSET {ReapCond}, UnlocksSubject(k, u, also),
             \A o \in also : pmut[o] = k, at[u] \in {"signal", "signalled"}
      PROVE  UNCHANGED mtxVars /\ (SchedCall(k, u) \/ Aborts)
  <2>1. subject[u] \in Uthreads
    BY <1>1, <1>2 DEF PlaceOf, SubjectPcs
  <2>2. also \in SUBSET Objs
    BY <1>0, LifeObjects
  <2>3. /\ Unlocks(k, u, also \cup {subject[u]}) \/ Aborts
        /\ UNCHANGED mtxVars
    BY <1>1, <1>2, <2>1, <2>2, SubjectUnlocked
  <2>4. also \cup {subject[u]} \in SUBSET (ReapObjs)
    BY <1>0, <2>1
  <2> QED BY <2>3, <2>4 DEF SchedCall
<1>3. CASE SignalReaper(k, u)
  <2>1. at[u] = "signal"
    BY <1>3 DEF SignalReaper, Here
  <2>2. CASE UnlocksSubject(k, u, {})
    BY <1>1, <1>2, <2>1, <2>2
  <2>3. CASE TakeWaiter(k, u, ReapCond, TRUE) /\ UNCHANGED mtxVars
    BY <1>1, <1>3, <2>3 DEF SchedCall, WakesReaper
  <2> QED BY <1>3, <2>2, <2>3 DEF SignalReaper
<1>4. CASE Signalled(k, u)
  <2>1. at[u] = "signalled" /\ UnlocksSubject(k, u, {ReapCond})
    BY <1>4 DEF Signalled, Here
  <2>4. pmut[ReapCond] = k
    BY <1>1, <2>1, HeldHere DEF HeldPcs, Runs, OnStack
  <2> QED BY <1>1, <1>2, <2>1, <2>4
<1>5. CASE ReapUnlock(k, u)
  BY <1>1, <1>5, ReapMtxSteps DEF ReapUnlock
<1>6. CASE ExitBare(k, u)
  <2>1. ut_state[u] = "ZOMBIE" /\ waiters[u] = <<>>
    BY <1>1, <1>6 DEF ExitBare, Here, PlaceOf, Exited, ExitedPcs
  <2>2. LeaveBare(k, u)
    BY <1>1, <1>6, <2>1 DEF ExitBare, LeaveBare
  <2> QED BY <1>1, <1>6, <2>2 DEF ExitBare, SchedCall
<1>7. CASE ReaperWait(k, u) \/ ReaperSleep(k, u)
  <2>1. UNCHANGED mtxVars
    BY <1>7 DEF ReaperWait, ReaperSleep
  <2> QED BY <1>0, <1>1, <1>7, <2>1 DEF ReaperWait, SchedCall
<1>8. CASE ReaperTake(k, u)
  BY <1>1, <1>8 DEF ReaperTake, SchedCall, allMtxVars
<1>9. CASE ReaperDestroy(k, u)
  <2>1. PICK z \in Uthreads : z = subject[u]
    BY <1>1, <1>9 DEF ReaperDestroy, Here, PlaceOf, SubjectPcs
  <2>2. /\ Destroy(k, u, z) /\ UNCHANGED mtxVars
        /\ (\E l \in Lwps : OnStack(l, z)) => outcome' = "freed"
    BY <1>9, <2>1 DEF ReaperDestroy
  <2>3. DestroyCall(k, u, z)
    BY <2>2 DEF DestroyCall
  <2> QED BY <1>1, <2>2, <2>3 DEF SchedCall
<1> QED BY <1>1, <1>3, <1>4, <1>5, <1>6, <1>7, <1>8, <1>9, ReapMtxSteps
        DEF MakeReapable, Reaper

\* Every step of uthread.c.
LEMMA LifeCalls ==
  ASSUME IInv, PlacesInv, HeldInv,
         NEW k \in Lwps, NEW u \in Uthreads, LifeCall(k, u),
         outcome = "running"
  PROVE  /\ Runs(k, u, "client")
         /\ MtxStep(k, u) \/ (UNCHANGED mtxVars /\ (SchedCall(k, u) \/ Aborts))
BY ExitCalls, ClaimCalls, ReapCalls DEF LifeCall

\* A call of uthread.c keeps the scheduler's invariant, but for the one that
\* frees a stack in use.
LEMMA SchedCallIInv ==
  ASSUME IInv, NEW k \in Lwps, NEW u \in Uthreads, SchedCall(k, u),
         outcome' # "freed"
  PROVE  IInv'
<1>0. ReapObjs \subseteq Objs
  BY LifeObjects DEF ReapObjs
<1>1. CASE UNCHANGED schedVars
  BY <1>1, OrdinaryIInv
<1>2. ASSUME NEW thr \in Uthreads, DestroyCall(k, u, thr)
      PROVE  IInv'
  BY <1>2, DestroyStep DEF DestroyCall
<1>3. CASE LeaveForGood(k, u) /\ pmut[u] = k
  BY <1>3, LeaveForGoodStep
<1> QED BY <1>0, <1>1, <1>2, <1>3, LockPmutStep, TakeWaiterStep, UnlocksStep,
           WaitOnStep, WaitForExitStep, BecomeZombieStep, LeaveBareStep,
           LifeObjects DEF SchedCall, ReaperSleep, WakesReaper

\* It touches neither the LWPs, nor other uthreads' calls, nor mutexes that are
\* locked elsewhere.
LEMMA SchedCallShape ==
  ASSUME TypeOK, NEW k \in Lwps, NEW u \in Uthreads, Runs(k, u, "client"),
         SchedCall(k, u)
  PROVE  ClientShape(k, u)
<1> USE DEF ClientShape, Runs, TypeOK, threadVars, objVars, runqVars, lwpVars
<1>0. ReapObjs \subseteq Objs
  BY LifeObjects DEF ReapObjs
<1>1. ASSUME NEW os \in SUBSET Objs, Unlocks(k, u, os)
      PROVE  ClientShape(k, u)
  BY <1>1 DEF Unlocks
<1>2. ASSUME NEW thr \in Uthreads, WaitForExit(k, u, thr)
      PROVE  ClientShape(k, u)
  BY <1>2 DEF WaitForExit, MayLock, CallsSwitch, Objs
<1>3. ASSUME NEW thr \in Uthreads, Destroy(k, u, thr)
      PROVE  ClientShape(k, u)
  BY <1>3 DEF Destroy
<1>4. BecomeZombie(k, u) => ClientShape(k, u)
  BY DEF BecomeZombie
<1>5. LeaveForGood(k, u) \/ LeaveBare(k, u) => ClientShape(k, u)
  BY DEF LeaveForGood, LeaveBare, CallsSwitch
<1> HIDE DEF ClientShape, Runs, TypeOK
<1> QED BY <1>0, <1>1, <1>2, <1>3, <1>4, <1>5, ClientShapes, LifeObjects
        DEF SchedCall, ReaperSleep, WakesReaper, DestroyCall

\* Of the mutexes and condition variables it touches the queue of reap_cond only.
LEMMA SchedCallAwaits ==
  ASSUME IInv, NEW k \in Lwps, NEW u \in Uthreads, SchedCall(k, u),
         NEW o \in SyncObjs, NEW s \in Uthreads,
         o # ReapCond \/ ~(ReaperSleep(k, u) \/ WakesReaper(k, u))
  PROVE  Awaits(s, o)' <=> Awaits(s, o)
<1> USE DEF threadVars, objVars, lwpVars
<1>0. /\ o \in Objs /\ o \notin Uthreads /\ o # NULL /\ TypeOK
  BY LifeObjects, SchedAssumption DEF Objs, IInv, SchedAssumption
<1>1. ASSUME waiters'[o] = waiters[o], UNCHANGED <<ut_curthr, curlwp>>,
             \/ UNCHANGED <<call, args>>
             \/ call[u] = "client" /\ \E t : CallsSwitch(u, NULL, FALSE, t)
             \/ /\ call[u] = "client" /\ call' = [call EXCEPT ![u] = "wake"]
                /\ args' = args
      PROVE  Awaits(s, o)' <=> Awaits(s, o)
  BY <1>0, <1>1 DEF Awaits, ToBeQueued, CallsSwitch, TypeOK
<1>2. CASE UNCHANGED schedVars
  BY <1>1, <1>2 DEF schedVars
<1>3. ASSUME NEW x \in ReapObjs, LockPmut(k, u, x)
      PROVE  Awaits(s, o)' <=> Awaits(s, o)
  BY <1>1, <1>3 DEF LockPmut
<1>4. ASSUME NEW os, Unlocks(k, u, os)
      PROVE  Awaits(s, o)' <=> Awaits(s, o)
  BY <1>1, <1>4 DEF Unlocks
<1>5. ASSUME NEW thr \in Uthreads, WaitForExit(k, u, thr) \/ Destroy(k, u, thr)
      PROVE  Awaits(s, o)' <=> Awaits(s, o)
  <2>1. CASE WaitForExit(k, u, thr)
    BY <1>0, <1>1, <2>1 DEF WaitForExit, Runs, TypeOK
  <2>2. CASE Destroy(k, u, thr)
    BY <1>0, <1>1, <2>2 DEF Destroy, TypeOK
  <2> QED BY <1>5, <2>1, <2>2
<1>6. CASE BecomeZombie(k, u) \/ LeaveForGood(k, u) \/ LeaveBare(k, u)
  BY <1>1, <1>6 DEF BecomeZombie, LeaveForGood, LeaveBare, Runs
<1>7. CASE WakesReaper(k, u)
  BY <1>7, AwaitsAfterTakeWaiter, LifeObjects DEF WakesReaper
<1>8. CASE ReaperSleep(k, u)
  BY <1>8, AwaitsAfterWaitOn, LifeObjects DEF ReaperSleep
<1>9. ASSUME NEW t \in Uthreads, TakeWaiter(k, u, t, TRUE)
      PROVE  Awaits(s, o)' <=> Awaits(s, o)
  BY <1>0, <1>1, <1>9 DEF TakeWaiter, Runs, TypeOK
<1> QED BY <1>2, <1>3, <1>4, <1>5, <1>6, <1>7, <1>8, <1>9 DEF SchedCall, DestroyCall

-----------------------------------------------------------------------------
(* The mutexes that are held from step to step.                            *)

\* A zombie does not get back on its stack, and a switch that it has called goes
\* on asking for the same.
LEMMA ZombieThroughKernel ==
  ASSUME IInv, KernelStep, NEW l \in Lwps, NEW t \in Uthreads,
         ut_state[t] = "ZOMBIE", OnStack(l, t)'
  PROVE  /\ OnStack(l, t)
         /\ call[t] = "switch" => call'[t] = call[t] /\ args'[t] = args[t]
<1> USE DEF OnStack, threadVars, objVars, runqVars, lwpVars
<1>0. TypeOK /\ LwpInv /\ CallInv /\ t # NULL
  BY LifeObjects DEF IInv, PlaceInv
<1>1. ASSUME NEW k \in Lwps,
             LwpStart(k) \/ LwpPark(k) \/ LwpUnpark(k) \/ SpuriousWakeup(k)
      PROVE  OnStack(l, t) /\ UNCHANGED <<call, args>>
  BY <1>0, <1>1 DEF LwpStart, LwpPark, LwpUnpark, SpuriousWakeup, TypeOK
<1>2. ASSUME NEW k \in Lwps, LwpDispatch(k)
      PROVE  OnStack(l, t) /\ UNCHANGED <<call, args>>
  <2>1. PICK p \in Prios :
          /\ runq_table[p] # <<>>
          /\ ut_curthr' = [ut_curthr EXCEPT ![k] = Head(runq_table[p])]
    BY <1>2 DEF LwpDispatch, FirstNonEmpty
  <2>2. Occurs(runq_table[p], Head(runq_table[p])) /\ Head(runq_table[p]) \in Uthreads
    BY <1>0, <2>1, DequeueQueue DEF TypeOK
  <2>3. Head(runq_table[p]) # t
    BY <2>2 DEF IInv, RunqCoherent
  <2>4. lpc' = [lpc EXCEPT ![k] = "uthread"] /\ UNCHANGED <<call, args>>
    BY <1>2 DEF LwpDispatch
  <2> QED BY <1>0, <2>1, <2>3, <2>4 DEF TypeOK
<1>3. ASSUME NEW k \in Lwps, LwpSwitch(k)
      PROVE  OnStack(l, t) /\ UNCHANGED <<call, args>>
  <2>1. l # k /\ ut_curthr'[l] = ut_curthr[l] /\ UNCHANGED <<call, args>>
    BY <1>0, <1>3 DEF LwpSwitch, TypeOK
  <2>2. \/ lpc' = [lpc EXCEPT ![k] = "search"]
        \/ lpc' \in LwpReleased([lpc EXCEPT ![k] = "search"])
    BY <1>3 DEF LwpSwitch, RunqEnqueue
  <2>3. lpc'[l] = "uthread" => lpc[l] = "uthread"
    BY <1>0, <2>1, <2>2 DEF LwpReleased, TypeOK
  <2> QED BY <2>1, <2>3
<1>4. ASSUME NEW k \in Lwps, NEW u \in Uthreads, UthreadSwitch(k, u)
      PROVE  OnStack(l, t) /\ call'[t] = call[t] /\ args'[t] = args[t]
  <2>1. l # k /\ u # t
    BY <1>0, <1>4 DEF UthreadSwitch, Runs, LwpInv, TypeOK
  <2> QED BY <1>0, <1>4, <2>1 DEF UthreadSwitch, TypeOK
<1>5. ASSUME NEW k \in Lwps, NEW u \in Uthreads,
             UthreadWake(k, u) \/ \E prio \in Prios : UthreadStartOnRunq(k, u, prio)
      PROVE  /\ OnStack(l, t)
             /\ call[t] = "switch" => call'[t] = call[t] /\ args'[t] = args[t]
  <2>1. /\ ut_curthr' = ut_curthr /\ args' = args
        /\ call' = [call EXCEPT ![u] = "client"] /\ call[u] # "switch"
        /\ lpc' = lpc \/ lpc' \in LwpReleased(lpc)
    BY <1>5 DEF UthreadWake, UthreadStartOnRunq, RunqEnqueue, Runs
  <2>2. lpc'[l] = "uthread" => lpc[l] = "uthread"
    BY <1>0, <2>1 DEF LwpReleased, TypeOK
  <2> QED BY <1>0, <2>1, <2>2 DEF TypeOK
<1> QED BY <1>1, <1>2, <1>3, <1>4, <1>5 DEF KernelStep, LwpStep

\* What a uthread has locked stays locked while others run.
LEMMA HeldByStep ==
  ASSUME IInv, HeldInv, NEW k \in Lwps, NEW u \in Uthreads, ClientShape(k, u),
         \A s \in Uthreads \ {u} :
           at'[s] = "program" \/ (at'[s] = at[s] /\ subject'[s] = subject[s]),
         HeldOf(u)'
  PROVE  HeldInv'
<1>1. ASSUME NEW s \in Uthreads \ {u}, at'[s] = at[s], subject'[s] = subject[s]
      PROVE  HeldOf(s)'
  <2>1. HeldOf(s) /\ s \in Objs /\ ReapCond \in Objs
    BY LifeObjects DEF HeldInv
  <2>2. ASSUME NEW o \in {s, ReapCond}, NEW l \in Lwps, Holds(l, s, o)
        PROVE  Holds(l, s, o)'
    BY <2>1, <2>2, HoldsThroughOther
  <2>3. /\ call'[s] = call[s] /\ args'[s] = args[s]
        /\ \A l \in Lwps : OnStack(l, s)' <=> OnStack(l, s)
    BY DEF ClientShape, OnStack
  <2>4. HoldsOwn(s)' <=> HoldsOwn(s)
    BY <1>1 DEF HoldsOwn
  <2>5. at'[s] \in HeldPcs => \E l \in Lwps : Holds(l, s, ReapCond)'
    BY <1>1, <2>1, <2>2 DEF HeldOf
  <2>6. HoldsOwn(s)' => \E l \in Lwps : Holds(l, s, s)'
    BY <2>1, <2>2, <2>4 DEF HeldOf
  <2>7. \A l \in Lwps : at'[s] = "gone" /\ OnStack(l, s)' =>
          call'[s] = "switch" /\ (args'[s].pmut = s \/ subject'[s] = s)
    BY <1>1, <2>1, <2>3 DEF HeldOf
  <2> QED BY <2>5, <2>6, <2>7 DEF HeldOf
<1>2. ASSUME NEW s \in Uthreads \ {u}, at'[s] = "program"
      PROVE  HeldOf(s)'
  BY <1>2 DEF HeldOf, HoldsOwn, HeldPcs, OwnPcs
<1> QED BY <1>1, <1>2 DEF HeldInv

\* A call of uthread.c moves its caller, and whom it destroys.
LEMMA OthersStay ==
  ASSUME PlacesInv, NEW k \in Lwps, NEW u \in Uthreads, LifeCall(k, u),
         NEW s \in Uthreads \ {u}
  PROVE  at'[s] = "program" \/ (at'[s] = at[s] /\ subject'[s] = subject[s])
<1> DEFINE Stays == at'[s] = at[s] /\ subject'[s] = subject[s]
<1>0. /\ at \in [Uthreads -> LifePcs] /\ subject \in [Uthreads -> Uthreads \cup {NULL}]
  BY DEF PlacesInv
<1>1. ASSUME at' = at \/ \E next : Goes(u, next),
             subject' = subject \/ \E z : subject' = [subject EXCEPT ![u] = z]
      PROVE  Stays
  BY <1>0, <1>1 DEF Goes
<1> HIDE DEF Stays
<1>2. UthreadExit(k, u) => Stays
  BY <1>1 DEF UthreadExit, LocksReap, UnlocksReap, ExitZombie, ExitWake, ExitLeave
<1>3. UthreadJoin(k, u) => Stays
  BY <1>1 DEF UthreadJoin, LocksReap, Join, JoinReturn, JoinCheck
<1>4. UthreadDetach(k, u) => Stays
  BY <1>1 DEF UthreadDetach, LocksReap, Detach, DetachCheck, UnlocksSubject
<1>5. MakeReapable(k, u) => Stays
  BY <1>1 DEF MakeReapable, SignalReaper, Signalled, ReapUnlock, UnlocksReap,
              ExitBare, UnlocksSubject
<1>6. Reaper(k, u) /\ ~ReaperDestroy(k, u) => Stays
  BY <1>1 DEF Reaper, LocksReap, UnlocksReap, ReaperWait, ReaperSleep, ReaperTake
<1>7. CASE ReaperDestroy(k, u)
  <2>1. PICK z \in Uthreads : z = subject[u]
    BY <1>7 DEF ReaperDestroy, Here, PlacesInv, PlaceOf, SubjectPcs
  <2>2. /\ at' = [at EXCEPT ![u] = "reaper_loop", ![z] = "program"]
        /\ subject' = [subject EXCEPT ![u] = NULL, ![z] = NULL]
    BY <1>7, <2>1 DEF ReaperDestroy
  <2> QED BY <1>0, <2>1, <2>2
<1> QED BY <1>2, <1>3, <1>4, <1>5, <1>6, <1>7 DEF LifeCall, Stays

\* Unlocking reap_mtx leaves the caller the other mutexes.
LEMMA HoldsThroughReap ==
  ASSUME IInv, NEW k \in Lwps, NEW u \in Uthreads, NEW pc, NEW next,
         UnlocksReap(k, u, pc, next), NEW o \in Objs \ {ReapMtx}, pmut[o] = k
  PROVE  Holds(k, u, o)'
<1>0. TypeOK /\ Runs(k, u, "client") /\ ReapMtx \in Objs
  BY LifeObjects DEF IInv, UnlocksReap, Here, InProgram
<1>1. UNCHANGED schedVars \/ TakeWaiter(k, u, ReapMtx, FALSE)
  BY DEF UnlocksReap, UthreadMtxUnlock, MtxRelease
<1>2. CASE UNCHANGED schedVars
  BY <1>0, <1>2 DEF schedVars, threadVars, objVars, lwpVars, Holds, OnStack, Runs
<1>3. CASE TakeWaiter(k, u, ReapMtx, FALSE)
  BY <1>0, <1>3 DEF TakeWaiter, Holds, OnStack, Runs, lwpVars, TypeOK
<1> QED BY <1>1, <1>2, <1>3

\* The caller of uthread.c.
LEMMA CallerHolds ==
  ASSUME IInv, PlacesInv, HeldInv,
         NEW k \in Lwps, NEW u \in Uthreads, LifeCall(k, u)
  PROVE  HeldOf(u)'
<1> USE DEF HeldPcs, OwnPcs, HoldsOwn, HeldOf
<1> DEFINE Quiet == /\ at'[u] \notin HeldPcs \cup {"gone"}
                    /\ ~HoldsOwn(u)'
<1>0. /\ TypeOK /\ at \in [Uthreads -> LifePcs] /\ PlaceOf(u)
      /\ subject \in [Uthreads -> Uthreads \cup {NULL}]
      /\ ReapMtx \in Objs /\ ReapCond \in Objs /\ ReapMtx # ReapCond
      /\ u \in Objs /\ u # ReapMtx /\ u # ReapCond
  BY LifeObjects DEF IInv, PlacesInv
<1>1. /\ Runs(k, u, "client") => OnStack(k, u)
      /\ \A pc : Here(k, u, pc) => Runs(k, u, "client") /\ at[u] = pc
  BY DEF Runs, OnStack, Here, InProgram
<1>2. ASSUME Quiet PROVE HeldOf(u)'
  BY <1>2
<1>3. ASSUME NEW next, Goes(u, next) PROVE at'[u] = next
  BY <1>0, <1>3 DEF Goes
<1>4. CASE ExitZombie(k, u)
  <2>1. /\ Runs(k, u, "client") /\ BecomeZombie(k, u)
        /\ at'[u] \in {"signal", "exit_unlock", "exit_wake"}
    BY <1>1, <1>3, <1>4 DEF ExitZombie
  <2>2. Holds(k, u, u)'
    BY <1>0, <2>1 DEF BecomeZombie, Holds, OnStack, Runs, lwpVars, TypeOK
  <2> QED BY <2>1, <2>2
<1>5. CASE ExitWake(k, u)
  <2>1. /\ Runs(k, u, "client") /\ TakeWaiter(k, u, u, TRUE)
        /\ at'[u] = "exit_unlock"
    BY <1>1, <1>3, <1>5 DEF ExitWake
  <2>2. Holds(k, u, u)'
    BY <1>0, <2>1 DEF TakeWaiter, Holds, OnStack, Runs, lwpVars, TypeOK
  <2> QED BY <2>1, <2>2
<1>6. CASE UnlocksReap(k, u, "exit_unlock", "exit_leave")
  <2>1. at'[u] = "exit_leave" /\ at[u] = "exit_unlock" /\ OnStack(k, u)
    BY <1>1, <1>3, <1>6 DEF UnlocksReap
  <2>2. Holds(k, u, u)'
    BY <1>0, <1>6, <2>1, HeldHere, HoldsThroughReap
  <2> QED BY <2>1, <2>2
<1>7. CASE ExitLeave(k, u)
  <2>1. at'[u] = "gone" /\ CallsSwitch(u, NULL, FALSE, u)
    BY <1>3, <1>7 DEF ExitLeave
  <2>2. call'[u] = "switch" /\ args'[u].pmut = u
    BY <1>0, <2>1 DEF CallsSwitch, TypeOK
  <2> QED BY <2>1, <2>2
<1>8. CASE ExitBare(k, u)
  <2>1. /\ at'[u] = "gone" /\ CallsSwitch(u, NULL, FALSE, NULL)
        /\ at[u] = "exit_bare" /\ subject' = subject
    BY <1>1, <1>3, <1>8 DEF ExitBare
  <2>2. call'[u] = "switch" /\ subject'[u] = u
    BY <1>0, <2>1 DEF CallsSwitch, TypeOK, PlaceOf
  <2> QED BY <2>1, <2>2
<1>9. CASE SignalReaper(k, u) /\ ~UnlocksSubject(k, u, {})
  <2>1. /\ Runs(k, u, "client") /\ TakeWaiter(k, u, ReapCond, TRUE)
        /\ at'[u] = "signalled" /\ at[u] = "signal" /\ subject' = subject
    BY <1>1, <1>3, <1>9 DEF SignalReaper
  <2>2. Holds(k, u, ReapCond)'
    BY <1>0, <2>1 DEF TakeWaiter, Holds, OnStack, Runs, lwpVars, TypeOK
  <2>3. subject[u] = u => pmut[u] = k
    BY <1>1, <2>1, HeldHere
  <2>4. subject[u] = u => Holds(k, u, u)'
    BY <1>0, <2>1, <2>3 DEF TakeWaiter, Holds, OnStack, Runs, lwpVars, TypeOK
  <2> QED BY <2>1, <2>2, <2>4
<1>10. CASE ReaperWait(k, u)
  <2>1. /\ Runs(k, u, "client") /\ LockPmut(k, u, ReapCond)
        /\ at'[u] = "reaper_unlock"
    BY <1>1, <1>3, <1>10 DEF ReaperWait
  <2>2. Holds(k, u, ReapCond)'
    BY <1>0, <2>1 DEF LockPmut, Holds, OnStack, Runs, lwpVars, threadVars, TypeOK
  <2> QED BY <2>1, <2>2
<1>11. CASE UnlocksReap(k, u, "reaper_unlock", "reaper_sleep")
  <2>1. at'[u] = "reaper_sleep" /\ at[u] = "reaper_unlock" /\ OnStack(k, u)
    BY <1>1, <1>3, <1>11 DEF UnlocksReap
  <2>2. Holds(k, u, ReapCond)'
    BY <1>0, <1>11, <2>1, HeldHere, HoldsThroughReap
  <2> QED BY <2>1, <2>2
<1>12. ASSUME at'[u] \notin HeldPcs \cup OwnPcs \cup {"gone", "signal", "signalled"}
       PROVE  Quiet
  BY <1>12
<1>13. ASSUME at'[u] = "signal", subject'[u] # u
       PROVE  Quiet
  BY <1>13
<1> HIDE DEF Quiet
<1> HIDE DEF HeldOf, HoldsOwn
<1>14. CASE LocksReap(k, u, "program", "exit")
  BY <1>2, <1>3, <1>12, <1>14 DEF LocksReap
<1>15. CASE UthreadJoin(k, u)
  <2>1. ASSUME NEW thr \in Uthreads, Join(k, u, thr)
        PROVE  at'[u] \in {"joined", "join_reap"}
    BY <1>3, <2>1 DEF Join
  <2>2. JoinReturn(k, u) \/ LocksReap(k, u, "join_reap", "join_check")
          => at'[u] \in {"join_reap", "join_check", "program"}
    BY <1>3 DEF JoinReturn, LocksReap
  <2>3. JoinCheck(k, u) =>
          /\ at'[u] \in {"signal", "reap_unlock"}
          /\ subject'[u] # u
    BY <1>0, <1>1, <1>3 DEF JoinCheck, PlaceOf, ClaimPcs
  <2> QED BY <1>2, <1>12, <1>13, <1>15, <2>1, <2>2, <2>3 DEF UthreadJoin
<1>16. CASE UthreadDetach(k, u)
  <2>1. ASSUME NEW thr \in Uthreads, Detach(k, u, thr)
        PROVE  at'[u] \in {"program", "detach_reap"}
    BY <1>1, <1>3, <2>1 DEF Detach, Accepts
  <2>2. LocksReap(k, u, "detach_reap", "detach_check") => at'[u] = "detach_check"
    BY <1>3 DEF LocksReap
  <2>3. DetachCheck(k, u) =>
          /\ at'[u] \in {"signal", "reap_unlock"}
          /\ subject'[u] # u
    BY <1>0, <1>1, <1>3 DEF DetachCheck, UnlocksSubject, PlaceOf, ClaimPcs
  <2> QED BY <1>2, <1>12, <1>13, <1>16, <2>1, <2>2, <2>3 DEF UthreadDetach
<1>17. CASE \/ SignalReaper(k, u) /\ UnlocksSubject(k, u, {})
            \/ Signalled(k, u) \/ ReapUnlock(k, u)
  <2>1. at'[u] \in {"reap_unlock", "exit_bare", "program"}
    BY <1>3, <1>17 DEF Signalled, ReapUnlock, UnlocksReap, UnlocksSubject
  <2> QED BY <1>2, <1>12, <2>1
<1>18. CASE \/ LocksReap(k, u, "reaper", "reaper_loop") \/ ReaperSleep(k, u)
            \/ ReaperTake(k, u)
  <2>1. at'[u] \in {"reaper_loop", "reaper", "reaper_destroy"}
    BY <1>3, <1>18 DEF LocksReap, ReaperSleep, ReaperTake
  <2> QED BY <1>2, <1>12, <2>1
<1>19. CASE ReaperDestroy(k, u)
  <2>1. PICK z \in Uthreads \ {u} : z = subject[u]
    BY <1>0, <1>1, <1>19 DEF ReaperDestroy, PlaceOf, SubjectPcs
  <2>2. at' = [at EXCEPT ![u] = "reaper_loop", ![z] = "program"]
    BY <1>19, <2>1 DEF ReaperDestroy
  <2>3. at'[u] = "reaper_loop"
    BY <1>0, <2>1, <2>2
  <2> QED BY <1>2, <1>12, <2>3
<1> QED BY <1>4, <1>5, <1>6, <1>7, <1>8, <1>9, <1>10, <1>11, <1>14, <1>15, <1>16,
           <1>17, <1>18, <1>19
        DEF LifeCall, UthreadExit, MakeReapable, Reaper

\* Every step of uthread.c.
LEMMA LifeCallHeld ==
  ASSUME IInv, PlacesInv, HeldInv,
         NEW k \in Lwps, NEW u \in Uthreads, LifeCall(k, u),
         outcome = "running", outcome' = "running"
  PROVE  HeldInv'
<1>1. Runs(k, u, "client") /\ TypeOK
  BY LifeCalls DEF IInv
<1>2. ClientShape(k, u)
  BY <1>1, LifeCalls, ClientShapes, SchedCallShape DEF Aborts
<1> QED BY <1>2, OthersStay, CallerHolds, HeldByStep

\* Every step.
LEMMA NextHeld ==
  ASSUME IInv, PlacesInv, HeldInv,
         outcome = "running", outcome' = "running", [LifeNext]_allLifeVars
  PROVE  HeldInv'
<1>0. TypeOK /\ ReapCond \in Objs /\ \A s \in Uthreads : s \in Objs
  BY LifeObjects DEF IInv
<1>1. ASSUME UNCHANGED <<call, args, pmut, lpc, ut_curthr, at, subject>>
      PROVE  HeldInv'
  BY <1>1 DEF HeldInv, HeldOf, HoldsOwn, Holds, OnStack
<1>2. CASE UNCHANGED allLifeVars
  BY <1>1, <1>2 DEF allLifeVars, allMtxVars, lifeVars, schedVars, threadVars,
                    objVars, lwpVars
<1>3. CASE KernelStep /\ UNCHANGED lifeVars
  <2>1. ASSUME NEW s \in Uthreads PROVE HeldOf(s)'
    <3>1. HeldOf(s) /\ at'[s] = at[s] /\ subject'[s] = subject[s]
      BY <1>3 DEF HeldInv, lifeVars
    <3>2. ASSUME NEW o \in {s, ReapCond}, NEW l \in Lwps, Holds(l, s, o)
          PROVE  Holds(l, s, o)'
      BY <1>0, <1>3, <3>2, HoldsThroughKernel
    <3>3. ASSUME NEW l \in Lwps, at[s] = "gone", OnStack(l, s)'
          PROVE  call'[s] = "switch" /\ (args'[s].pmut = s \/ subject'[s] = s)
      <4>1. ut_state[s] = "ZOMBIE"
        BY <3>3 DEF PlacesInv, PlaceOf, Exited, ExitedPcs
      <4> QED BY <1>3, <3>1, <3>3, <4>1, ZombieThroughKernel DEF HeldOf
    <3>4. HoldsOwn(s)' <=> HoldsOwn(s)
      BY <3>1 DEF HoldsOwn
    <3>5. at'[s] \in HeldPcs => \E l \in Lwps : Holds(l, s, ReapCond)'
      BY <3>1, <3>2 DEF HeldOf
    <3>6. HoldsOwn(s)' => \E l \in Lwps : Holds(l, s, s)'
      BY <3>1, <3>2, <3>4 DEF HeldOf
    <3> QED BY <3>1, <3>3, <3>5, <3>6 DEF HeldOf
  <2> QED BY <2>1 DEF HeldInv
<1>4. ASSUME NEW k \in Lwps, NEW u \in Uthreads,
             UthreadMtxLockReturn(k, u), UNCHANGED lifeVars
      PROVE  HeldInv'
  BY <1>1, <1>4 DEF UthreadMtxLockReturn, lifeVars, schedVars, threadVars, objVars,
                    lwpVars
<1>5. ASSUME NEW k \in Lwps, NEW u \in Uthreads, OtherStep(k, u)
      PROVE  HeldInv'
  <2>1. ClientShape(k, u)
    BY <1>0, <1>5, ClientShapes DEF OtherStep
  <2>2. at' = at /\ subject' = subject /\ at[u] = "program"
    BY <1>5 DEF OtherStep, lifeVars, Here
  <2>3. HeldOf(u)'
    BY <2>2 DEF HeldOf, HoldsOwn, HeldPcs, OwnPcs
  <2> QED BY <2>1, <2>2, <2>3, HeldByStep
<1>6. ASSUME NEW k \in Lwps, NEW u \in Uthreads, Relock(k, u)
      PROVE  FALSE
  BY <1>6 DEF Relock
<1> QED BY <1>2, <1>3, <1>4, <1>5, <1>6, LifeCallHeld, LifeSteps

-----------------------------------------------------------------------------
(* The invariant.                                                          *)

\* A call of uthread.c keeps the mutexes' invariant.
LEMMA SchedCallMInv ==
  ASSUME IInv, MInv, NEW k \in Lwps, NEW u \in Uthreads, SchedCall(k, u),
         UNCHANGED mtxVars
  PROVE  MInv'
<1>1. ASSUME NEW m \in Mutexes, NEW s \in Uthreads
      PROVE  Awaits(s, m)' <=> Awaits(s, m)
  BY SchedCallAwaits, LifeObjects, MutexesDistinct
<1> QED BY <1>1, OwnerKept

\* The scheduler's invariant and the mutexes', as long as the process runs.
LEMMA NextLifeSched ==
  ASSUME IInv, MInv, PlacesInv, HeldInv,
         outcome = "running", outcome' = "running", [LifeNext]_allLifeVars
  PROVE  IInv' /\ MInv'
<1>1. CASE UNCHANGED allLifeVars
  <2>1. UNCHANGED schedVars /\ UNCHANGED allMtxVars
    BY <1>1 DEF allLifeVars, allMtxVars
  <2> QED BY <2>1, OrdinaryIInv, NextMInv
<1>2. CASE ~panic /\ KernelStep /\ UNCHANGED mtxVars
  <2>1. OrdinaryNext /\ MtxNext
    BY <1>2, KernelIsOrdinary DEF MtxNext
  <2> QED BY <2>1, OrdinaryIInv, NextMInv
<1>3. ASSUME ~panic, NEW k \in Lwps, NEW u \in Uthreads, MtxStep(k, u)
      PROVE  IInv' /\ MInv'
  <2>1. MtxNext /\ (OrdinaryNext \/ UNCHANGED schedVars)
    BY <1>3, MtxStepIsOrdinary DEF MtxNext
  <2> QED BY <2>1, OrdinaryIInv, NextMInv
<1>4. ASSUME ~panic, NEW k \in Lwps, NEW u \in Uthreads, OtherStep(k, u)
      PROVE  IInv' /\ MInv'
  <2>1. ProgramStep(k, u) /\ UNCHANGED mtxVars
    BY <1>4 DEF OtherStep, ProgramStep, Here, InProgram
  <2>2. OrdinaryNext /\ MtxNext
    BY <1>4, <2>1, ProgramIsOrdinary DEF MtxNext
  <2> QED BY <2>2, OrdinaryIInv, NextMInv
<1>5. ASSUME ~panic, NEW k \in Lwps, NEW u \in Uthreads, LifeCall(k, u)
      PROVE  IInv' /\ MInv'
  BY <1>3, <1>5, LifeCalls, SchedCallIInv, SchedCallMInv DEF Aborts
<1>6. ASSUME NEW k \in Lwps, NEW u \in Uthreads, Relock(k, u)
      PROVE  FALSE
  BY <1>6 DEF Relock
<1> QED BY <1>1, <1>2, <1>3, <1>4, <1>5, <1>6, LifeSteps DEF MtxStep

\* LifeTypeOK of what PlacesInv does not describe.
FieldsInv ==
  /\ ut_detached \in [Uthreads -> BOOLEAN]
  /\ claimed \subseteq Uthreads
  /\ outcome \in Outcomes

\* The fields keep their types.
LEMMA NextFields ==
  ASSUME FieldsInv, PlacesInv, [LifeNext]_allLifeVars
  PROVE  FieldsInv'
<1> USE DEF FieldsInv, Outcomes
<1>1. CASE UNCHANGED lifeVars
  BY <1>1 DEF lifeVars
<1>2. ASSUME NEW k \in Lwps, NEW u \in Uthreads, Relock(k, u)
      PROVE  FieldsInv'
  BY <1>2 DEF Relock
<1>3. ASSUME NEW k \in Lwps, NEW u \in Uthreads, LifeCall(k, u)
      PROVE  FieldsInv'
  <2>1. at[u] = "reaper_destroy" => subject[u] \in Uthreads
    BY DEF PlacesInv, PlaceOf, SubjectPcs
  <2>2. UthreadExit(k, u) => FieldsInv'
    BY DEF UthreadExit, LocksReap, UnlocksReap, ExitZombie, ExitWake, ExitLeave,
           Reaps, Fails
  <2>3. UthreadJoin(k, u) => FieldsInv'
    BY DEF UthreadJoin, LocksReap, Join, JoinReturn, JoinCheck, MarksDetached,
           Reaps, Fails
  <2>4. UthreadDetach(k, u) => FieldsInv'
    BY DEF UthreadDetach, LocksReap, Detach, DetachCheck, MarksDetached,
           UnlocksSubject, Reaps, Fails
  <2>5. MakeReapable(k, u) => FieldsInv'
    BY DEF MakeReapable, SignalReaper, Signalled, ReapUnlock, UnlocksReap, ExitBare,
           UnlocksSubject, Fails
  <2>6. Reaper(k, u) => FieldsInv'
    BY <2>1 DEF Reaper, LocksReap, UnlocksReap, ReaperWait, ReaperSleep, ReaperTake,
                ReaperDestroy, Here, Fails
  <2> QED BY <1>3, <2>2, <2>3, <2>4, <2>5, <2>6 DEF LifeCall
<1>4. UNCHANGED allLifeVars => UNCHANGED lifeVars
  BY DEF allLifeVars
<1> QED BY <1>1, <1>2, <1>3, <1>4, LifeSteps DEF OtherStep

\* Who marks a uthread detached finds nobody waiting for it, and nobody waits for
\* one that is marked: a zombie whose ut_pmut is free has woken its joiner.
LEMMA NextDetached ==
  ASSUME IInv, PlacesInv, HeldInv, FieldsInv, DetachedInv,
         outcome = "running", [LifeNext]_allLifeVars
  PROVE  DetachedInv'
<1>0. ut_detached \in [Uthreads -> BOOLEAN]
  BY DEF FieldsInv
<1>1. ASSUME ThreadsKept, UNCHANGED ut_detached
      PROVE  DetachedInv'
  BY <1>1 DEF DetachedInv, ThreadsKept
<1>2. ASSUME NEW thr \in Uthreads, waiters[thr] = <<>>, MarksDetached(thr),
             ThreadsKept
      PROVE  DetachedInv'
  BY <1>0, <1>2 DEF MarksDetached, DetachedInv, ThreadsKept
<1>3. ASSUME NEW k \in Lwps, NEW u \in Uthreads, UthreadExit(k, u)
      PROVE  DetachedInv'
  <2>1. CASE \/ LocksReap(k, u, "program", "exit")
             \/ UnlocksReap(k, u, "exit_unlock", "exit_leave")
    <3>1. ThreadsKept /\ UNCHANGED ut_detached
      BY <2>1, ReapMtxSteps, ClientKeepsThreads DEF LocksReap, UnlocksReap
    <3> QED BY <1>1, <3>1
  <2>2. CASE ExitZombie(k, u) \/ ExitLeave(k, u)
    <3>1. UNCHANGED <<waiters, ut_detached>>
      BY <2>2 DEF ExitZombie, ExitLeave, BecomeZombie, objVars
    <3> QED BY <3>1 DEF DetachedInv
  <2>3. CASE ExitWake(k, u)
    <3>1. /\ UNCHANGED ut_detached /\ waiters[u] # <<>>
          /\ waiters' = [waiters EXCEPT ![u] = Tail(@)]
      BY <2>3 DEF ExitWake, TakeWaiter
    <3>2. waiters \in [Objs -> Seq(Uthreads)] /\ Uthreads \subseteq Objs
      BY LifeObjects DEF IInv, TypeOK
    <3> QED BY <3>1, <3>2 DEF DetachedInv
  <2> QED BY <1>3, <2>1, <2>2, <2>3 DEF UthreadExit
<1>4. ASSUME NEW k \in Lwps, NEW u \in Uthreads, UthreadJoin(k, u)
      PROVE  DetachedInv'
  <2>1. ASSUME NEW thr \in Uthreads, Join(k, u, thr)
        PROVE  DetachedInv'
    <3>1. waiters[thr] = <<>> /\ ~ut_detached[thr]
      BY <2>1 DEF Join, Accepts
    <3>2. CASE WaitForExit(k, u, thr) /\ UNCHANGED ut_detached
      <4>1. waiters' = [waiters EXCEPT ![thr] = utqueue_enqueue(@, u)]
        BY <3>2 DEF WaitForExit
      <4>2. waiters \in [Objs -> Seq(Uthreads)] /\ Uthreads \subseteq Objs
        BY LifeObjects DEF IInv, TypeOK
      <4>3. \A s \in Uthreads \ {thr} : waiters'[s] = waiters[s]
        BY <4>1, <4>2
      <4> QED BY <3>1, <3>2, <4>3 DEF DetachedInv
    <3>3. CASE UNCHANGED schedVars /\ MarksDetached(thr)
      BY <1>2, <3>1, <3>3, ClientKeepsThreads
    <3> QED BY <2>1, <3>2, <3>3 DEF Join
  <2>2. CASE JoinReturn(k, u)
    <3>1. PICK thr \in Uthreads : thr = subject[u]
      BY <2>2 DEF JoinReturn, Here, PlacesInv, PlaceOf, SubjectPcs, ClaimPcs
    <3>2. /\ pmut[thr] = NULL /\ UNCHANGED allMtxVars
          /\ \/ ut_state[thr] = "ZOMBIE" /\ MarksDetached(thr)
             \/ UNCHANGED ut_detached
      BY <2>2, <3>1 DEF JoinReturn
    <3>3. ThreadsKept
      BY <3>2, ClientKeepsThreads DEF allMtxVars
    <3>4. at[thr] # "exit_wake"
      BY <3>2, LifeObjects DEF HeldInv, HeldOf, HoldsOwn, OwnPcs, Holds
    <3>5. ut_state[thr] = "ZOMBIE" => waiters[thr] = <<>>
      BY <3>4 DEF PlacesInv, PlaceOf
    <3> QED BY <1>1, <1>2, <3>2, <3>3, <3>5
  <2>3. CASE LocksReap(k, u, "join_reap", "join_check")
    <3>1. ThreadsKept /\ UNCHANGED ut_detached
      BY <2>3, ReapMtxSteps, ClientKeepsThreads DEF LocksReap
    <3> QED BY <1>1, <3>1
  <2>4. CASE JoinCheck(k, u)
    <3>1. UNCHANGED <<waiters, ut_detached>>
      BY <2>4 DEF JoinCheck, LockPmut, schedVars, objVars
    <3> QED BY <3>1 DEF DetachedInv
  <2> QED BY <1>4, <2>1, <2>2, <2>3, <2>4 DEF UthreadJoin
<1>5. ASSUME NEW k \in Lwps, NEW u \in Uthreads, UthreadDetach(k, u)
      PROVE  DetachedInv'
  <2>1. ASSUME NEW thr \in Uthreads, Detach(k, u, thr)
        PROVE  DetachedInv'
    <3>1. waiters[thr] = <<>> /\ MarksDetached(thr) /\ thr \in Objs
      BY <2>1, LifeObjects DEF Detach, Accepts
    <3>2. LockPmut(k, u, thr) \/ UNCHANGED schedVars
      BY <2>1 DEF Detach
    <3>3. ThreadsKept
      BY <3>1, <3>2, ClientKeepsThreads
    <3> QED BY <1>2, <3>1, <3>3
  <2>2. CASE LocksReap(k, u, "detach_reap", "detach_check")
    <3>1. ThreadsKept /\ UNCHANGED ut_detached
      BY <2>2, ReapMtxSteps, ClientKeepsThreads DEF LocksReap
    <3> QED BY <1>1, <3>1
  <2>3. CASE DetachCheck(k, u)
    <3>1. UNCHANGED <<waiters, ut_detached>>
      BY <2>3 DEF DetachCheck, UnlocksSubject, allMtxVars, schedVars, objVars
    <3> QED BY <3>1 DEF DetachedInv
  <2> QED BY <1>5, <2>1, <2>2, <2>3 DEF UthreadDetach
<1>6. ASSUME NEW k \in Lwps, NEW u \in Uthreads, MakeReapable(k, u)
      PROVE  DetachedInv'
  <2>1. UNCHANGED ut_detached
    BY <1>6 DEF MakeReapable, SignalReaper, Signalled, ReapUnlock, UnlocksReap,
                ExitBare, UnlocksSubject
  <2>2. CASE ReapUnlock(k, u)
    <3>1. ThreadsKept
      BY <2>2, ReapMtxSteps, ClientKeepsThreads DEF ReapUnlock
    <3> QED BY <1>1, <2>1, <3>1
  <2>3. CASE TakeWaiter(k, u, ReapCond, TRUE)
    BY <1>1, <2>1, <2>3, ClientKeepsThreads
  <2>4. \/ UNCHANGED waiters \/ ReapUnlock(k, u)
        \/ TakeWaiter(k, u, ReapCond, TRUE)
    BY <1>6 DEF MakeReapable, SignalReaper, Signalled, ExitBare, UnlocksSubject,
                objVars
  <2> QED BY <2>1, <2>2, <2>3, <2>4 DEF DetachedInv
<1>7. ASSUME NEW k \in Lwps, NEW u \in Uthreads, Reaper(k, u)
      PROVE  DetachedInv'
  <2>1. CASE ReaperDestroy(k, u)
    <3>1. PICK z \in Uthreads : z = subject[u]
      BY <2>1 DEF ReaperDestroy, Here, PlacesInv, PlaceOf, SubjectPcs
    <3>2. /\ waiters' = [waiters EXCEPT ![z] = <<>>]
          /\ ut_detached' = [ut_detached EXCEPT ![z] = FALSE]
      BY <2>1, <3>1 DEF ReaperDestroy, Destroy
    <3>3. waiters \in [Objs -> Seq(Uthreads)] /\ Uthreads \subseteq Objs
      BY LifeObjects DEF IInv, TypeOK
    <3> QED BY <1>0, <3>2, <3>3 DEF DetachedInv
  <2>2. CASE \/ LocksReap(k, u, "reaper", "reaper_loop")
             \/ UnlocksReap(k, u, "reaper_unlock", "reaper_sleep")
    <3>1. ThreadsKept /\ UNCHANGED ut_detached
      BY <2>2, ReapMtxSteps, ClientKeepsThreads DEF LocksReap, UnlocksReap
    <3> QED BY <1>1, <3>1
  <2>3. CASE ReaperWait(k, u) \/ ReaperSleep(k, u) \/ ReaperTake(k, u)
    <3>1. UNCHANGED <<waiters, ut_detached>>
      BY <2>3 DEF ReaperWait, ReaperSleep, ReaperTake, LockPmut, WaitOn,
                  allMtxVars, schedVars, objVars
    <3> QED BY <3>1 DEF DetachedInv
  <2> QED BY <1>7, <2>1, <2>2, <2>3 DEF Reaper
<1>8. CASE UNCHANGED allLifeVars
  BY <1>8 DEF DetachedInv, allLifeVars, allMtxVars, schedVars, objVars, lifeVars
<1>9. CASE KernelStep /\ UNCHANGED lifeVars
  BY <1>1, <1>9, KernelKeepsThreads DEF lifeVars
<1>10. ASSUME NEW k \in Lwps, NEW u \in Uthreads,
              \/ UthreadMtxLockReturn(k, u) /\ UNCHANGED lifeVars
              \/ OtherStep(k, u) \/ Relock(k, u)
       PROVE  DetachedInv'
  <2>1. UNCHANGED ut_detached
    BY <1>10 DEF OtherStep, Relock, lifeVars
  <2> QED BY <1>1, <1>10, <2>1, ClientKeepsThreads
          DEF OtherStep, Relock, MtxStep, allMtxVars
<1> QED BY <1>3, <1>4, <1>5, <1>6, <1>7, <1>8, <1>9, <1>10, LifeSteps DEF LifeCall

\* The scheduler's and the mutexes' invariants hold while the process runs.
LifeInv ==
  /\ PlacesInv /\ QueueOfOthers /\ FieldsInv /\ DetachedInv
  /\ outcome = "running" => IInv /\ MInv /\ HeldInv

\* At first everything is in order.
LEMMA InitLifeInv == LifeInit => LifeInv
<1> SUFFICES ASSUME LifeInit PROVE LifeInv
  OBVIOUS
<1>1. IInv /\ MInv
  BY InitMInv, InitIInv DEF LifeInit, MtxInit
<1>2. HeldInv
  BY DEF LifeInit, HeldInv, HeldOf, HoldsOwn, HeldPcs, OwnPcs
<1>3. FieldsInv
  BY LifeObjects, SchedAssumption
     DEF LifeInit, FieldsInv, Outcomes, Created, SchedAssumption
<1>4. DetachedInv
  BY LifeObjects DEF LifeInit, MtxInit, SchedInit, DetachedInv
<1> QED BY <1>1, <1>2, <1>3, <1>4, InitPlaces DEF LifeInv

\* A stopped process stays as it is; a running one keeps the invariant.
LEMMA NextLifeInv == LifeInv /\ [LifeNext]_allLifeVars => LifeInv'
<1> SUFFICES ASSUME LifeInv, [LifeNext]_allLifeVars
             PROVE  LifeInv'
  OBVIOUS
<1>1. FieldsInv'
  BY NextFields DEF LifeInv
<1>2. CASE outcome = "running"
  BY <1>1, <1>2, NextPlaces, NextHeld, NextLifeSched, NextDetached DEF LifeInv
<1>3. CASE outcome # "running"
  <2>1. UNCHANGED allLifeVars
    BY <1>3, LifeSteps
  <2>2. ThreadsKept /\ UNCHANGED <<at, subject, ut_detached, reap_queue, outcome>>
    BY <2>1 DEF allLifeVars, allMtxVars, lifeVars, schedVars, threadVars, objVars,
                ThreadsKept
  <2>3. DetachedInv'
    BY <2>2 DEF LifeInv, DetachedInv, ThreadsKept
  <2> QED BY <1>1, <1>3, <2>2, <2>3, PlacesKept DEF LifeInv, QueueOfOthers
<1> QED BY <1>2, <1>3

\* The code of uthread.c keeps the scheduler's invariant for as long as the
\* process runs.
LEMMA LifeInvariance == LifeSpec => []LifeInv
<1>1. LifeInit => LifeInv
  BY InitLifeInv
<1>2. LifeInv /\ [LifeNext]_allLifeVars => LifeInv'
  BY NextLifeInv
<1> QED BY <1>1, <1>2, PTL DEF LifeSpec

\* Who is where in uthread.c, and the fields of uthread_t, keep their types.
THEOREM LifeTypeCorrect == LifeSpec => []LifeTypeOK
<1>1. LifeInv => LifeTypeOK
  <2> SUFFICES ASSUME LifeInv PROVE LifeTypeOK
    OBVIOUS
  <2>1. reap_queue \in Seq(Uthreads)
    BY DEF LifeInv, QueueOfOthers
  <2> QED BY <2>1 DEF LifeInv, PlacesInv, FieldsInv, LifeTypeOK
<1> QED BY <1>1, LifeInvariance, PTL

\* What the scheduler and the mutexes promise by themselves.
SchedulerSound ==
  /\ StackExclusive /\ RunqCoherent /\ RunqSizeExact
  /\ HandedMutexHeld /\ WaiterAccounted
MutexesSound == MutualExclusion /\ HandoffDelivered /\ FreeMutexHasNoWaiter

\* uthread.c breaks none of it, whatever its program creates, joins, detaches
\* and lets exit, even where uthreads reap themselves; and no exited uthread
\* whose ut_pmut is unlocked has a joiner that uthread_exit has not woken.
THEOREM LifeKeepsOrder ==
  LifeSpec => [](outcome = "running" =>
                   SchedulerSound /\ MutexesSound /\ NoJoinerForgotten)
<1>1. IInv => SchedulerSound
  <2>1. IInv => RunqCoherent /\ RunqSizeExact
    BY DEF IInv
  <2> QED BY <2>1, StacksFollow, HandedFollow, WaitersFollow DEF SchedulerSound
<1>2. IInv /\ MInv => MutexesSound
  <2> SUFFICES ASSUME IInv, MInv PROVE MutexesSound
    OBVIOUS
  <2>1. MutualExclusion
    BY DEF MInv, MtxTypeOK, OwnerInv, MutualExclusion
  <2>2. HandoffDelivered
    BY ClientAwaitsNothing, MutexesDistinct
       DEF MInv, MtxTypeOK, OwnerInv, HandoffDelivered
  <2>3. FreeMutexHasNoWaiter
    BY DEF MInv, OwnerInv, FreeMutexHasNoWaiter
  <2> QED BY <2>1, <2>2, <2>3 DEF MutexesSound
<1>3. PlacesInv /\ HeldInv => NoJoinerForgotten
  <2> SUFFICES ASSUME PlacesInv, HeldInv, NEW t \in Uthreads,
                      ut_state[t] = "ZOMBIE", pmut[t] = NULL
               PROVE  waiters[t] = <<>>
    BY DEF NoJoinerForgotten
  <2>1. at[t] # "exit_wake"
    BY LifeObjects DEF HeldInv, HeldOf, HoldsOwn, OwnPcs, Holds
  <2> QED BY <2>1 DEF PlacesInv, PlaceOf
<1>4. LifeInv => (outcome = "running" =>
                    SchedulerSound /\ MutexesSound /\ NoJoinerForgotten)
  BY <1>1, <1>2, <1>3 DEF LifeInv
<1> QED BY <1>4, LifeInvariance, PTL

-----------------------------------------------------------------------------
(* Stacks.                                                                 *)

\* The uthread that the reaper destroys has put itself on the reap queue and has
\* unlocked its ut_pmut.
ReapedItself ==
  LET z == subject[ReaperThr]
  IN  subject[z] = z /\ at[z] \in {"reap_unlock", "exit_bare", "gone"}

\* Of the calls of uthread.c, it is the one of the reaper that frees stacks.
LEMMA ReaperFrees ==
  ASSUME outcome = "running", NEW k \in Lwps, NEW u \in Uthreads, LifeCall(k, u),
         outcome' = "freed"
  PROVE  ReaperDestroy(k, u)
<1> SUFFICES ASSUME ~ReaperDestroy(k, u) PROVE FALSE
  OBVIOUS
<1>1. outcome' = outcome \/ \E bad : Fails(bad)
  BY DEF LifeCall, UthreadExit, LocksReap, UnlocksReap, ExitZombie, ExitWake,
         ExitLeave, UthreadJoin, Join, JoinReturn, JoinCheck, UthreadDetach,
         Detach, DetachCheck, MakeReapable, SignalReaper, Signalled,
         ReapUnlock, ExitBare, UnlocksSubject, Reaper, ReaperWait,
         ReaperSleep, ReaperTake, Reaps
<1> QED BY <1>1 DEF Fails

\* Only a uthread that has is destroyed on its stack: any other one holds its
\* ut_pmut, which the reaper locks first, for as long as it is there.
LEMMA FreedStep ==
  ASSUME IInv, PlacesInv, HeldInv, outcome = "running",
         [LifeNext]_allLifeVars, outcome' = "freed"
  PROVE  ReapedItself /\ subject[ReaperThr] \in Uthreads
<1>1. ASSUME NEW k \in Lwps, NEW u \in Uthreads, ReaperDestroy(k, u)
      PROVE  ReapedItself /\ subject[ReaperThr] \in Uthreads
  <2>1. u = ReaperThr /\ subject[u] \in Uthreads
    BY <1>1 DEF ReaperDestroy, Here, PlacesInv, PlaceOf, SubjectPcs, ReaperPcs
  <2>2. PICK z \in Uthreads : z = subject[u]
    BY <2>1
  <2>3. PICK l \in Lwps : OnStack(l, z)
    BY <1>1, <2>2 DEF ReaperDestroy, Fails
  <2>4. ut_state[z] = "ZOMBIE" /\ pmut[z] = NULL /\ PlaceOf(z) /\ HeldOf(z)
    BY <1>1, <2>2 DEF ReaperDestroy, Destroy, PlacesInv, HeldInv
  <2>5. ~HoldsOwn(z)
    BY <2>4, LifeObjects DEF HeldOf, Holds
  <2>6. CASE at[z] = "gone"
    <3>1. call[z] = "switch" /\ (args[z].pmut = z \/ subject[z] = z)
      BY <2>3, <2>4, <2>6 DEF HeldOf
    <3>2. Asks(l, z, args[z])
      BY <2>3, <3>1 DEF IInv, PlaceInv, AsksInv, AsksOf
    <3>3. args[z].pmut # z
      BY <2>4, <3>2, LifeObjects DEF Asks
    <3> QED BY <2>1, <2>2, <2>6, <3>1, <3>3 DEF ReapedItself
  <2>7. CASE at[z] # "gone"
    <3>1. subject[z] = z /\ at[z] \in {"reap_unlock", "exit_bare"}
      BY <2>4, <2>5, <2>7 DEF PlaceOf, Exited, ExitedPcs, ReapPcs, HoldsOwn, OwnPcs
    <3> QED BY <2>1, <2>2, <3>1 DEF ReapedItself
  <2> QED BY <2>6, <2>7
<1> QED BY <1>1, ReaperFrees, LifeSteps DEF allLifeVars, lifeVars, OtherStep, Relock

\* The comment of uthread_exit, "we must make sure that pmut is not unlocked
\* until the thread's stack is no longer in use": the one way for a stack to be
\* freed under an LWP is make_reapable of the caller, which unlocks the ut_pmut
\* of a detached uthread that exits before its last switch.
THEOREM FreedOnlyByItself ==
  LifeSpec => [][outcome' = "freed" => outcome = "freed" \/ ReapedItself]_allLifeVars
<1>1. LifeInv /\ [LifeNext]_allLifeVars
        => [outcome' = "freed" => outcome = "freed" \/ ReapedItself]_allLifeVars
  <2> SUFFICES ASSUME LifeInv, [LifeNext]_allLifeVars, outcome' = "freed",
                      outcome # "freed"
               PROVE  ReapedItself
    OBVIOUS
  <2>1. CASE outcome = "running"
    BY <2>1, FreedStep DEF LifeInv
  <2>2. CASE outcome # "running"
    BY <2>2, LifeSteps DEF allLifeVars, lifeVars
  <2> QED BY <2>1, <2>2
<1> QED BY <1>1, LifeInvariance, PTL DEF LifeSpec

\* No uthread calls make_reapable for itself.
NoneReapsItself == \A t \in Uthreads : at[t] = "signal" => subject[t] # t

\* Then nobody joins, detaches or destroys itself, and no stack is freed in use.
OthersOnly == StackKept /\ \A t \in Uthreads : subject[t] # t
LEMMA OthersOnlyStep ==
  ASSUME LifeInv, OthersOnly, NoneReapsItself', [LifeNext]_allLifeVars
  PROVE  OthersOnly'
<1>0. /\ subject \in [Uthreads -> Uthreads \cup {NULL}]
      /\ at \in [Uthreads -> LifePcs] /\ PlacesInv
  BY DEF LifeInv, PlacesInv
<1>1. ASSUME NEW u \in Uthreads,
             \/ subject' = subject
             \/ \E z : z # u /\ subject' = [subject EXCEPT ![u] = z]
      PROVE  \A t \in Uthreads : subject'[t] # t
  BY <1>0, <1>1 DEF OthersOnly
<1>2. ASSUME NEW k \in Lwps, NEW u \in Uthreads, LifeCall(k, u)
      PROVE  \A t \in Uthreads : subject'[t] # t
  <2>1. CASE ExitZombie(k, u)
    <3>1. \/ subject' = subject
          \/ subject' = [subject EXCEPT ![u] = u] /\ at' = [at EXCEPT ![u] = "signal"]
      BY <2>1 DEF ExitZombie, Goes
    <3>2. ~(subject'[u] = u /\ at'[u] = "signal")
      BY DEF NoneReapsItself
    <3> QED BY <1>0, <1>1, <3>1, <3>2
  <2>2. ASSUME NEW thr \in Uthreads, Join(k, u, thr)
        PROVE  \A t \in Uthreads : subject'[t] # t
    BY <1>1, <2>2 DEF Join
  <2>3. ASSUME NEW thr \in Uthreads, Detach(k, u, thr)
        PROVE  \A t \in Uthreads : subject'[t] # t
    <3>1. at[u] = "program"
      BY <2>3 DEF Detach, Accepts, Here
    <3>2. ut_state[u] # "ZOMBIE"
      BY <1>0, <3>1, RunsAlive DEF Exited, ExitedPcs, ReapPcs
    <3> QED BY <1>1, <2>3, <3>2 DEF Detach
  <2>4. CASE ReaperTake(k, u)
    <3>1. u = ReaperThr
      BY <1>0, <2>4 DEF ReaperTake, Here, PlacesInv, PlaceOf, ReaperPcs
    <3>2. Head(reap_queue) # u
      BY <2>4, <3>1, HeadTailProperties DEF ReaperTake, LifeInv, QueueOfOthers
    <3> QED BY <1>1, <2>4, <3>2 DEF ReaperTake
  <2>5. CASE ReaperDestroy(k, u)
    <3>1. PICK z \in Uthreads : z = subject[u]
      BY <1>0, <2>5 DEF ReaperDestroy, Here, PlacesInv, PlaceOf, SubjectPcs
    <3>2. subject' = [subject EXCEPT ![u] = NULL, ![z] = NULL]
      BY <2>5, <3>1 DEF ReaperDestroy
    <3> QED BY <1>0, <3>2, LifeObjects DEF OthersOnly
  <2>6. \/ subject' = subject
        \/ ExitZombie(k, u) \/ ReaperTake(k, u) \/ ReaperDestroy(k, u)
        \/ \E thr \in Uthreads : Join(k, u, thr) \/ Detach(k, u, thr)
    BY <1>2 DEF LifeCall, UthreadExit, LocksReap, UnlocksReap, ExitWake, ExitLeave,
                UthreadJoin, JoinReturn, JoinCheck, UthreadDetach, DetachCheck,
                MakeReapable, SignalReaper, Signalled, ReapUnlock, ExitBare,
                UnlocksSubject, Reaper, ReaperWait, ReaperSleep
  <2> QED BY <1>1, <2>1, <2>2, <2>3, <2>4, <2>5, <2>6
<1>3. UNCHANGED subject => \A t \in Uthreads : subject'[t] # t
  BY DEF OthersOnly
<1>4. \A t \in Uthreads : subject'[t] # t
  BY <1>2, <1>3, LifeSteps DEF allLifeVars, lifeVars, OtherStep, Relock
<1>5. outcome' # "freed"
  <2>1. CASE outcome = "running" /\ outcome' = "freed"
    <3>1. ReapedItself /\ subject[ReaperThr] \in Uthreads
      BY <2>1, FreedStep DEF LifeInv
    <3> QED BY <3>1 DEF ReapedItself, OthersOnly
  <2>2. CASE outcome # "running"
    BY <2>2, LifeSteps DEF OthersOnly, StackKept, allLifeVars, lifeVars
  <2> QED BY <2>1, <2>2
<1> QED BY <1>4, <1>5 DEF OthersOnly, StackKept

\* Unless a detached uthread exits, a stack is freed only when no LWP is on it:
\* "the thread is effectively gone", as the reaper says.
THEOREM StacksKept == LifeSpec /\ []NoneReapsItself => []StackKept
<1>1. LifeInit => OthersOnly
  BY LifeObjects DEF LifeInit, OthersOnly, StackKept
<1>2. LifeInv /\ OthersOnly /\ NoneReapsItself' /\ [LifeNext]_allLifeVars
        => OthersOnly'
  BY OthersOnlyStep
<1>3. OthersOnly => StackKept
  BY DEF OthersOnly
<1> QED BY <1>1, <1>2, <1>3, LifeInvariance, PTL DEF LifeSpec

-----------------------------------------------------------------------------
(* Who works on whom.                                                      *)

\* t has claimed z; the reaper has taken it; it is a zombie to be destroyed
Claims(t, z) == at[t] \in ClaimPcs /\ subject[t] = z
Taken(z) == at[ReaperThr] = "reaper_destroy" /\ subject[ReaperThr] = z
Marked(z) == ut_state[z] = "ZOMBIE" /\ ut_detached[z]

\* In a program that claims each uthread once, a uthread is on the reap queue
\* once, or with the reaper, or with one uthread that has claimed it.
ClaimInv ==
  /\ NoDup(reap_queue)
  /\ \A z \in Uthreads :
       /\ ut_detached[z] => z \in claimed
       /\ Occurs(reap_queue, z) \/ Taken(z) => Marked(z) /\ z \in claimed
       /\ ~(Occurs(reap_queue, z) /\ Taken(z))
       /\ \A t \in Uthreads :
            Claims(t, z) =>
              /\ z \in claimed /\ ~Occurs(reap_queue, z) /\ ~Taken(z)
              /\ \A s \in Uthreads : Claims(s, z) => s = t
              /\ at[t] # "joined" => Marked(z)
              /\ at[t] = "joined" => ~ut_detached[z]

\* No claimed zombie gets lost.
AccountedInv ==
  \A z \in Uthreads :
    Marked(z) =>
      \/ Occurs(reap_queue, z) \/ Taken(z)
      \/ \E t \in Uthreads : Claims(t, z) /\ at[t] # "joined"

\* What ReapQueueSound and ZombieAccounted follow from.
TargetsInv == ClaimInv /\ AccountedInv

\* Steps that begin and end no work on another uthread.
LEMMA TargetsFrame ==
  ASSUME TargetsInv, reap_queue' = reap_queue, claimed \subseteq claimed',
         \A z \in Uthreads :
           /\ ut_detached'[z] => ut_detached[z] \/ z \in claimed' \ claimed
           /\ Marked(z)' <=> Marked(z)
           /\ Taken(z)' <=> Taken(z)
           /\ \A t \in Uthreads :
                /\ Claims(t, z)' <=> Claims(t, z)
                /\ Claims(t, z) => (at'[t] = "joined" <=> at[t] = "joined")
  PROVE  TargetsInv'
<1>1. ClaimInv'
  BY DEF TargetsInv, ClaimInv
<1>2. AccountedInv'
  BY DEF TargetsInv, AccountedInv
<1> QED BY <1>1, <1>2 DEF TargetsInv

\* What only the scheduler, or its clients in the program, change.
LEMMA TargetsKept ==
  ASSUME TargetsInv, ThreadsKept,
         UNCHANGED <<at, subject, ut_detached, reap_queue, claimed>>
  PROVE  TargetsInv'
BY TargetsFrame DEF ThreadsKept, Marked, Taken, Claims

\* A step of u inside a call, which goes on with the same work.
LEMMA TargetsByStep ==
  ASSUME TargetsInv, PlacesInv, NEW u \in Uthreads, NEW next, Goes(u, next), ThreadsKept,
         UNCHANGED <<subject, ut_detached, reap_queue, claimed>>,
         next \in ClaimPcs <=> at[u] \in ClaimPcs,
         next = "joined" <=> at[u] = "joined",
         next # "reaper_destroy" /\ at[u] # "reaper_destroy"
  PROVE  TargetsInv'
<1>1. /\ at'[u] = next /\ \A s \in Uthreads \ {u} : at'[s] = at[s]
      /\ ReaperThr \in Uthreads
  BY LifeObjects DEF Goes, PlacesInv
<1>2. ASSUME NEW z \in Uthreads
      PROVE  /\ ut_detached'[z] => ut_detached[z] \/ z \in claimed' \ claimed
             /\ Marked(z)' <=> Marked(z)
             /\ Taken(z)' <=> Taken(z)
             /\ \A t \in Uthreads :
                  /\ Claims(t, z)' <=> Claims(t, z)
                  /\ Claims(t, z) => (at'[t] = "joined" <=> at[t] = "joined")
  BY <1>1 DEF ThreadsKept, Marked, Taken, Claims
<1> QED BY <1>2, TargetsFrame

\* Locking and unlocking reap_mtx.
LEMMA ReapMtxTargets ==
  ASSUME IInv, TargetsInv, PlacesInv, NEW k \in Lwps, NEW u \in Uthreads, NEW pc, NEW next,
         LocksReap(k, u, pc, next) \/ UnlocksReap(k, u, pc, next),
         next \in ClaimPcs <=> pc \in ClaimPcs,
         "joined" \notin {pc, next}, "reaper_destroy" \notin {pc, next}
  PROVE  TargetsInv'
<1>1. ThreadsKept
  BY ReapMtxSteps, ClientKeepsThreads
<1>2. /\ at[u] = pc /\ Goes(u, next)
      /\ UNCHANGED <<subject, ut_detached, reap_queue, claimed>>
  BY DEF LocksReap, UnlocksReap, Here
<1> QED BY <1>1, <1>2, TargetsByStep

\* A detached uthread that exits puts itself on the reap queue: nobody has
\* claimed it, for nobody joins a uthread that is detached.
LEMMA SelfTargets ==
  ASSUME IInv, PlacesInv, QueueOfOthers, TargetsInv, FieldsInv,
         NEW k \in Lwps, NEW u \in Uthreads, ExitZombie(k, u), ut_detached[u]
  PROVE  TargetsInv'
<1> USE DEF ClaimPcs
<1>1. /\ at[u] = "exit" /\ BecomeZombie(k, u) /\ Goes(u, "signal")
      /\ subject' = [subject EXCEPT ![u] = u]
      /\ reap_queue' = utqueue_enqueue(reap_queue, u)
      /\ UNCHANGED <<ut_detached, claimed>>
  BY DEF ExitZombie, Here, Reaps
<1>2. /\ ut_state[u] # "ZOMBIE" /\ u # ReaperThr
  BY <1>1 DEF PlacesInv, PlaceOf, Exited, ExitedPcs, ReapPcs, ReaperPcs
<1>3. /\ at'[u] = "signal" /\ ReaperThr \in Uthreads
      /\ \A s \in Uthreads \ {u} : at'[s] = at[s] /\ subject'[s] = subject[s]
      /\ ut_state'[u] = "ZOMBIE"
      /\ \A s \in Uthreads \ {u} : ut_state'[s] = ut_state[s]
  BY <1>1, LifeObjects DEF Goes, PlacesInv, BecomeZombie, IInv, TypeOK
<1>4. /\ u \in claimed /\ ~Occurs(reap_queue, u) /\ ~Taken(u)
      /\ \A s \in Uthreads : ~Claims(s, u)
  BY <1>2 DEF TargetsInv, ClaimInv, Marked
<1>5. ASSUME NEW y \in Uthreads
      PROVE  /\ Taken(y)' <=> Taken(y)
             /\ Marked(y)' <=> Marked(y) \/ y = u
             /\ \A s \in Uthreads : Claims(s, y)' <=> Claims(s, y)
             /\ \A s \in Uthreads : Claims(s, y) => at'[s] = at[s]
  BY <1>1, <1>2, <1>3 DEF Taken, Marked, Claims
<1>6. /\ NoDup(reap_queue')
      /\ \A y : Occurs(reap_queue', y) <=> Occurs(reap_queue, y) \/ y = u
  <2>1. reap_queue \in Seq(Uthreads) /\ NoDup(reap_queue)
    BY DEF QueueOfOthers, TargetsInv, ClaimInv
  <2> QED BY <1>1, <1>4, <2>1, EnqueueQueue
<1>7. ClaimInv'
  <2>1. ASSUME NEW y \in Uthreads
        PROVE  /\ ut_detached'[y] => y \in claimed'
               /\ Occurs(reap_queue', y) \/ Taken(y)' => Marked(y)' /\ y \in claimed'
               /\ ~(Occurs(reap_queue', y) /\ Taken(y)')
    BY <1>1, <1>4, <1>5, <1>6 DEF TargetsInv, ClaimInv
  <2>2. ASSUME NEW y \in Uthreads, NEW t \in Uthreads, Claims(t, y)'
        PROVE  /\ y \in claimed' /\ ~Occurs(reap_queue', y) /\ ~Taken(y)'
               /\ \A s \in Uthreads : Claims(s, y)' => s = t
               /\ at'[t] # "joined" => Marked(y)'
               /\ at'[t] = "joined" => ~ut_detached'[y]
    <3>1. Claims(t, y) /\ y # u /\ at'[t] = at[t]
      BY <1>4, <1>5, <2>2
    <3> QED BY <1>1, <1>5, <1>6, <3>1 DEF TargetsInv, ClaimInv
  <2> QED BY <1>6, <2>1, <2>2 DEF ClaimInv
<1>8. AccountedInv'
  <2> SUFFICES ASSUME NEW y \in Uthreads, Marked(y)'
               PROVE  \/ Occurs(reap_queue', y) \/ Taken(y)'
                      \/ \E t \in Uthreads : Claims(t, y)' /\ at'[t] # "joined"
    BY DEF AccountedInv
  <2> QED BY <1>5, <1>6 DEF TargetsInv, AccountedInv
<1> QED BY <1>7, <1>8 DEF TargetsInv

\* uthread_exit and make_reapable.
LEMMA ExitTargets ==
  ASSUME IInv, PlacesInv, QueueOfOthers, TargetsInv, FieldsInv,
         NEW k \in Lwps, NEW u \in Uthreads,
         UthreadExit(k, u) \/ MakeReapable(k, u)
  PROVE  TargetsInv'
<1> USE DEF ClaimPcs
<1>0. PlaceOf(u) /\ TypeOK
  BY DEF IInv, PlacesInv
<1>1. ASSUME NEW pc, NEW next, LocksReap(k, u, pc, next) \/ UnlocksReap(k, u, pc, next),
             <<pc, next>> \in {<<"program", "exit">>, <<"exit_unlock", "exit_leave">>,
                               <<"reap_unlock", "program">>,
                               <<"reap_unlock", "exit_bare">>}
      PROVE  TargetsInv'
  BY <1>1, ReapMtxTargets
<1>2. CASE ExitZombie(k, u) /\ ~ut_detached[u]
  <2>1. /\ ~ut_detached[u] /\ BecomeZombie(k, u) /\ at[u] = "exit"
        /\ Goes(u, IF waiters[u] = <<>> THEN "exit_unlock" ELSE "exit_wake")
        /\ UNCHANGED <<subject, ut_detached, reap_queue, claimed>>
    BY <1>2 DEF ExitZombie, Here
  <2>2. \A s \in Uthreads \ {u} : ut_state'[s] = ut_state[s]
    BY <1>0, <2>1 DEF BecomeZombie, TypeOK
  <2>3. /\ at'[u] \in {"exit_unlock", "exit_wake"} /\ ReaperThr \in Uthreads
        /\ \A s \in Uthreads \ {u} : at'[s] = at[s]
    BY <2>1, LifeObjects DEF Goes, PlacesInv
  <2>4. ASSUME NEW z \in Uthreads
        PROVE  /\ ut_detached'[z] => ut_detached[z] \/ z \in claimed' \ claimed
               /\ Marked(z)' <=> Marked(z)
               /\ Taken(z)' <=> Taken(z)
               /\ \A t \in Uthreads :
                    /\ Claims(t, z)' <=> Claims(t, z)
                    /\ Claims(t, z) => (at'[t] = "joined" <=> at[t] = "joined")
    BY <2>1, <2>2, <2>3 DEF Marked, Taken, Claims
  <2> QED BY <2>1, <2>4, TargetsFrame
<1>3. CASE ExitWake(k, u)
  <2>1. /\ at[u] = "exit_wake" /\ Goes(u, "exit_unlock") /\ ut_state' = ut_state
        /\ UNCHANGED <<subject, ut_detached, reap_queue, claimed>>
    BY <1>3 DEF ExitWake, Here, TakeWaiter
  <2>2. /\ at'[u] = "exit_unlock" /\ ReaperThr \in Uthreads
        /\ \A s \in Uthreads \ {u} : at'[s] = at[s]
    BY <2>1, LifeObjects DEF Goes, PlacesInv
  <2>3. ASSUME NEW z \in Uthreads
        PROVE  /\ ut_detached'[z] => ut_detached[z] \/ z \in claimed' \ claimed
               /\ Marked(z)' <=> Marked(z)
               /\ Taken(z)' <=> Taken(z)
               /\ \A t \in Uthreads :
                    /\ Claims(t, z)' <=> Claims(t, z)
                    /\ Claims(t, z) => (at'[t] = "joined" <=> at[t] = "joined")
    BY <2>1, <2>2 DEF Marked, Taken, Claims
  <2> QED BY <2>1, <2>3, TargetsFrame
<1>4. CASE ExitLeave(k, u)
  <2>1. /\ at[u] = "exit_leave" /\ Goes(u, "gone") /\ UNCHANGED <<ut_state, waiters>>
        /\ UNCHANGED <<subject, ut_detached, reap_queue, claimed>>
    BY <1>4 DEF ExitLeave, Here, objVars
  <2> QED BY <2>1, TargetsByStep DEF ThreadsKept
<1>5. CASE SignalReaper(k, u) \/ Signalled(k, u)
  <2>1. /\ at[u] \in {"signal", "signalled"}
        /\ Goes(u, "signalled") \/ Goes(u, "reap_unlock")
        /\ UNCHANGED <<threadVars, waiters>> \/ TakeWaiter(k, u, ReapCond, TRUE)
        /\ UNCHANGED <<subject, ut_detached, reap_queue, claimed>>
    BY <1>5 DEF SignalReaper, Signalled, UnlocksSubject, Here
  <2>2. ThreadsKept
    BY <2>1, ClientKeepsThreads
  <2> QED BY <2>1, <2>2, TargetsByStep
<1>6. CASE ReapUnlock(k, u)
  <2>1. \/ UnlocksReap(k, u, "reap_unlock", "program")
        \/ UnlocksReap(k, u, "reap_unlock", "exit_bare")
    BY <1>6 DEF ReapUnlock
  <2> QED BY <1>1, <2>1
<1>7. CASE ExitBare(k, u)
  <2>1. /\ at[u] = "exit_bare" /\ Goes(u, "gone") /\ UNCHANGED <<ut_state, waiters>>
        /\ UNCHANGED <<subject, ut_detached, reap_queue, claimed>>
    BY <1>7 DEF ExitBare, Here, objVars
  <2> QED BY <2>1, TargetsByStep DEF ThreadsKept
<1>8. CASE ExitZombie(k, u) /\ ut_detached[u]
  BY <1>8, SelfTargets
<1> QED BY <1>1, <1>2, <1>3, <1>4, <1>5, <1>6, <1>7, <1>8 DEF UthreadExit, MakeReapable

\* u begins to work on z, which nobody has claimed, or goes on with the zombie
\* it has joined.
LEMMA ClaimBegins ==
  ASSUME TargetsInv, FieldsInv, PlacesInv, NEW u \in Uthreads, NEW z \in Uthreads \ {u},
         u # ReaperThr, NEW next \in ClaimPcs, Goes(u, next),
         \A s \in Uthreads : ut_state'[s] = "ZOMBIE" <=> ut_state[s] = "ZOMBIE",
         subject' = [subject EXCEPT ![u] = z],
         reap_queue' = reap_queue, claimed' = claimed \cup {z},
         \/ at[u] = "program" /\ z \notin claimed
         \/ Claims(u, z) /\ at[u] = "joined",
         \/ /\ next = "joined" /\ ut_detached' = ut_detached
            /\ ~ut_detached[z]
         \/ next # "joined" /\ ut_state[z] = "ZOMBIE" /\ MarksDetached(z)
  PROVE  TargetsInv'
<1> USE DEF ClaimPcs
<1>1. /\ at'[u] = next /\ subject'[u] = z /\ z \in claimed'
      /\ \A s \in Uthreads \ {u} : at'[s] = at[s] /\ subject'[s] = subject[s]
      /\ \A s \in Uthreads \ {z} : ut_detached'[s] = ut_detached[s]
      /\ \A s \in Uthreads : ut_detached[s] => ut_detached'[s]
      /\ ReaperThr \in Uthreads /\ claimed \subseteq claimed'
  BY LifeObjects DEF Goes, PlacesInv, FieldsInv, MarksDetached
<1>2. /\ ~Occurs(reap_queue, z) /\ ~Taken(z)
      /\ \A s \in Uthreads : Claims(s, z) => s = u
  BY DEF TargetsInv, ClaimInv
<1>3. ASSUME NEW y \in Uthreads
      PROVE  /\ Taken(y)' <=> Taken(y)
             /\ \A s \in Uthreads \ {u} : Claims(s, y)' <=> Claims(s, y)
             /\ Claims(u, y)' <=> y = z
             /\ Marked(y) => Marked(y)'
             /\ y # z => (Marked(y)' <=> Marked(y))
             /\ Claims(u, y) => y = z
  BY <1>1 DEF Taken, Claims, Marked
<1>4. next # "joined" => Marked(z)'
  BY <1>1 DEF Marked, MarksDetached, FieldsInv
<1>5. ClaimInv'
  <2>1. ASSUME NEW y \in Uthreads
        PROVE  /\ ut_detached'[y] => y \in claimed'
               /\ Occurs(reap_queue, y)' \/ Taken(y)' => Marked(y)' /\ y \in claimed'
               /\ ~(Occurs(reap_queue, y)' /\ Taken(y)')
    BY <1>1, <1>3 DEF TargetsInv, ClaimInv
  <2>2. ASSUME NEW y \in Uthreads, NEW t \in Uthreads, Claims(t, y)'
        PROVE  /\ y \in claimed' /\ ~Occurs(reap_queue, y)' /\ ~Taken(y)'
               /\ \A s \in Uthreads : Claims(s, y)' => s = t
               /\ at'[t] # "joined" => Marked(y)'
               /\ at'[t] = "joined" => ~ut_detached'[y]
    <3>1. CASE t = u
      <4>1. y = z
        BY <1>3, <2>2, <3>1
      <4> QED BY <1>1, <1>2, <1>3, <1>4, <3>1, <4>1
    <3>2. CASE t # u
      <4>1. Claims(t, y) /\ y # z
        BY <1>2, <1>3, <2>2, <3>2
      <4> QED BY <1>1, <1>3, <3>2, <4>1 DEF TargetsInv, ClaimInv
    <3> QED BY <3>1, <3>2
  <2> QED BY <2>1, <2>2 DEF TargetsInv, ClaimInv
<1>6. AccountedInv'
  <2> SUFFICES ASSUME NEW y \in Uthreads, Marked(y)'
               PROVE  \/ Occurs(reap_queue, y)' \/ Taken(y)'
                      \/ \E t \in Uthreads : Claims(t, y)' /\ at'[t] # "joined"
    BY DEF AccountedInv
  <2>1. CASE y = z
    <3>1. CASE next # "joined"
      BY <1>1, <1>3, <2>1, <3>1
    <3>2. CASE next = "joined"
      BY <1>1, <2>1, <3>2 DEF Marked
    <3> QED BY <3>1, <3>2
  <2>2. CASE y # z
    BY <1>1, <1>3, <2>2 DEF TargetsInv, AccountedInv
  <2> QED BY <2>1, <2>2
<1> QED BY <1>5, <1>6 DEF TargetsInv

\* u drops its claim, or puts the zombie on the reap queue.
LEMMA ClaimEnds ==
  ASSUME TargetsInv, FieldsInv, PlacesInv, QueueOfOthers,
         NEW u \in Uthreads, u # ReaperThr,
         NEW next, next \notin ClaimPcs \cup {"reaper_destroy"}, Goes(u, next),
         at[u] \in ClaimPcs,
         ThreadsKept, UNCHANGED <<subject, ut_detached, claimed>>,
         \/ reap_queue' = reap_queue /\ ut_state[subject[u]] # "ZOMBIE"
         \/ at[u] # "joined" /\ reap_queue' = utqueue_enqueue(reap_queue, subject[u])
  PROVE  TargetsInv'
<1>0. PICK z \in Uthreads : z = subject[u]
  BY DEF PlacesInv, PlaceOf, SubjectPcs
<1>1. /\ at'[u] = next
      /\ \A s \in Uthreads \ {u} : at'[s] = at[s]
      /\ ReaperThr \in Uthreads
  BY LifeObjects DEF Goes, PlacesInv
<1>2. Claims(u, z)
  BY <1>0 DEF Claims
<1>3. /\ z \in claimed /\ ~Occurs(reap_queue, z) /\ ~Taken(z)
      /\ \A s \in Uthreads : Claims(s, z) => s = u
      /\ at[u] # "joined" => Marked(z)
  BY <1>2 DEF TargetsInv, ClaimInv
<1>4. ASSUME NEW y \in Uthreads
      PROVE  /\ Taken(y)' <=> Taken(y)
             /\ Marked(y)' <=> Marked(y)
             /\ \A s \in Uthreads \ {u} : Claims(s, y)' <=> Claims(s, y)
             /\ ~Claims(u, y)'
             /\ Claims(u, y) => y = z
  BY <1>0, <1>1 DEF Taken, Marked, Claims, ThreadsKept
<1>5. CASE reap_queue' = reap_queue
  <2>1. ClaimInv'
    BY <1>1, <1>4, <1>5 DEF TargetsInv, ClaimInv
  <2>2. ~Marked(z)
    <3>1. CASE ut_state[subject[u]] # "ZOMBIE"
      BY <1>0, <3>1 DEF Marked
    <3>2. CASE reap_queue' = Append(reap_queue, subject[u])
      <4>1. reap_queue \in Seq(Uthreads)
        BY DEF QueueOfOthers
      <4>2. Len(Append(reap_queue, subject[u])) = Len(reap_queue) + 1
            /\ Len(reap_queue) \in Nat
        BY <1>0, <4>1
      <4>3. reap_queue = Append(reap_queue, subject[u])
        BY <1>5, <3>2
      <4>4. Len(reap_queue) = Len(Append(reap_queue, subject[u]))
        BY <4>3
      <4> QED BY <4>2, <4>4
    <3> QED BY <3>1, <3>2 DEF utqueue_enqueue
  <2>3. AccountedInv'
    BY <1>1, <1>4, <1>5, <2>2 DEF TargetsInv, AccountedInv
  <2> QED BY <2>1, <2>3 DEF TargetsInv
<1>6. CASE at[u] # "joined" /\ reap_queue' = utqueue_enqueue(reap_queue, z)
  <2>1. /\ NoDup(reap_queue')
        /\ \A y : Occurs(reap_queue', y) <=> Occurs(reap_queue, y) \/ y = z
    <3>1. reap_queue \in Seq(Uthreads)
      BY DEF QueueOfOthers
    <3>2. NoDup(reap_queue)
      BY DEF TargetsInv, ClaimInv
    <3> QED BY <1>3, <1>6, <3>1, <3>2, EnqueueQueue
  <2>2. ClaimInv'
    <3>1. ASSUME NEW y \in Uthreads
          PROVE  /\ ut_detached'[y] => y \in claimed'
                 /\ Occurs(reap_queue', y) \/ Taken(y)' => Marked(y)' /\ y \in claimed'
                 /\ ~(Occurs(reap_queue', y) /\ Taken(y)')
      BY <1>3, <1>4, <1>6, <2>1 DEF TargetsInv, ClaimInv
    <3>2. ASSUME NEW y \in Uthreads, NEW t \in Uthreads, Claims(t, y)'
          PROVE  /\ y \in claimed' /\ ~Occurs(reap_queue', y) /\ ~Taken(y)'
                 /\ \A s \in Uthreads : Claims(s, y)' => s = t
                 /\ at'[t] # "joined" => Marked(y)'
                 /\ at'[t] = "joined" => ~ut_detached'[y]
      <4>1. t # u /\ Claims(t, y) /\ y # z
        BY <1>3, <1>4, <3>2
      <4> QED BY <1>1, <1>4, <2>1, <4>1 DEF TargetsInv, ClaimInv
    <3> QED BY <2>1, <3>1, <3>2 DEF ClaimInv
  <2>3. AccountedInv'
    <3> SUFFICES ASSUME NEW y \in Uthreads, Marked(y)'
                 PROVE  \/ Occurs(reap_queue', y) \/ Taken(y)'
                        \/ \E t \in Uthreads : Claims(t, y)' /\ at'[t] # "joined"
      BY DEF AccountedInv
    <3> QED BY <1>1, <1>4, <2>1 DEF TargetsInv, AccountedInv
  <2> QED BY <2>2, <2>3 DEF TargetsInv
<1> QED BY <1>0, <1>5, <1>6

\* uthread_join and uthread_detach.
LEMMA ClaimTargets ==
  ASSUME IInv, PlacesInv, QueueOfOthers, TargetsInv, FieldsInv, SingleClaim = TRUE,
         NEW k \in Lwps, NEW u \in Uthreads, UthreadJoin(k, u) \/ UthreadDetach(k, u)
  PROVE  TargetsInv'
<1> USE DEF ClaimPcs
<1>0. /\ PlaceOf(u) /\ TypeOK /\ subject \in [Uthreads -> Uthreads \cup {NULL}]
      /\ at[u] \in ClaimPcs => u # ReaperThr /\ subject[u] \in Uthreads \ {u}
  BY DEF PlacesInv, PlaceOf, IInv, ReaperPcs, SubjectPcs
<1>1. ASSUME NEW thr \in Uthreads, Join(k, u, thr)
      PROVE  TargetsInv'
  <2>1. /\ at[u] = "program" /\ thr # u /\ u # ReaperThr /\ thr \notin claimed
        /\ ~ut_detached[thr] /\ claimed' = claimed \cup {thr}
        /\ subject' = [subject EXCEPT ![u] = thr] /\ reap_queue' = reap_queue
    BY <1>1 DEF Join, Accepts, Here
  <2>2. CASE WaitForExit(k, u, thr) /\ Goes(u, "joined") /\ ut_detached' = ut_detached
    <3>1. \A s \in Uthreads : ut_state'[s] = "ZOMBIE" <=> ut_state[s] = "ZOMBIE"
      BY <1>0, <2>2 DEF WaitForExit, TypeOK
    <3> QED BY <2>1, <2>2, <3>1, ClaimBegins
  <2>3. CASE /\ ut_state[thr] = "ZOMBIE" /\ MarksDetached(thr)
             /\ Goes(u, "join_reap") /\ UNCHANGED schedVars
    <3>1. \A s \in Uthreads : ut_state'[s] = "ZOMBIE" <=> ut_state[s] = "ZOMBIE"
      BY <2>3 DEF schedVars, threadVars
    <3> QED BY <2>1, <2>3, <3>1, ClaimBegins
  <2> QED BY <1>1, <2>2, <2>3 DEF Join
<1>2. CASE JoinReturn(k, u)
  <2>1. PICK z \in Uthreads : z = subject[u]
    BY <1>0, <1>2 DEF JoinReturn, Here
  <2>2. /\ at[u] = "joined" /\ subject' = subject /\ reap_queue' = reap_queue
        /\ claimed' = claimed /\ UNCHANGED schedVars
        /\ Claims(u, z)
    BY <1>2, <2>1 DEF JoinReturn, Here, allMtxVars, Claims
  <2>3. ThreadsKept
    BY <2>2, ClientKeepsThreads
  <2>4. CASE ut_state[z] = "ZOMBIE"
    <3>1. MarksDetached(z) /\ Goes(u, "join_reap")
      BY <1>2, <2>1, <2>4 DEF JoinReturn
    <3>2. subject' = [subject EXCEPT ![u] = z] /\ claimed' = claimed \cup {z}
      BY <1>0, <2>1, <2>2 DEF TargetsInv, ClaimInv
    <3>3. \A s \in Uthreads : ut_state'[s] = "ZOMBIE" <=> ut_state[s] = "ZOMBIE"
      BY <2>3 DEF ThreadsKept
    <3> QED BY <1>0, <2>1, <2>2, <2>4, <3>1, <3>2, <3>3, ClaimBegins
  <2>5. CASE ut_state[z] # "ZOMBIE"
    <3>1. Goes(u, "program") /\ ut_detached' = ut_detached
      BY <1>2, <2>1, <2>5 DEF JoinReturn
    <3> QED BY <1>0, <2>1, <2>2, <2>3, <2>5, <3>1, ClaimEnds
  <2> QED BY <2>4, <2>5
<1>3. CASE LocksReap(k, u, "join_reap", "join_check")
           \/ LocksReap(k, u, "detach_reap", "detach_check")
  BY <1>3, ReapMtxTargets
<1>4. CASE JoinCheck(k, u) \/ DetachCheck(k, u)
  <2>1. /\ at[u] \in {"join_check", "detach_check"}
        /\ UNCHANGED <<subject, ut_detached, claimed>>
        /\ \/ /\ reap_queue' = utqueue_enqueue(reap_queue, subject[u])
              /\ Goes(u, "signal")
           \/ /\ reap_queue' = reap_queue /\ ut_state[subject[u]] # "ZOMBIE"
              /\ Goes(u, "reap_unlock")
    BY <1>4 DEF JoinCheck, DetachCheck, Here, Reaps, UnlocksSubject
  <2>2. subject[u] \in Objs
    BY <1>0, <2>1, LifeObjects
  <2>3. ThreadsKept
    <3>1. \/ UNCHANGED <<threadVars, waiters>>
          \/ LockPmut(k, u, subject[u])
      BY <1>4 DEF JoinCheck, DetachCheck, UnlocksSubject, allMtxVars, schedVars,
                  objVars
    <3> QED BY <2>2, <3>1, ClientKeepsThreads
  <2> QED BY <1>0, <2>1, <2>3, ClaimEnds
<1>5. ASSUME NEW thr \in Uthreads, Detach(k, u, thr)
      PROVE  TargetsInv'
  <2>1. /\ at[u] = "program" /\ u # ReaperThr /\ thr \notin claimed
        /\ claimed' = claimed \cup {thr} /\ MarksDetached(thr)
        /\ reap_queue' = reap_queue
    BY <1>5 DEF Detach, Accepts, Here
  <2>2. CASE ut_state[thr] = "ZOMBIE"
    <3>1. /\ LockPmut(k, u, thr) /\ Goes(u, "detach_reap")
          /\ subject' = [subject EXCEPT ![u] = thr]
      BY <1>5, <2>2 DEF Detach
    <3>2. thr # u
      BY <2>1, <2>2, RunsAlive DEF Exited, ExitedPcs, ReapPcs
    <3>3. \A s \in Uthreads : ut_state'[s] = "ZOMBIE" <=> ut_state[s] = "ZOMBIE"
      BY <3>1 DEF LockPmut, threadVars
    <3> QED BY <2>1, <2>2, <3>1, <3>2, <3>3, ClaimBegins
  <2>3. CASE ut_state[thr] # "ZOMBIE"
    <3>1. UNCHANGED <<ut_state, at, subject>>
      BY <1>5, <2>3 DEF Detach, schedVars, threadVars
    <3>2. \A s \in Uthreads \ {thr} : ut_detached'[s] = ut_detached[s]
      BY <2>1 DEF MarksDetached, FieldsInv
    <3>3. ASSUME NEW z \in Uthreads
          PROVE  /\ ut_detached'[z] => ut_detached[z] \/ z \in claimed' \ claimed
                 /\ Marked(z)' <=> Marked(z)
                 /\ Taken(z)' <=> Taken(z)
                 /\ \A t \in Uthreads :
                      /\ Claims(t, z)' <=> Claims(t, z)
                      /\ Claims(t, z) => (at'[t] = "joined" <=> at[t] = "joined")
      BY <2>1, <2>3, <3>1, <3>2 DEF Marked, Taken, Claims
    <3> QED BY <2>1, <3>3, TargetsFrame
  <2> QED BY <2>2, <2>3
<1> QED BY <1>1, <1>2, <1>3, <1>4, <1>5 DEF UthreadJoin, UthreadDetach

\* The reaper takes the first zombie and destroys it.
LEMMA ReaperTargets ==
  ASSUME IInv, PlacesInv, QueueOfOthers, TargetsInv, FieldsInv,
         NEW k \in Lwps, NEW u \in Uthreads, Reaper(k, u)
  PROVE  TargetsInv'
<1> USE DEF ClaimPcs
<1>0. /\ PlaceOf(u) /\ TypeOK /\ at \in [Uthreads -> LifePcs]
      /\ subject \in [Uthreads -> Uthreads \cup {NULL}]
  BY DEF PlacesInv, IInv
<1>1. CASE LocksReap(k, u, "reaper", "reaper_loop")
           \/ UnlocksReap(k, u, "reaper_unlock", "reaper_sleep")
  BY <1>1, ReapMtxTargets
<1>2. CASE ReaperWait(k, u) \/ ReaperSleep(k, u)
  <2>1. /\ at[u] \in {"reaper_loop", "reaper_sleep"}
        /\ Goes(u, "reaper_unlock") \/ Goes(u, "reaper")
        /\ LockPmut(k, u, ReapCond) \/ WaitOn(k, u, ReapCond)
        /\ UNCHANGED <<subject, ut_detached, reap_queue, claimed>>
    BY <1>2 DEF ReaperWait, ReaperSleep, Here
  <2>2. ThreadsKept
    BY <2>1, ClientKeepsThreads, LifeObjects
  <2> QED BY <2>1, <2>2, TargetsByStep
<1>3. CASE ReaperTake(k, u)
  <2>1. /\ at[u] = "reaper_loop" /\ u = ReaperThr /\ Goes(u, "reaper_destroy")
        /\ reap_queue # <<>> /\ reap_queue' = Tail(reap_queue)
        /\ subject' = [subject EXCEPT ![u] = Head(reap_queue)]
        /\ UNCHANGED <<ut_state, ut_detached, claimed>>
    BY <1>0, <1>3 DEF ReaperTake, Here, PlaceOf, ReaperPcs, allMtxVars, schedVars,
                      threadVars
  <2>2. reap_queue \in Seq(Uthreads) /\ NoDup(reap_queue)
    BY DEF QueueOfOthers, TargetsInv, ClaimInv
  <2>3. PICK z \in Uthreads : z = Head(reap_queue)
    BY <2>1, <2>2, DequeueQueue
  <2>4. /\ Occurs(reap_queue, z) /\ NoDup(reap_queue')
        /\ \A y : Occurs(reap_queue', y) <=> Occurs(reap_queue, y) /\ y # z
    BY <2>1, <2>2, <2>3, DequeueQueue
  <2>5. /\ at'[u] = "reaper_destroy" /\ subject'[u] = z
        /\ \A s \in Uthreads \ {u} : at'[s] = at[s] /\ subject'[s] = subject[s]
    BY <1>0, <2>1, <2>3 DEF Goes
  <2>6. ASSUME NEW y \in Uthreads
        PROVE  /\ ~Taken(y)
               /\ Taken(y)' <=> y = z
               /\ Marked(y)' <=> Marked(y)
               /\ \A s \in Uthreads : Claims(s, y)' <=> Claims(s, y)
    BY <2>1, <2>5 DEF Taken, Marked, Claims
  <2>7. ClaimInv'
    <3>1. ASSUME NEW y \in Uthreads
          PROVE  /\ ut_detached'[y] => y \in claimed'
                 /\ Occurs(reap_queue', y) \/ Taken(y)' => Marked(y)' /\ y \in claimed'
                 /\ ~(Occurs(reap_queue', y) /\ Taken(y)')
      BY <2>1, <2>4, <2>6 DEF TargetsInv, ClaimInv
    <3>2. ASSUME NEW y \in Uthreads, NEW t \in Uthreads, Claims(t, y)'
          PROVE  /\ y \in claimed' /\ ~Occurs(reap_queue', y) /\ ~Taken(y)'
                 /\ \A s \in Uthreads : Claims(s, y)' => s = t
                 /\ at'[t] # "joined" => Marked(y)'
                 /\ at'[t] = "joined" => ~ut_detached'[y]
      <4>1. Claims(t, y) /\ t # u
        BY <2>1, <2>6, <3>2 DEF Claims
      <4> QED BY <2>1, <2>4, <2>5, <2>6, <4>1 DEF TargetsInv, ClaimInv
    <3> QED BY <2>4, <3>1, <3>2 DEF ClaimInv
  <2>8. AccountedInv'
    <3> SUFFICES ASSUME NEW y \in Uthreads, Marked(y)'
                 PROVE  \/ Occurs(reap_queue', y) \/ Taken(y)'
                        \/ \E t \in Uthreads : Claims(t, y)' /\ at'[t] # "joined"
      BY DEF AccountedInv
    <3>1. \A t \in Uthreads : at[t] # "joined" => at'[t] # "joined"
      BY <2>5
    <3> QED BY <2>4, <2>6, <3>1 DEF TargetsInv, AccountedInv
  <2> QED BY <2>7, <2>8 DEF TargetsInv
<1>4. CASE ReaperDestroy(k, u)
  <2>0. PICK z \in Uthreads : z = subject[u]
    BY <1>0, <1>4 DEF ReaperDestroy, Here, PlaceOf, SubjectPcs
  <2>1. /\ at[u] = "reaper_destroy" /\ Destroy(k, u, z)
        /\ at' = [at EXCEPT ![u] = "reaper_loop", ![z] = "program"]
        /\ subject' = [subject EXCEPT ![u] = NULL, ![z] = NULL]
        /\ ut_detached' = [ut_detached EXCEPT ![z] = FALSE]
        /\ claimed' = claimed \ {z} /\ reap_queue' = reap_queue
    BY <1>4, <2>0 DEF ReaperDestroy, Here
  <2>2. z # u /\ u = ReaperThr
    BY <1>0, <2>0, <2>1 DEF PlaceOf, SubjectPcs, ReaperPcs
  <2>3. /\ at'[u] = "reaper_loop" /\ at'[z] = "program"
        /\ \A s \in Uthreads \ {u, z} : at'[s] = at[s] /\ subject'[s] = subject[s]
        /\ \A s \in Uthreads \ {z} : ut_detached'[s] = ut_detached[s]
        /\ ut_state'[z] = "NO_STATE" /\ ut_detached'[z] = FALSE
        /\ \A s \in Uthreads \ {z} : ut_state'[s] = ut_state[s]
    BY <1>0, <2>1, <2>2 DEF FieldsInv, Destroy, TypeOK
  <2>4. Taken(z) /\ ut_state[z] = "ZOMBIE" /\ at[z] \notin ClaimPcs
    <3>1. Taken(z) /\ ut_state[z] = "ZOMBIE"
      BY <2>0, <2>1, <2>2 DEF Taken, Destroy
    <3> QED BY <3>1 DEF PlacesInv, PlaceOf, Exited, ExitedPcs, ReapPcs
  <2>5. ASSUME NEW y \in Uthreads
        PROVE  /\ ~Taken(y)'
               /\ Taken(y) => y = z
               /\ Marked(y)' <=> Marked(y) /\ y # z
               /\ \A s \in Uthreads : Claims(s, y)' <=> Claims(s, y)
    <3>1. ~Taken(y)' /\ (Taken(y) => y = z)
      BY <2>0, <2>2, <2>3 DEF Taken
    <3>2. Marked(y)' <=> Marked(y) /\ y # z
      BY <2>3 DEF Marked
    <3>3. ASSUME NEW s \in Uthreads PROVE Claims(s, y)' <=> Claims(s, y)
      <4>1. CASE s = u
        BY <2>1, <2>3, <4>1 DEF Claims
      <4>2. CASE s = z
        BY <2>3, <2>4, <4>2 DEF Claims
      <4>3. CASE s \in Uthreads \ {u, z}
        BY <2>3, <4>3 DEF Claims
      <4> QED BY <4>1, <4>2, <4>3
    <3> QED BY <3>1, <3>2, <3>3
  <2>6. \A y \in Uthreads : Occurs(reap_queue, y) \/ (\E s \in Uthreads : Claims(s, y))
                              => y # z
    BY <2>4 DEF TargetsInv, ClaimInv
  <2>7. \A t \in Uthreads : at[t] \in ClaimPcs => at'[t] = at[t]
    BY <2>1, <2>2, <2>3, <2>4
  <2>8. ClaimInv'
    <3>1. ASSUME NEW y \in Uthreads
          PROVE  /\ ut_detached'[y] => y \in claimed'
                 /\ Occurs(reap_queue', y) \/ Taken(y)' => Marked(y)' /\ y \in claimed'
                 /\ ~(Occurs(reap_queue', y) /\ Taken(y)')
      <4>1. ut_detached'[y] => y \in claimed'
        BY <2>1, <2>3 DEF TargetsInv, ClaimInv
      <4> QED BY <2>1, <2>5, <2>6, <4>1 DEF TargetsInv, ClaimInv
    <3>2. ASSUME NEW y \in Uthreads, NEW t \in Uthreads, Claims(t, y)'
          PROVE  /\ y \in claimed' /\ ~Occurs(reap_queue', y) /\ ~Taken(y)'
                 /\ \A s \in Uthreads : Claims(s, y)' => s = t
                 /\ at'[t] # "joined" => Marked(y)'
                 /\ at'[t] = "joined" => ~ut_detached'[y]
      <4>1. Claims(t, y) /\ at'[t] = at[t] /\ y # z
        <5>1. Claims(t, y)
          BY <2>5, <3>2
        <5> QED BY <2>6, <2>7, <5>1 DEF Claims
      <4> QED BY <2>1, <2>3, <2>5, <4>1 DEF TargetsInv, ClaimInv
    <3> QED BY <2>1, <3>1, <3>2 DEF TargetsInv, ClaimInv
  <2>9. AccountedInv'
    <3> SUFFICES ASSUME NEW y \in Uthreads, Marked(y)'
                 PROVE  \/ Occurs(reap_queue', y) \/ Taken(y)'
                        \/ \E t \in Uthreads : Claims(t, y)' /\ at'[t] # "joined"
      BY DEF AccountedInv
    <3>1. Marked(y) /\ y # z /\ ~Taken(y)
      BY <2>5
    <3>2. CASE Occurs(reap_queue, y)
      BY <2>1, <3>2
    <3>3. ASSUME NEW t \in Uthreads, Claims(t, y), at[t] # "joined"
          PROVE  Claims(t, y)' /\ at'[t] # "joined"
      BY <2>5, <2>7, <3>3 DEF Claims
    <3> QED BY <3>1, <3>2, <3>3 DEF TargetsInv, AccountedInv
  <2> QED BY <2>8, <2>9 DEF TargetsInv
<1> QED BY <1>1, <1>2, <1>3, <1>4 DEF Reaper

\* Every step.
LEMMA NextTargets ==
  ASSUME IInv, PlacesInv, QueueOfOthers, TargetsInv, FieldsInv, SingleClaim = TRUE,
         outcome = "running", [LifeNext]_allLifeVars
  PROVE  TargetsInv'
<1>1. CASE UNCHANGED allLifeVars
  <2>1. ThreadsKept /\ UNCHANGED lifeVars
    BY <1>1 DEF allLifeVars, allMtxVars, schedVars, threadVars, objVars, ThreadsKept
  <2> QED BY <2>1, TargetsKept DEF lifeVars
<1>2. CASE KernelStep /\ UNCHANGED lifeVars
  BY <1>2, KernelKeepsThreads, TargetsKept DEF lifeVars
<1>3. ASSUME NEW k \in Lwps, NEW u \in Uthreads,
             \/ UthreadMtxLockReturn(k, u) /\ UNCHANGED lifeVars
             \/ OtherStep(k, u) \/ Relock(k, u)
      PROVE  TargetsInv'
  <2>1. ThreadsKept
    BY <1>3, ClientKeepsThreads DEF OtherStep, Relock, MtxStep, allMtxVars
  <2>2. UNCHANGED <<at, subject, ut_detached, reap_queue, claimed>>
    BY <1>3 DEF OtherStep, Relock, lifeVars
  <2> QED BY <2>1, <2>2, TargetsKept
<1>4. ASSUME NEW k \in Lwps, NEW u \in Uthreads, LifeCall(k, u)
      PROVE  TargetsInv'
  BY <1>4, ExitTargets, ClaimTargets, ReaperTargets DEF LifeCall
<1> QED BY <1>1, <1>2, <1>3, <1>4, LifeSteps

\* At first nobody works on anybody.
LEMMA InitTargets == LifeInit => TargetsInv
<1> SUFFICES ASSUME LifeInit PROVE TargetsInv
  OBVIOUS
<1>1. \A t \in Uthreads : ut_detached[t] => t \in claimed
  BY DEF LifeInit
<1>2. /\ \A t \in Uthreads : at[t] \notin ClaimPcs /\ at[t] # "reaper_destroy"
      /\ \A t \in Uthreads : ut_state[t] # "ZOMBIE"
      /\ reap_queue = <<>> /\ ReaperThr \in Uthreads
  BY LifeObjects DEF LifeInit, MtxInit, SchedInit, ClaimPcs
<1> QED BY <1>1, <1>2, EmptyQueue
        DEF TargetsInv, ClaimInv, AccountedInv, Taken, Claims, Marked

\* Who works on whom, in a program that claims each uthread once.
LEMMA TargetsInvariance ==
  ASSUME SingleClaim = TRUE
  PROVE  LifeSpec => [](LifeInv /\ TargetsInv)
<1>1. LifeInit => LifeInv /\ TargetsInv
  BY InitLifeInv, InitTargets
<1>2. LifeInv /\ TargetsInv /\ [LifeNext]_allLifeVars => LifeInv' /\ TargetsInv'
  <2> SUFFICES ASSUME LifeInv, TargetsInv, [LifeNext]_allLifeVars
               PROVE  LifeInv' /\ TargetsInv'
    OBVIOUS
  <2>1. LifeInv'
    BY NextLifeInv
  <2>2. CASE outcome = "running"
    BY <2>1, <2>2, NextTargets DEF LifeInv
  <2>3. CASE outcome # "running"
    <3>1. UNCHANGED allLifeVars
      BY <2>3, LifeSteps
    <3>2. ThreadsKept /\ UNCHANGED lifeVars
      BY <3>1 DEF allLifeVars, allMtxVars, schedVars, threadVars, objVars, ThreadsKept
    <3> QED BY <2>1, <3>2, TargetsKept DEF lifeVars
  <2> QED BY <2>2, <2>3
<1> QED BY <1>1, <1>2, PTL DEF LifeSpec

\* The assertions of the reaper and of utqueue_enqueue: the reap queue holds
\* zombies, each once, in a program that claims each uthread once.
THEOREM ReapQueueIsSound ==
  ASSUME SingleClaim = TRUE
  PROVE  LifeSpec => []ReapQueueSound
<1>1. TargetsInv => ReapQueueSound
  BY DEF TargetsInv, ClaimInv, ReapQueueSound, Taken, Marked
<1> QED BY <1>1, TargetsInvariance, PTL

\* A zombie that was joined or detached is never dropped, in such a program.
THEOREM ZombiesAccounted ==
  ASSUME SingleClaim = TRUE
  PROVE  LifeSpec => []ZombieAccounted
<1>1. TargetsInv => ZombieAccounted
  BY DEF TargetsInv, AccountedInv, ZombieAccounted, Taken, Marked, Claims, ClaimPcs
<1> QED BY <1>1, TargetsInvariance, PTL

-----------------------------------------------------------------------------
(* The sleep of the reaper.                                                *)

\* Nobody but the reaper waits on reap_cond; it has found the reap queue empty,
\* and if it is not any more a uthread is about to signal.
ReaperAsleep == at[ReaperThr] = "reaper_sleep" \/ Awaits(ReaperThr, ReapCond)
SleepInv ==
  /\ \A t \in Uthreads : Awaits(t, ReapCond) => t = ReaperThr /\ at[t] = "reaper"
  /\ at[ReaperThr] = "reaper_unlock" => reap_queue = <<>> /\ HasReap(ReaperThr)
  /\ reap_queue # <<>> /\ ReaperAsleep => \E t \in Uthreads : at[t] = "signal"

\* A step that concerns neither the reaper nor reap_cond.
LEMMA SleepKept ==
  ASSUME SleepInv, UNCHANGED <<at, reap_queue>>,
         \A t \in Uthreads : Awaits(t, ReapCond)' <=> Awaits(t, ReapCond),
         HasReap(ReaperThr) => HasReap(ReaperThr)'
  PROVE  SleepInv'
<1>1. ReaperAsleep' <=> ReaperAsleep
  BY LifeObjects DEF ReaperAsleep
<1> QED BY <1>1 DEF SleepInv

\* The mutexes that a uthread holds change by its own calls.
LEMMA HeldOnlyOwn ==
  ASSUME MInv, NEW k \in Lwps, NEW u \in Uthreads,
         MtxStep(k, u) \/ UNCHANGED mtxVars, NEW s \in Uthreads \ {u}
  PROVE  held'[s] = held[s]
BY DEF MInv, MtxTypeOK, MtxStep, UthreadMtxLock, UthreadMtxTrylock, UthreadMtxUnlock,
       UthreadMtxLockReturn, MtxTake, MtxBlock, mtxVars

\* Who waits on reap_cond begins by ReaperSleep and ends by being woken.
LEMMA ReapCondAwaits ==
  ASSUME IInv, PlacesInv, HeldInv, outcome = "running",
         NEW k \in Lwps, NEW u \in Uthreads, LifeCall(k, u),
         ~ReaperSleep(k, u), ~WakesReaper(k, u), NEW s \in Uthreads
  PROVE  Awaits(s, ReapCond)' <=> Awaits(s, ReapCond)
<1>0. ReapCond \in Objs \ Mutexes /\ ReapCond \in SyncObjs
  BY LifeObjects
<1>1. CASE MtxStep(k, u)
  BY <1>0, <1>1, AwaitsThroughMtx
<1>2. CASE Aborts
  BY <1>2 DEF Aborts, Awaits, ToBeQueued, threadVars, lwpVars
<1>3. CASE SchedCall(k, u)
  BY <1>0, <1>3, SchedCallAwaits
<1> QED BY <1>1, <1>2, <1>3, LifeCalls

\* The reaper's steps.
LEMMA ReaperSleepInv ==
  ASSUME IInv, MInv, PlacesInv, HeldInv, SleepInv,
         outcome = "running",
         NEW k \in Lwps, Reaper(k, ReaperThr)
  PROVE  SleepInv'
<1> DEFINE r == ReaperThr
<1>0. /\ r \in Uthreads /\ LifeCall(k, r) /\ at \in [Uthreads -> LifePcs]
      /\ ReapCond \in SyncObjs /\ PlaceOf(r)
  BY LifeObjects DEF LifeCall, PlacesInv
<1>1. \A t \in Uthreads : ~Awaits(t, ReapCond)
  BY <1>0, LifeCalls, ClientAwaitsNothing DEF SleepInv
<1>2. ~WakesReaper(k, r)
  BY <1>0 DEF WakesReaper, SignalReaper, Here, PlaceOf, ReaperPcs
<1>3. CASE ReaperSleep(k, r)
  <2>1. \A t \in Uthreads : Awaits(t, ReapCond)' <=> t = r
    BY <1>0, <1>1, <1>3, AwaitsAfterWaitOn DEF ReaperSleep
  <2>2. /\ at[r] = "reaper_sleep" /\ at' = [at EXCEPT ![r] = "reaper"]
        /\ reap_queue' = reap_queue
    BY <1>3 DEF ReaperSleep, Here, Goes
  <2>3. ASSUME NEW t \in Uthreads, at[t] = "signal" PROVE at'[t] = "signal"
    BY <1>0, <2>2, <2>3
  <2> QED BY <1>0, <2>1, <2>2, <2>3 DEF SleepInv, ReaperAsleep
<1>4. CASE ~ReaperSleep(k, r)
  <2>1. \A t \in Uthreads : ~Awaits(t, ReapCond)'
    BY <1>0, <1>1, <1>2, <1>4, ReapCondAwaits
  <2>2. ASSUME NEW next, Goes(r, next), next \notin {"reaper_unlock", "reaper_sleep"}
        PROVE  SleepInv'
    BY <1>0, <2>1, <2>2 DEF Goes, SleepInv, ReaperAsleep
  <2>3. CASE ReaperWait(k, r)
    BY <1>0, <2>1, <2>3
       DEF ReaperWait, Goes, SleepInv, ReaperAsleep, HasReap, mtxVars
  <2>4. CASE UnlocksReap(k, r, "reaper_unlock", "reaper_sleep")
    BY <1>0, <2>1, <2>4 DEF UnlocksReap, Here, Goes, SleepInv, ReaperAsleep
  <2>5. CASE ReaperDestroy(k, r)
    <3>1. PICK z \in Uthreads :
            at' = [at EXCEPT ![r] = "reaper_loop", ![z] = "program"]
      BY <1>0, <2>5 DEF ReaperDestroy, Here, PlaceOf, SubjectPcs
    <3>2. at'[r] \notin {"reaper_unlock", "reaper_sleep"}
      BY <1>0, <3>1
    <3> QED BY <1>0, <2>1, <3>2 DEF SleepInv, ReaperAsleep
  <2>6. CASE LocksReap(k, r, "reaper", "reaper_loop") \/ ReaperTake(k, r)
    BY <2>2, <2>6 DEF LocksReap, ReaperTake
  <2> QED BY <1>4, <2>3, <2>4, <2>5, <2>6 DEF Reaper
<1> QED BY <1>3, <1>4

\* Whoever puts a zombie on the reap queue has reap_mtx and goes to signal.
LEMMA QueuersSignal ==
  ASSUME PlacesInv, NEW k \in Lwps, NEW u \in Uthreads \ {ReaperThr}, LifeCall(k, u)
  PROVE  /\ reap_queue' = reap_queue \/ (HasReap(u) /\ at'[u] = "signal")
         /\ \A s \in Uthreads \ {u} : at'[s] = at[s]
         /\ at[u] = "signal" => SignalReaper(k, u)
         /\ ~ReaperSleep(k, u)
<1>0. at \in [Uthreads -> LifePcs] /\ at[u] \notin ReaperPcs
  BY DEF PlacesInv, PlaceOf
<1>1. ~Reaper(k, u) /\ ~ReaperSleep(k, u)
  BY <1>0 DEF Reaper, LocksReap, ReaperWait, UnlocksReap, ReaperSleep, ReaperTake,
              ReaperDestroy, Here, ReaperPcs
<1>2. CASE UthreadExit(k, u)
  BY <1>0, <1>1, <1>2
     DEF UthreadExit, LocksReap, UnlocksReap, ExitZombie, ExitWake, ExitLeave, Goes, Here
<1>3. CASE UthreadJoin(k, u)
  BY <1>0, <1>1, <1>3
     DEF UthreadJoin, LocksReap, Join, JoinReturn, JoinCheck, Goes, Here, Accepts
<1>4. CASE UthreadDetach(k, u)
  BY <1>0, <1>1, <1>4
     DEF UthreadDetach, LocksReap, Detach, DetachCheck, UnlocksSubject, Goes, Here,
         Accepts
<1>5. CASE MakeReapable(k, u)
  BY <1>0, <1>1, <1>5
     DEF MakeReapable, SignalReaper, Signalled, ReapUnlock, UnlocksReap, ExitBare,
         UnlocksSubject, Goes, Here
<1> QED BY <1>1, <1>2, <1>3, <1>4, <1>5 DEF LifeCall

\* The signal finds the reaper, if it sleeps, on the queue of reap_cond.
LEMMA SignalWakes ==
  ASSUME IInv, PlacesInv, HeldInv, SleepInv, NEW k \in Lwps,
         NEW u \in Uthreads \ {ReaperThr}, SignalReaper(k, u), ReaperAsleep
  PROVE  WakesReaper(k, u) /\ ~Awaits(ReaperThr, ReapCond)'
<1>0. ReaperThr \in Uthreads /\ ReapCond \in SyncObjs /\ NULL \notin Lwps
  BY LifeObjects
<1>1. pmut[ReapCond] = NULL
  BY DEF SignalReaper
<1>2. at[ReaperThr] # "reaper_sleep"
  BY <1>0, <1>1 DEF HeldInv, HeldOf, HeldPcs, Holds
<1>3. Occurs(waiters[ReapCond], ReaperThr)
  BY <1>0, <1>1, <1>2, RequestHoldsPmut DEF ReaperAsleep, Awaits
<1>4. WakesReaper(k, u)
  <2>1. waiters[ReapCond] # <<>>
    BY <1>3, EmptyQueue
  <2> QED BY <2>1 DEF SignalReaper, WakesReaper
<1>5. TakeWaiter(k, u, ReapCond, TRUE) /\ TRUE \in BOOLEAN
  BY <1>4 DEF WakesReaper
<1>6. Head(waiters[ReapCond]) \in Uthreads /\ Awaits(Head(waiters[ReapCond]), ReapCond)
  BY <1>0, <1>5, AwaitsAfterTakeWaiter
<1>7. Head(waiters[ReapCond]) = ReaperThr
  BY <1>6 DEF SleepInv
<1>8. ~Awaits(ReaperThr, ReapCond)'
  <2>1. ASSUME NEW t \in Uthreads, NEW o \in SyncObjs
        PROVE  Awaits(t, o)' <=> Awaits(t, o) /\ ~(t = Head(waiters[ReapCond]) /\ o = ReapCond)
    BY <1>0, <1>5, <2>1, AwaitsAfterTakeWaiter
  <2> QED BY <1>0, <1>7, <2>1
<1> QED BY <1>4, <1>8

\* The steps of the others.
LEMMA OthersSleepInv ==
  ASSUME IInv, MInv, PlacesInv, HeldInv, SleepInv,
         outcome = "running",
         NEW k \in Lwps, NEW u \in Uthreads \ {ReaperThr}, LifeCall(k, u)
  PROVE  SleepInv'
<1> DEFINE r == ReaperThr
<1>0. /\ r \in Uthreads /\ ReapCond \in SyncObjs /\ ReapMtx \in Mutexes
      /\ r # u /\ at'[r] = at[r]
  BY LifeObjects, QueuersSignal
<1>1. held'[r] = held[r]
  BY <1>0, LifeCalls, HeldOnlyOwn
<1>2. ASSUME NEW t \in Uthreads, Awaits(t, ReapCond)' PROVE Awaits(t, ReapCond)
  <2>1. CASE WakesReaper(k, u)
    BY <1>0, <1>2, <2>1, AwaitsAfterTakeWaiter DEF WakesReaper
  <2> QED BY <1>2, <2>1, ReapCondAwaits, QueuersSignal
<1>3. \A t \in Uthreads : Awaits(t, ReapCond)' => t = r /\ at'[t] = "reaper"
  BY <1>0, <1>2 DEF SleepInv
<1>4. ASSUME at'[r] = "reaper_unlock" PROVE reap_queue' = <<>> /\ HasReap(r)'
  <2>1. reap_queue = <<>> /\ HasReap(r)
    BY <1>0, <1>4 DEF SleepInv
  <2>2. ~HasReap(u)
    BY <1>0, <2>1 DEF HasReap, MInv, OwnerInv
  <2> QED BY <1>1, <2>1, <2>2, QueuersSignal DEF HasReap
<1>5. ASSUME reap_queue' # <<>>, ReaperAsleep'
      PROVE  \E t \in Uthreads : at'[t] = "signal"
  <2>1. ReaperAsleep
    BY <1>0, <1>2, <1>5 DEF ReaperAsleep
  <2>2. CASE reap_queue' = reap_queue
    <3>1. PICK t \in Uthreads : at[t] = "signal"
      BY <1>5, <2>1, <2>2 DEF SleepInv
    <3>2. t # u
      <4> SUFFICES ASSUME t = u PROVE FALSE
        OBVIOUS
      <4>1. ~Awaits(r, ReapCond)' /\ SignalReaper(k, u)
        BY <2>1, <3>1, QueuersSignal, SignalWakes
      <4>2. at[r] # "reaper_sleep"
        BY <1>0, <4>1, LifeObjects DEF SignalReaper, HeldInv, HeldOf, HeldPcs, Holds
      <4> QED BY <1>0, <1>5, <4>1, <4>2 DEF ReaperAsleep
    <3> QED BY <3>1, <3>2, QueuersSignal
  <2> QED BY <2>2, QueuersSignal
<1> QED BY <1>3, <1>4, <1>5 DEF SleepInv

\* Every step.
LEMMA NextSleep ==
  ASSUME IInv, MInv, PlacesInv, HeldInv, SleepInv,
         outcome = "running", [LifeNext]_allLifeVars
  PROVE  SleepInv'
<1>0. ReapCond \in Objs \ Mutexes /\ ReapCond \in SyncObjs /\ ReaperThr \in Uthreads
  BY LifeObjects
<1>1. ASSUME UNCHANGED allMtxVars, UNCHANGED <<at, reap_queue>>
      PROVE  SleepInv'
  BY <1>1, SleepKept DEF allMtxVars, schedVars, threadVars, objVars, lwpVars, mtxVars,
                         Awaits, ToBeQueued, HasReap
<1>2. CASE KernelStep /\ UNCHANGED <<mtxVars, lifeVars>>
  <2>1. \A s \in Uthreads : Awaits(s, ReapCond)' <=> Awaits(s, ReapCond)
    BY <1>0, <1>2, AwaitsThroughLwp, AwaitsThroughUthread DEF KernelStep, UthreadStep
  <2> QED BY <1>2, <2>1, SleepKept DEF mtxVars, lifeVars, HasReap
<1>3. ASSUME NEW k \in Lwps, NEW u \in Uthreads,
             UthreadMtxLockReturn(k, u) /\ UNCHANGED lifeVars
      PROVE  SleepInv'
  <2>1. \A s \in Uthreads : Awaits(s, ReapCond)' <=> Awaits(s, ReapCond)
    BY <1>0, <1>3, AwaitsThroughMtx DEF MtxStep
  <2>2. HasReap(ReaperThr) => HasReap(ReaperThr)'
    BY <1>0, <1>3 DEF UthreadMtxLockReturn, HasReap, MInv, MtxTypeOK
  <2> QED BY <1>3, <2>1, <2>2, SleepKept DEF lifeVars
<1>4. ASSUME NEW k \in Lwps, NEW u \in Uthreads, OtherStep(k, u)
      PROVE  SleepInv'
  <2>1. \A s \in Uthreads : Awaits(s, ReapCond)' <=> Awaits(s, ReapCond)
    BY <1>0, <1>4, AwaitsThroughUthread DEF OtherStep, UthreadStep
  <2> QED BY <1>4, <2>1, SleepKept DEF OtherStep, mtxVars, lifeVars, HasReap
<1>5. ASSUME NEW k \in Lwps, NEW u \in Uthreads, Relock(k, u)
      PROVE  SleepInv'
  BY <1>1, <1>5 DEF Relock
<1>6. ASSUME NEW k \in Lwps, NEW u \in Uthreads, LifeCall(k, u)
      PROVE  SleepInv'
  <2>1. CASE u = ReaperThr
    <3>1. Reaper(k, u)
      <4>1. at[u] \in ReaperPcs
        BY <2>1 DEF PlacesInv, PlaceOf
      <4> QED BY <1>6, <2>1, <4>1
              DEF LifeCall, UthreadExit, LocksReap, UnlocksReap, ExitZombie, ExitWake,
                  ExitLeave, UthreadJoin, Join, JoinReturn, JoinCheck, UthreadDetach,
                  Detach, DetachCheck, Accepts, MakeReapable, SignalReaper, Signalled,
                  ReapUnlock, ExitBare, Here, ReaperPcs
    <3> QED BY <2>1, <3>1, ReaperSleepInv
  <2> QED BY <1>6, <2>1, OthersSleepInv
<1>7. CASE UNCHANGED allLifeVars
  BY <1>1, <1>7 DEF allLifeVars, lifeVars
<1> QED BY <1>2, <1>3, <1>4, <1>5, <1>6, <1>7, LifeSteps

\* At first nobody sleeps.
LEMMA InitSleep == LifeInit => SleepInv
<1> SUFFICES ASSUME LifeInit PROVE SleepInv
  OBVIOUS
<1>1. /\ at[ReaperThr] = "reaper" /\ reap_queue = <<>>
      /\ waiters[ReapCond] = <<>>
      /\ \A t \in Uthreads : call[t] # "switch"
      /\ \A l \in Lwps : ut_curthr[l] = NULL
  BY LifeObjects DEF LifeInit, MtxInit, SchedInit
<1>2. \A t \in Uthreads : ~Awaits(t, ReapCond)
  BY <1>1, EmptyQueue, LifeObjects DEF Awaits, ToBeQueued
<1> QED BY <1>1, <1>2 DEF SleepInv

\* No signal to the reaper is lost: the reaper looks at the reap queue and goes
\* to sleep under reap_mtx and then the mutex of reap_cond, and who puts a zombie
\* on the queue signals before it gives up reap_mtx.
THEOREM SignalsReachReaper == LifeSpec => []ReaperSignalled
<1>1. LifeInit => LifeInv /\ SleepInv
  BY InitLifeInv, InitSleep
<1>2. LifeInv /\ SleepInv /\ [LifeNext]_allLifeVars => LifeInv' /\ SleepInv'
  <2> SUFFICES ASSUME LifeInv, SleepInv, [LifeNext]_allLifeVars
               PROVE  LifeInv' /\ SleepInv'
    OBVIOUS
  <2>1. LifeInv'
    BY NextLifeInv
  <2>2. CASE outcome = "running"
    BY <2>1, <2>2, NextSleep DEF LifeInv
  <2>3. CASE outcome # "running"
    <3>1. UNCHANGED allLifeVars
      BY <2>3, LifeSteps
    <3> QED BY <2>1, <3>1, SleepKept
            DEF allLifeVars, lifeVars, allMtxVars, schedVars, threadVars, objVars,
                lwpVars, mtxVars, Awaits, ToBeQueued, HasReap
  <2> QED BY <2>2, <2>3
<1>3. SleepInv => ReaperSignalled
  BY DEF SleepInv, ReaperSignalled, ReaperAsleep
<1> QED BY <1>1, <1>2, <1>3, PTL DEF LifeSpec

-----------------------------------------------------------------------------
(* The sleep of a joiner.                                                  *)

\* A joiner is queued on its target only; it is awake, or is being woken, only
\* if the target has exited.
JoinOf(t) ==
  at[t] = "joined" =>
    /\ \A o \in SyncObjs : ~Awaits(t, o)
    /\ \A w \in Uthreads : Occurs(waiters[w], t) => w = subject[t]
    /\ ut_state[t] = "WAIT" \/ ut_state[subject[t]] = "ZOMBIE"
    /\ \A w \in Uthreads : Wakes(w, t) => ut_state[subject[t]] = "ZOMBIE"
JoinInv == \A t \in Uthreads : JoinOf(t)

\* An LWP on the stack of a uthread that waits is about to leave it.
WaitsOffStack ==
  \A l \in Lwps, t \in Uthreads :
    OnStack(l, t) /\ ut_state[t] = "WAIT" => call[t] = "switch"

\* t is queued nowhere else, and is woken by its target only.
StaysJoined(t) ==
  /\ \A o \in SyncObjs : Awaits(t, o)' => Awaits(t, o)
  /\ \A w \in Uthreads : Occurs(waiters'[w], t) => Occurs(waiters[w], t)
  /\ ut_state[t] = "WAIT" =>
       ut_state'[t] = "WAIT" \/ \E w \in Uthreads : Wakes(w, t)
  /\ \A w \in Uthreads :
       Wakes(w, t)' =>
         \/ Wakes(w, t)
         \/ \E o \in SyncObjs : Awaits(t, o)
         \/ Occurs(waiters[w], t) /\ ut_state[w] = "ZOMBIE"

\* A joiner that stays so, whose target does not vanish.
LEMMA JoinStep ==
  ASSUME NEW t \in Uthreads, JoinOf(t), at[t] = "joined", StaysJoined(t),
         subject'[t] = subject[t],
         ut_state[subject[t]] = "ZOMBIE" => ut_state'[subject[t]] = "ZOMBIE"
  PROVE  JoinOf(t)'
BY DEF JoinOf, StaysJoined

\* Steps that leave the uthreads and the queues alone.
LEMMA StaysUnchanged ==
  ASSUME NEW t \in Uthreads, UNCHANGED <<threadVars, waiters, lwpVars>>
  PROVE  StaysJoined(t)
BY DEF StaysJoined, Awaits, ToBeQueued, Wakes, threadVars, lwpVars

\* The steps of LWPs and of library code.
LEMMA StaysThroughKernel ==
  ASSUME IInv, KernelStep, NEW t \in Uthreads
  PROVE  StaysJoined(t)
<1>1. \A o \in SyncObjs : Awaits(t, o)' <=> Awaits(t, o)
  BY AwaitsThroughLwp, AwaitsThroughUthread DEF KernelStep, UthreadStep
<1>2. \A w \in Uthreads : waiters'[w] = waiters[w]
  BY KernelKeepsThreads DEF ThreadsKept
<1>3. TypeOK /\ LwpInv /\ CallInv
  BY DEF IInv, PlaceInv
<1>4. SUFFICES /\ ut_state[t] = "WAIT" =>
                    ut_state'[t] = "WAIT" \/ \E w \in Uthreads : Wakes(w, t)
               /\ \A w \in Uthreads : Wakes(w, t)' => Wakes(w, t)
  BY <1>1, <1>2 DEF StaysJoined
<1> USE DEF Wakes, threadVars, objVars, runqVars, lwpVars
<1>5. ASSUME NEW k \in Lwps,
             LwpStart(k) \/ LwpPark(k) \/ LwpUnpark(k) \/ SpuriousWakeup(k)
      PROVE  UNCHANGED <<ut_state, call, target>>
  BY <1>5 DEF LwpStart, LwpPark, LwpUnpark, SpuriousWakeup
<1>6. ASSUME NEW k \in Lwps, LwpDispatch(k)
      PROVE  /\ ut_state[t] = "WAIT" => ut_state'[t] = "WAIT"
             /\ UNCHANGED <<call, target>>
  <2>1. PICK p \in Prios : /\ runq_table[p] # <<>>
                           /\ ut_state' = [ut_state EXCEPT ![Head(runq_table[p])] = "ON_CPU"]
    BY <1>6 DEF LwpDispatch, FirstNonEmpty
  <2>2. runq_table[p] \in Seq(Uthreads)
    BY <1>3 DEF TypeOK
  <2>3. Head(runq_table[p]) \in Uthreads /\ Occurs(runq_table[p], Head(runq_table[p]))
    BY <2>1, <2>2, DequeueQueue
  <2>4. ut_state[Head(runq_table[p])] = "RUNNABLE"
    BY <2>3 DEF IInv, RunqCoherent
  <2>5. UNCHANGED <<call, target>>
    BY <1>6 DEF LwpDispatch
  <2> QED BY <1>3, <2>1, <2>3, <2>4, <2>5 DEF TypeOK
<1>7. ASSUME NEW k \in Lwps, LwpSwitch(k)
      PROVE  /\ ut_state[t] = "WAIT" => ut_state'[t] = "WAIT"
             /\ UNCHANGED <<call, target>>
  <2> DEFINE c == ut_curthr[k]
  <2>1. ASSUME c # NULL PROVE c \in Uthreads /\ Asks(k, c, curlwp[k])
    BY <1>3, <1>7, <2>1 DEF TypeOK, LwpSwitch, IInv, PlaceInv, AsksInv, AsksOf
  <2>2. ut_state[t] = "WAIT" => ut_state'[t] = "WAIT"
    BY <1>3, <1>7, <2>1, LifeObjects DEF LwpSwitch, TypeOK, Asks
  <2> QED BY <1>7, <2>2 DEF LwpSwitch
<1>8. ASSUME NEW k \in Lwps, NEW u \in Uthreads,
             UthreadSwitch(k, u) \/ UthreadWake(k, u)
               \/ \E prio \in Prios : UthreadStartOnRunq(k, u, prio)
      PROVE  /\ ut_state[t] = "WAIT" =>
                  ut_state'[t] = "WAIT" \/ \E w \in Uthreads : Wakes(w, t)
             /\ \A w \in Uthreads : Wakes(w, t)' => Wakes(w, t)
  <2>1. CASE UthreadSwitch(k, u)
    BY <1>3, <2>1 DEF UthreadSwitch, TypeOK
  <2>2. CASE UthreadWake(k, u)
    <3>1. target[u] \in Uthreads /\ Wakes(u, target[u])
      BY <1>3, <2>2 DEF UthreadWake, Runs, CallInv
    <3>2. /\ ut_state' = [ut_state EXCEPT ![target[u]] = "RUNNABLE"] \/ ut_state' = ut_state
          /\ call' = [call EXCEPT ![u] = "client"]
          /\ \A w \in Uthreads \ {u} : target'[w] = target[w]
      BY <1>3, <2>2 DEF UthreadWake, TypeOK
    <3> QED BY <1>3, <3>1, <3>2 DEF TypeOK
  <2>3. ASSUME NEW prio \in Prios, UthreadStartOnRunq(k, u, prio)
        PROVE  /\ ut_state[t] = "WAIT" => ut_state'[t] = "WAIT"
               /\ \A w \in Uthreads : Wakes(w, t)' => Wakes(w, t)
    <3>1. target[u] \in Uthreads
      BY <1>3, <2>3 DEF UthreadStartOnRunq, Runs, CallInv
    <3>2. /\ \/ ut_state' = ut_state
             \/ /\ ut_state' = [ut_state EXCEPT ![target[u]] = "RUNNABLE"]
                /\ ut_state[target[u]] = "TRANSITION"
          /\ call' = [call EXCEPT ![u] = "client"]
          /\ \A w \in Uthreads \ {u} : target'[w] = target[w]
      BY <1>3, <2>3 DEF UthreadStartOnRunq, TypeOK
    <3> QED BY <1>3, <3>1, <3>2 DEF TypeOK
  <2> QED BY <1>8, <2>1, <2>2, <2>3
<1> QED BY <1>5, <1>6, <1>7, <1>8 DEF KernelStep, LwpStep

\* The steps of other uthreads.
LEMMA StaysThroughOther ==
  ASSUME IInv, NEW k \in Lwps, NEW u \in Uthreads, Runs(k, u, "client"),
         \/ SchedCall(k, u) \/ MtxStep(k, u) \/ Yield(k, u) \/ Aborts
         \/ \E slot \in Uthreads : Allocate(k, u, slot),
         NEW t \in Uthreads \ {u}
  PROVE  StaysJoined(t)
<1> USE DEF Wakes
<1>0. /\ TypeOK /\ call[u] = "client" /\ ReapCond \in SyncObjs
      /\ \A o \in SyncObjs : o \in Objs /\ o \notin Uthreads
      /\ \A w \in Uthreads : w \in Objs /\ waiters[w] \in Seq(Uthreads) /\ NoDup(waiters[w])
      /\ waiters \in [Objs -> Seq(Uthreads)]
  BY LifeObjects, SchedAssumption
     DEF IInv, PlaceInv, QueueInv, Runs, TypeOK, Objs, SchedAssumption
<1>1. ASSUME UNCHANGED <<threadVars, waiters, lwpVars>>
      PROVE  StaysJoined(t)
  BY <1>1, StaysUnchanged
<1>2. ASSUME NEW o \in SyncObjs, WaitOn(k, u, o)
      PROVE  StaysJoined(t)
  <2>1. \A x \in SyncObjs : Awaits(t, x)' <=> Awaits(t, x)
    BY <1>2, AwaitsAfterWaitOn
  <2>2. /\ ut_state'[t] = ut_state[t] /\ UNCHANGED <<waiters, target>>
        /\ call' = [call EXCEPT ![u] = "switch"]
    BY <1>0, <1>2 DEF WaitOn, CallsSwitch, TypeOK
  <2> QED BY <1>0, <2>1, <2>2 DEF StaysJoined, TypeOK
<1>3. ASSUME NEW o \in SyncObjs, NEW keep \in BOOLEAN, TakeWaiter(k, u, o, keep)
      PROVE  StaysJoined(t)
  <2>1. /\ \A x \in SyncObjs : Awaits(t, x)' => Awaits(t, x)
        /\ t = Head(waiters[o]) => Awaits(t, o)
    BY <1>3, AwaitsAfterTakeWaiter
  <2>2. /\ ut_state' = ut_state /\ \A w \in Uthreads : waiters'[w] = waiters[w]
        /\ \A w \in Uthreads \ {u} : call'[w] = call[w] /\ target'[w] = target[w]
        /\ target'[u] = Head(waiters[o])
    BY <1>0, <1>3 DEF TakeWaiter, TypeOK
  <2> QED BY <2>1, <2>2 DEF StaysJoined
<1>4. ASSUME NEW thr \in Uthreads, TakeWaiter(k, u, thr, TRUE)
      PROVE  StaysJoined(t)
  <2>1. \A x \in SyncObjs : Awaits(t, x)' <=> Awaits(t, x)
    <3>1. SchedCall(k, u)
      BY <1>4 DEF SchedCall
    <3>2. ~ReaperSleep(k, u) /\ ~WakesReaper(k, u)
      <4>1. call'[u] = "wake" /\ waiters'[ReapCond] = waiters[ReapCond] /\ thr = u
        BY <1>0, <1>4 DEF TakeWaiter, TypeOK
      <4>2. ~ReaperSleep(k, u)
        BY <1>0, <4>1 DEF ReaperSleep, WaitOn, CallsSwitch, TypeOK
      <4>3. ~WakesReaper(k, u)
        <5>1. ASSUME TakeWaiter(k, u, ReapCond, TRUE) PROVE FALSE
          <6>1. waiters'[ReapCond] = Tail(waiters[ReapCond]) /\ waiters[ReapCond] # <<>>
            BY <1>0, <5>1 DEF TakeWaiter
          <6>2. waiters[ReapCond] \in Seq(Uthreads)
            BY <1>0
          <6>3. NoDup(waiters[ReapCond])
            BY <1>0 DEF IInv, PlaceInv, QueueInv
          <6> QED BY <4>1, <6>1, <6>2, <6>3, DequeueQueue
        <5> QED BY <5>1 DEF WakesReaper
      <4> QED BY <4>2, <4>3
    <3> QED BY <3>1, <3>2, SchedCallAwaits
  <2>2. /\ thr = u /\ ut_state[u] = "ZOMBIE" /\ waiters[u] # <<>>
        /\ ut_state' = ut_state
        /\ waiters'[u] = Tail(waiters[u])
        /\ \A w \in Uthreads \ {u} : waiters'[w] = waiters[w]
        /\ \A w \in Uthreads \ {u} : call'[w] = call[w] /\ target'[w] = target[w]
        /\ target'[u] = Head(waiters[u])
    BY <1>0, <1>4 DEF TakeWaiter, TypeOK
  <2>3. /\ Occurs(waiters[u], Head(waiters[u]))
        /\ Occurs(waiters'[u], t) => Occurs(waiters[u], t)
    BY <1>0, <2>2, DequeueQueue
  <2> QED BY <2>1, <2>2, <2>3 DEF StaysJoined
<1>5. ASSUME NEW thr \in Uthreads,
             \/ WaitForExit(k, u, thr) \/ DestroyCall(k, u, thr)
             \/ BecomeZombie(k, u) \/ LeaveBare(k, u)
             \/ LeaveForGood(k, u) /\ pmut[u] = k
      PROVE  StaysJoined(t)
  <2>1. \A x \in SyncObjs : Awaits(t, x)' => Awaits(t, x)
    <3>1. /\ ~WakesReaper(k, u)
          /\ ~ReaperSleep(k, u)
      <4>1. /\ ~TakeWaiter(k, u, ReapCond, TRUE)
            /\ ~WaitOn(k, u, ReapCond)
        BY <1>0, <1>5, LifeObjects
           DEF WaitForExit, DestroyCall, Destroy, BecomeZombie, LeaveForGood, LeaveBare,
               TakeWaiter, WaitOn, CallsSwitch, TypeOK
      <4> QED BY <4>1 DEF WakesReaper, ReaperSleep
    <3>2. SchedCall(k, u)
      BY <1>5 DEF SchedCall
    <3> QED BY <3>1, <3>2, SchedCallAwaits
  <2>2. CASE WaitForExit(k, u, thr)
    <3>1. /\ ut_state'[t] = ut_state[t] /\ target' = target
          /\ call' = [call EXCEPT ![u] = "switch"]
          /\ waiters' = [waiters EXCEPT ![thr] = utqueue_enqueue(waiters[thr], u)]
      BY <1>0, <2>2 DEF WaitForExit, CallsSwitch, TypeOK
    <3>2. ASSUME NEW w \in Uthreads, Occurs(waiters'[w], t) PROVE Occurs(waiters[w], t)
      <4>1. waiters[thr] \in Seq(Uthreads) /\ waiters'[thr] = utqueue_enqueue(waiters[thr], u)
        BY <1>0, <3>1
      <4>2. ASSUME NEW q \in Seq(Uthreads), Occurs(utqueue_enqueue(q, u), t)
            PROVE  Occurs(q, t)
        BY <4>2, EnqueueQueue
      <4>3. w # thr => waiters'[w] = waiters[w]
        BY <1>0, <3>1
      <4> QED BY <3>2, <4>1, <4>2, <4>3
    <3> QED BY <1>0, <2>1, <3>1, <3>2 DEF StaysJoined, TypeOK
  <2>3. CASE DestroyCall(k, u, thr)
    <3>1. /\ ut_state[t] = "WAIT" => ut_state'[t] = "WAIT"
          /\ UNCHANGED <<call, target>>
          /\ waiters' = [waiters EXCEPT ![thr] = <<>>]
      BY <1>0, <2>3 DEF DestroyCall, Destroy, TypeOK
    <3>2. \A w \in Uthreads : Occurs(waiters'[w], t) => Occurs(waiters[w], t)
      BY <1>0, <3>1, EmptyQueue
    <3> QED BY <2>1, <3>1, <3>2 DEF StaysJoined
  <2>4. CASE BecomeZombie(k, u) \/ LeaveForGood(k, u) \/ LeaveBare(k, u)
    <3>1. /\ ut_state'[t] = ut_state[t] /\ UNCHANGED <<target, waiters>>
          /\ \A w \in Uthreads : call'[w] = "wake" => call[w] = "wake"
      BY <1>0, <2>4 DEF BecomeZombie, LeaveForGood, LeaveBare, CallsSwitch, TypeOK,
                        objVars
    <3> QED BY <2>1, <3>1 DEF StaysJoined
  <2> QED BY <1>5, <2>2, <2>3, <2>4
<1>6. ASSUME Yield(k, u) \/ \E slot \in Uthreads : Allocate(k, u, slot)
      PROVE  StaysJoined(t)
  <2>1. \A x \in SyncObjs : Awaits(t, x)' <=> Awaits(t, x)
    BY <1>6, AwaitsThroughUthread DEF UthreadStep
  <2>2. /\ ut_state[t] = "WAIT" => ut_state'[t] = "WAIT"
        /\ waiters' = waiters
        /\ \A w \in Uthreads : call'[w] = "wake" => call[w] = "wake"
        /\ \A w \in Uthreads \ {u} : target'[w] = target[w]
    BY <1>0, <1>6 DEF Yield, Allocate, CallsSwitch, TypeOK, objVars
  <2> QED BY <1>0, <2>1, <2>2 DEF StaysJoined
<1>7. CASE SchedCall(k, u)
  <2>1. ASSUME UNCHANGED schedVars \/ (\E o \in ReapObjs : LockPmut(k, u, o))
                 \/ \E os \in SUBSET (ReapObjs) : Unlocks(k, u, os)
        PROVE  UNCHANGED <<threadVars, waiters, lwpVars>>
    BY <2>1 DEF schedVars, objVars, LockPmut, Unlocks
  <2>2. (ReaperSleep(k, u) => WaitOn(k, u, ReapCond))
        /\ (WakesReaper(k, u) => TakeWaiter(k, u, ReapCond, TRUE))
    BY DEF ReaperSleep, WakesReaper
  <2>3. ReaperThr \in Uthreads
    BY LifeObjects
  <2> QED BY <1>0, <1>1, <1>2, <1>3, <1>4, <1>5, <1>7, <2>1, <2>2, <2>3 DEF SchedCall
<1>8. CASE MtxStep(k, u)
  <2>1. UNCHANGED schedVars => UNCHANGED <<threadVars, waiters, lwpVars>>
    BY DEF schedVars, objVars
  <2>2. \A m \in Mutexes : m \in SyncObjs
    BY MutexesDistinct
  <2>3. \/ UNCHANGED schedVars
        \/ \E m \in Mutexes : WaitOn(k, u, m) \/ TakeWaiter(k, u, m, FALSE)
    BY <1>8 DEF MtxStep, UthreadMtxLock, UthreadMtxTrylock, UthreadMtxUnlock,
                UthreadMtxLockReturn, MtxTake, MtxBlock, MtxRelease
  <2> QED BY <1>1, <1>2, <1>3, <2>1, <2>2, <2>3
<1> QED BY <1>1, <1>6, <1>7, <1>8 DEF Aborts

\* Uthreads begin to wait by uthread_join; only the reaper ends the life of one
\* that has exited.
LEMMA JoinersBegin ==
  ASSUME PlacesInv, NEW k \in Lwps, NEW u \in Uthreads, LifeCall(k, u)
  PROVE  /\ \A s \in Uthreads \ {u} :
              at'[s] = "joined" => at[s] = "joined" /\ subject'[s] = subject[s]
         /\ at'[u] = "joined" =>
              \E thr \in Uthreads :
                WaitForExit(k, u, thr) /\ subject' = [subject EXCEPT ![u] = thr]
         /\ \A z \in Uthreads :
              Exited(z, at[z], subject[z]) /\ ~Taken(z) =>
                Exited(z, at'[z], subject'[z])
<1> USE DEF Exited, ExitedPcs, ReapPcs
<1>0. /\ at \in [Uthreads -> LifePcs] /\ PlaceOf(u)
      /\ subject \in [Uthreads -> Uthreads \cup {NULL}]
  BY DEF PlacesInv
<1>1. CASE UthreadExit(k, u)
  BY <1>0, <1>1
     DEF UthreadExit, LocksReap, UnlocksReap, ExitZombie, ExitWake, ExitLeave, Goes, Here
<1>2. CASE UthreadJoin(k, u)
  <2>1. CASE \E thr \in Uthreads : Join(k, u, thr)
    BY <1>0, <2>1 DEF Join, Accepts, Goes, Here
  <2>2. CASE JoinReturn(k, u) \/ JoinCheck(k, u) \/ LocksReap(k, u, "join_reap", "join_check")
    BY <1>0, <2>2 DEF JoinReturn, JoinCheck, LocksReap, Goes, Here
  <2> QED BY <1>2, <2>1, <2>2 DEF UthreadJoin
<1>3. CASE UthreadDetach(k, u)
  <2>1. CASE \E thr \in Uthreads : Detach(k, u, thr)
    BY <1>0, <2>1 DEF Detach, Accepts, Goes, Here
  <2>2. CASE DetachCheck(k, u) \/ LocksReap(k, u, "detach_reap", "detach_check")
    BY <1>0, <2>2 DEF DetachCheck, LocksReap, UnlocksSubject, Goes, Here
  <2> QED BY <1>3, <2>1, <2>2 DEF UthreadDetach
<1>4. CASE MakeReapable(k, u)
  BY <1>0, <1>4
     DEF MakeReapable, SignalReaper, Signalled, ReapUnlock, UnlocksReap, UnlocksSubject,
         ExitBare, Goes, Here
<1>5. CASE Reaper(k, u)
  <2>1. CASE ReaperDestroy(k, u)
    <3>1. PICK z \in Uthreads : z = subject[u]
      BY <1>0, <2>1 DEF ReaperDestroy, Here, PlaceOf, SubjectPcs
    <3>2. /\ at' = [at EXCEPT ![u] = "reaper_loop", ![z] = "program"]
          /\ subject' = [subject EXCEPT ![u] = NULL, ![z] = NULL]
          /\ Taken(z) /\ at[u] = "reaper_destroy" /\ z # u
      BY <1>0, <2>1, <3>1
         DEF ReaperDestroy, Here, PlaceOf, ReaperPcs, SubjectPcs, Taken
    <3> QED BY <1>0, <3>2
  <2>2. CASE \/ LocksReap(k, u, "reaper", "reaper_loop") \/ ReaperWait(k, u)
             \/ UnlocksReap(k, u, "reaper_unlock", "reaper_sleep")
             \/ ReaperSleep(k, u) \/ ReaperTake(k, u)
    BY <1>0, <2>2
       DEF LocksReap, UnlocksReap, ReaperWait, ReaperSleep, ReaperTake, Goes, Here
  <2> QED BY <1>5, <2>1, <2>2 DEF Reaper
<1> QED BY <1>1, <1>2, <1>3, <1>4, <1>5 DEF LifeCall

\* A uthread that begins to wait is queued on its target, and nobody wakes it
\* yet.
LEMMA JoinBegins ==
  ASSUME IInv, NEW k \in Lwps, NEW u \in Uthreads, NEW thr \in Uthreads,
         WaitForExit(k, u, thr), subject'[u] = thr
  PROVE  JoinOf(u)'
<1>0. /\ TypeOK /\ Runs(k, u, "client")
      /\ \A o \in SyncObjs : o \in Objs /\ o \notin Uthreads /\ o # NULL
      /\ \A w \in Uthreads : w \in Objs /\ waiters[w] \in Seq(Uthreads)
  BY LifeObjects, SchedAssumption DEF IInv, TypeOK, Objs, WaitForExit, SchedAssumption
<1>1. ut_state[u] # "WAIT"
  BY <1>0 DEF WaitForExit
<1>2. \A w \in Uthreads : ~Occurs(waiters[w], u) /\ ~Wakes(w, u)
  BY <1>0, <1>1 DEF IInv, PlaceInv, QueueInv, WakeInv
<1>3. /\ ut_state'[u] = "WAIT" /\ target' = target
      /\ call' = [call EXCEPT ![u] = "switch"]
      /\ args'[u].queue = NULL
      /\ UNCHANGED <<ut_curthr, curlwp>>
      /\ \A o \in Objs \ {thr} : waiters'[o] = waiters[o]
  BY <1>0 DEF WaitForExit, CallsSwitch, TypeOK, lwpVars
<1>4. \A o \in SyncObjs : ~Awaits(u, o)'
  BY <1>0, <1>3, ClientAwaitsNothing DEF Awaits, ToBeQueued
<1>5. \A w \in Uthreads : ~Wakes(w, u)'
  BY <1>0, <1>2, <1>3 DEF Wakes, TypeOK
<1> QED BY <1>0, <1>2, <1>3, <1>4, <1>5 DEF JoinOf

\* uthread.c.
LEMMA LifeCallJoins ==
  ASSUME IInv, PlacesInv, HeldInv, TargetsInv, JoinInv,
         outcome = "running", PlacesInv',
         NEW k \in Lwps, NEW u \in Uthreads, LifeCall(k, u)
  PROVE  JoinInv'
<1> SUFFICES ASSUME NEW t \in Uthreads, at'[t] = "joined"
             PROVE  JoinOf(t)'
  BY DEF JoinInv, JoinOf
<1>1. CASE t = u
  <2>1. PICK thr \in Uthreads :
          WaitForExit(k, u, thr) /\ subject' = [subject EXCEPT ![u] = thr]
    BY <1>1, JoinersBegin
  <2> QED BY <1>1, <2>1, JoinBegins DEF PlacesInv
<1>2. CASE t # u
  <2>1. at[t] = "joined" /\ subject'[t] = subject[t]
    BY <1>2, JoinersBegin
  <2>2. PICK z \in Uthreads : z = subject[t]
    BY <2>1 DEF PlacesInv, PlaceOf, SubjectPcs, ClaimPcs
  <2>3. ~Taken(z)
    BY <2>1, <2>2 DEF TargetsInv, ClaimInv, Claims, ClaimPcs
  <2>4. ut_state[z] = "ZOMBIE" => ut_state'[z] = "ZOMBIE"
    BY <2>3, JoinersBegin DEF PlacesInv, PlaceOf
  <2>5. StaysJoined(t)
    BY <1>2, LifeCalls, StaysThroughOther
  <2> QED BY <2>1, <2>2, <2>4, <2>5, JoinStep DEF JoinInv
<1> QED BY <1>1, <1>2

\* Every step.
LEMMA NextJoins ==
  ASSUME IInv, PlacesInv, HeldInv, TargetsInv, JoinInv,
         outcome = "running", PlacesInv', [LifeNext]_allLifeVars
  PROVE  JoinInv'
<1>1. ASSUME UNCHANGED <<at, subject>>, ThreadsKept,
             \A t \in Uthreads : at[t] = "joined" => StaysJoined(t)
      PROVE  JoinInv'
  <2> SUFFICES ASSUME NEW t \in Uthreads, at'[t] = "joined"
               PROVE  JoinOf(t)'
    BY DEF JoinInv, JoinOf
  <2>1. at[t] = "joined" /\ subject'[t] = subject[t]
    BY <1>1
  <2>2. PICK z \in Uthreads : z = subject[t]
    BY <2>1 DEF PlacesInv, PlaceOf, SubjectPcs, ClaimPcs
  <2>3. ut_state[z] = "ZOMBIE" => ut_state'[z] = "ZOMBIE"
    BY <1>1 DEF ThreadsKept
  <2> QED BY <1>1, <2>1, <2>2, <2>3, JoinStep DEF JoinInv
<1>2. ASSUME UNCHANGED schedVars, UNCHANGED <<at, subject>>
      PROVE  JoinInv'
  <2>1. ThreadsKept /\ \A t \in Uthreads : StaysJoined(t)
    BY <1>2, StaysUnchanged DEF ThreadsKept, schedVars, threadVars, objVars
  <2> QED BY <1>1, <1>2, <2>1
<1>3. CASE KernelStep /\ UNCHANGED lifeVars
  BY <1>1, <1>3, KernelKeepsThreads, StaysThroughKernel DEF lifeVars
<1>4. ASSUME NEW k \in Lwps, NEW u \in Uthreads, OtherStep(k, u)
      PROVE  JoinInv'
  <2>1. /\ Runs(k, u, "client") /\ at[u] = "program" /\ UNCHANGED <<at, subject>>
        /\ Yield(k, u) \/ \E slot \in Uthreads : Allocate(k, u, slot)
    BY <1>4 DEF OtherStep, Here, InProgram, lifeVars
  <2>2. \A t \in Uthreads : at[t] = "joined" => StaysJoined(t)
    BY <2>1, StaysThroughOther
  <2> QED BY <1>1, <2>1, <2>2, ClientKeepsThreads
<1>5. ASSUME NEW k \in Lwps, NEW u \in Uthreads,
             (UthreadMtxLockReturn(k, u) /\ UNCHANGED lifeVars) \/ Relock(k, u)
      PROVE  JoinInv'
  BY <1>2, <1>5 DEF UthreadMtxLockReturn, Relock, lifeVars, allMtxVars
<1>6. CASE UNCHANGED allLifeVars
  BY <1>2, <1>6 DEF allLifeVars, allMtxVars, lifeVars
<1> QED BY <1>3, <1>4, <1>5, <1>6, LifeCallJoins, LifeSteps

\* The steps after which the process has stopped leave the stacks as they are.
LEMMA NextOffStack ==
  ASSUME LifeInv, WaitsOffStack, outcome = "running", [LifeNext]_allLifeVars
  PROVE  WaitsOffStack'
<1>1. IInv' => WaitsOffStack'
  BY DEF IInv, PlaceInv, CallInv, WaitsOffStack
<1>2. ASSUME UNCHANGED <<threadVars, lwpVars>>
      PROVE  WaitsOffStack'
  BY <1>2 DEF threadVars, lwpVars, WaitsOffStack, OnStack
<1>3. CASE outcome' = "running"
  BY <1>1, <1>3, NextLifeInv DEF LifeInv
<1>4. ASSUME NEW k \in Lwps, NEW u \in Uthreads, LifeCall(k, u), ~panic
      PROVE  WaitsOffStack'
  <2>1. MtxStep(k, u) => IInv'
    BY <1>4, MtxStepIsOrdinary, OrdinaryIInv DEF LifeInv
  <2>2. CASE outcome' # "freed"
    BY <1>1, <1>2, <1>4, <2>1, <2>2, LifeCalls, SchedCallIInv DEF LifeInv, Aborts
  <2>3. CASE outcome' = "freed"
    <3>1. ReaperDestroy(k, u)
      BY <1>4, <2>3, ReaperFrees
    <3>2. PICK z : Destroy(k, u, z)
      BY <3>1 DEF ReaperDestroy
    <3>3. /\ \A t \in Uthreads : ut_state'[t] = "WAIT" => ut_state[t] = "WAIT"
          /\ UNCHANGED <<call, lwpVars>>
      BY <3>2 DEF Destroy, LifeInv, IInv, TypeOK
    <3> QED BY <3>3 DEF WaitsOffStack, OnStack, lwpVars
  <2> QED BY <2>2, <2>3
<1>5. ASSUME NEW k \in Lwps, NEW u \in Uthreads, Relock(k, u)
      PROVE  WaitsOffStack'
  BY <1>2, <1>5 DEF Relock, allMtxVars, schedVars
<1>6. outcome' = "running" \/ \E k \in Lwps, u \in Uthreads :
                                (LifeCall(k, u) /\ ~panic) \/ Relock(k, u)
  BY LifeSteps DEF allLifeVars, lifeVars, OtherStep
<1> QED BY <1>3, <1>4, <1>5, <1>6

\* At first nobody joins.
LEMMA InitJoins == LifeInit => JoinInv /\ WaitsOffStack
<1> SUFFICES ASSUME LifeInit PROVE JoinInv /\ WaitsOffStack
  OBVIOUS
<1>1. \A t \in Uthreads : at[t] # "joined"
  BY DEF LifeInit
<1>2. IInv
  BY InitIInv DEF LifeInit, MtxInit
<1> QED BY <1>1, <1>2 DEF JoinInv, JoinOf, WaitsOffStack, IInv, PlaceInv, CallInv

\* uthread_join never returns EINVAL after its switch: a joiner is woken by the
\* exit of its target only, which is not destroyed, nor its slot used again,
\* before the joiner has looked; in a program that claims each uthread once.
THEOREM JoinersFindZombies ==
  ASSUME SingleClaim = TRUE
  PROVE  LifeSpec => []JoinerFindsZombie
<1> DEFINE Inv == LifeInv /\ TargetsInv
           Joins == JoinInv /\ WaitsOffStack
<1>1. LifeInit => Joins
  BY InitJoins
<1>2. Joins /\ Inv /\ Inv' /\ [LifeNext]_allLifeVars => Joins'
  <2> SUFFICES ASSUME Joins, Inv, Inv', [LifeNext]_allLifeVars
               PROVE  Joins'
    OBVIOUS
  <2>1. CASE outcome = "running"
    <3>1. JoinInv'
      BY <2>1, NextJoins DEF LifeInv
    <3>2. WaitsOffStack'
      BY <2>1, NextOffStack
    <3> QED BY <3>1, <3>2
  <2>2. CASE outcome # "running"
    <3>1. UNCHANGED allLifeVars
      BY <2>2, LifeSteps
    <3> QED BY <3>1 DEF allLifeVars, lifeVars, allMtxVars, schedVars, threadVars, objVars,
                        lwpVars, JoinInv, JoinOf, WaitsOffStack, OnStack, Awaits,
                        ToBeQueued, Wakes
  <2> QED BY <2>1, <2>2
<1>3. Joins => JoinerFindsZombie
  <2> SUFFICES ASSUME Joins, NEW l \in Lwps, NEW t \in Uthreads, Here(l, t, "joined")
               PROVE  ut_state[subject[t]] = "ZOMBIE"
    BY DEF JoinerFindsZombie
  <2>1. ut_state[t] # "WAIT"
    BY DEF Here, InProgram, Runs, WaitsOffStack, OnStack
  <2> QED BY <2>1 DEF Here, JoinInv, JoinOf
<1> HIDE DEF Joins
<1>4. LifeSpec => []Inv
  BY TargetsInvariance
<1> HIDE DEF Inv
<1> QED BY <1>1, <1>2, <1>3, <1>4, PTL DEF LifeSpec

-----------------------------------------------------------------------------
(* Who has reap_mtx.                                                       *)

\* where a uthread is to unlock reap_mtx, and where it wakes others before
ReapMtxPcs == {"exit_wake", "exit_unlock", "signal", "signalled", "reap_unlock",
               "reaper_unlock"}
OwnedInv ==
  \A t \in Uthreads : at[t] \in ReapMtxPcs => HasReap(t) /\ m_owner[ReapMtx] = t

\* A step that ends the process leaves the mutexes of uthread_mtx.c alone.
LEMMA EndKeepsMutexes ==
  ASSUME [LifeNext]_allLifeVars, outcome = "running", outcome' # "running"
  PROVE  UNCHANGED mtxVars
<1>1. ASSUME NEW k \in Lwps, NEW u \in Uthreads, LifeCall(k, u)
      PROVE  outcome' = outcome \/ UNCHANGED mtxVars
  BY <1>1 DEF LifeCall, UthreadExit, LocksReap, UnlocksReap, ExitZombie, ExitWake,
              ExitLeave, UthreadJoin, Join, JoinReturn, JoinCheck, UthreadDetach,
              Detach, DetachCheck, MakeReapable, SignalReaper, Signalled,
              ReapUnlock, ExitBare, UnlocksSubject, Reaper, ReaperWait,
              ReaperSleep, ReaperTake, ReaperDestroy, allMtxVars
<1> QED BY <1>1, LifeSteps DEF allLifeVars, lifeVars, OtherStep, Relock, allMtxVars

\* Who gets to where reap_mtx is to be unlocked has it.
LEMMA CallerHasReap ==
  ASSUME PlacesInv, OwnedInv, NEW k \in Lwps, NEW u \in Uthreads, LifeCall(k, u),
         at'[u] \in ReapMtxPcs
  PROVE  HasReap(u)'
<1> USE DEF ReapMtxPcs, HasReap, mtxVars, allMtxVars
<1>0. at \in [Uthreads -> LifePcs] /\ (at[u] \in ReapMtxPcs => ReapMtx \in held[u])
  BY DEF PlacesInv, OwnedInv
<1>1. CASE UthreadExit(k, u)
  BY <1>0, <1>1 DEF UthreadExit, LocksReap, UnlocksReap, ExitZombie, ExitWake,
                    ExitLeave, Goes, Here
<1>2. CASE UthreadJoin(k, u)
  BY <1>0, <1>2 DEF UthreadJoin, LocksReap, Join, JoinReturn, JoinCheck, Goes, Here
<1>3. CASE UthreadDetach(k, u)
  BY <1>0, <1>3 DEF UthreadDetach, LocksReap, Detach, DetachCheck, Accepts,
                    UnlocksSubject, Goes, Here
<1>4. CASE MakeReapable(k, u)
  BY <1>0, <1>4 DEF MakeReapable, SignalReaper, Signalled, ReapUnlock, UnlocksReap,
                    UnlocksSubject, ExitBare, Goes, Here
<1>5. CASE Reaper(k, u)
  <2>1. ReaperDestroy(k, u) => at'[u] \in {"reaper_loop", "program"}
    BY <1>0 DEF ReaperDestroy
  <2> QED BY <1>0, <1>5, <2>1 DEF Reaper, LocksReap, UnlocksReap, ReaperWait,
                                  ReaperSleep, ReaperTake, Goes, Here
<1> QED BY <1>1, <1>2, <1>3, <1>4, <1>5 DEF LifeCall

\* Every step.
LEMMA NextOwned ==
  ASSUME LifeInv, OwnedInv, outcome = "running", [LifeNext]_allLifeVars
  PROVE  OwnedInv'
<1>0. /\ IInv /\ MInv /\ PlacesInv /\ HeldInv
      /\ ReapMtx \in Mutexes
  BY LifeObjects DEF LifeInv
<1>1. ASSUME NEW t \in Uthreads, at'[t] \in ReapMtxPcs PROVE HasReap(t)'
  <2>1. CASE UNCHANGED <<mtxVars, at>>
    BY <1>1, <2>1 DEF OwnedInv, HasReap, mtxVars
  <2>2. ASSUME NEW k \in Lwps, NEW u \in Uthreads,
               UthreadMtxLockReturn(k, u), UNCHANGED lifeVars
        PROVE  HasReap(t)'
    <3>1. HasReap(t)
      BY <1>1, <2>2 DEF OwnedInv, lifeVars
    <3> QED BY <1>0, <2>2, <3>1 DEF UthreadMtxLockReturn, HasReap, MInv, MtxTypeOK
  <2>3. ASSUME NEW k \in Lwps, NEW u \in Uthreads, LifeCall(k, u)
        PROVE  HasReap(t)'
    <3>1. CASE t = u
      BY <1>0, <1>1, <2>3, <3>1, CallerHasReap
    <3>2. CASE t # u
      <4>1. at'[t] = at[t] /\ "program" \notin ReapMtxPcs
        BY <1>0, <1>1, <2>3, <3>2, OthersStay DEF ReapMtxPcs
      <4>2. held'[t] = held[t]
        BY <1>0, <2>3, <3>2, LifeCalls, HeldOnlyOwn
      <4> QED BY <1>1, <4>1, <4>2 DEF OwnedInv, HasReap
    <3> QED BY <3>1, <3>2
  <2> QED BY <2>1, <2>2, <2>3, LifeSteps
          DEF allLifeVars, lifeVars, allMtxVars, OtherStep, Relock
<1>2. CASE outcome' = "running"
  <2>1. MInv'
    BY <1>2, NextLifeInv DEF LifeInv
  <2> QED BY <1>0, <1>1, <2>1 DEF OwnedInv, HasReap, MInv, OwnerInv
<1>3. CASE outcome' # "running"
  <2>1. UNCHANGED mtxVars
    BY <1>3, EndKeepsMutexes
  <2> QED BY <1>0, <1>1, <2>1 DEF OwnedInv, HasReap, MInv, OwnerInv, mtxVars
<1> QED BY <1>2, <1>3

\* The comment in make_reapable, "reap_mtx and uth->ut_pmut are locked by
\* caller", as for reap_mtx, and the assertion of uthread_mtx_unlock: a uthread
\* in make_reapable, in the end of uthread_exit or on its way into
\* uthread_cond_wait owns the reap_mtx that it is to unlock, so that no two are
\* there at once; whatever the program joins and detaches.
THEOREM ReapMtxOwned == LifeSpec => []OwnedInv
<1>1. LifeInit => OwnedInv
  BY LifeObjects DEF LifeInit, OwnedInv, ReapMtxPcs
<1>2. LifeInv /\ OwnedInv /\ [LifeNext]_allLifeVars => OwnedInv'
  <2> SUFFICES ASSUME LifeInv, OwnedInv, [LifeNext]_allLifeVars
               PROVE  OwnedInv'
    OBVIOUS
  <2>1. CASE outcome # "running"
    <3>1. UNCHANGED allLifeVars
      BY <2>1, LifeSteps
    <3> QED BY <3>1 DEF allLifeVars, lifeVars, allMtxVars, mtxVars, OwnedInv, HasReap
  <2> QED BY <2>1, NextOwned
<1> QED BY <1>1, <1>2, LifeInvariance, PTL DEF LifeSpec

=============================================================================
