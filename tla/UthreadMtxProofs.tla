-------------------------- MODULE UthreadMtxProofs --------------------------
(***************************************************************************)
(* The mutexes of UthreadMtx use the scheduler as UthreadSched allows, and *)
(* keep their promises for any number of uthreads, LWPs and mutexes.       *)
(*                                                                         *)
(* MInv relates the owner to the three things a uthread may do with a      *)
(* mutex: hold it, await it, or have been given it and not yet run.  That  *)
(* a step of the scheduler moves a waiting uthread from its call to its    *)
(* LWP and on to the queue, and drops it nowhere, needs the invariant of   *)
(* UthreadSchedProofs, which holds here because every step of MtxSpec is   *)
(* one of SchedSpec.                                                       *)
(***************************************************************************)
EXTENDS UthreadMtx, UthreadSchedProofs

-----------------------------------------------------------------------------
(* Every step is an ordinary step of the scheduler: none of them exits or  *)
(* destroys a uthread.                                                     *)

\* What runs below the program's calls are steps of the scheduler.
LEMMA KernelIsOrdinary ==
  ASSUME ~panic, KernelStep
  PROVE  OrdinaryNext
BY DEF KernelStep, OrdinaryNext, OrdinaryStep, UthreadStep

\* uthread_yield, uthread_create and uthread_setprio are, too.
LEMMA ProgramIsOrdinary ==
  ASSUME ~panic, NEW l \in Lwps, NEW t \in Uthreads, ProgramStep(l, t)
  PROVE  OrdinaryNext
BY DEF ProgramStep, OrdinaryNext, OrdinaryStep, UthreadStep

\* uthread_mtx.c waits for an object and takes waiters off its queue as the
\* scheduler's clients may, and otherwise leaves the scheduler alone.
LEMMA MtxStepIsOrdinary ==
  ASSUME ~panic, NEW l \in Lwps, NEW t \in Uthreads, MtxStep(l, t)
  PROVE  OrdinaryNext \/ UNCHANGED schedVars
<1>1. ASSUME NEW m \in Mutexes, UthreadMtxLock(l, t, m)
      PROVE  OrdinaryNext \/ UNCHANGED schedVars
  <2>1. CASE MtxTake(l, t, m)
    BY <2>1 DEF MtxTake
  <2>2. CASE MtxBlock(l, t, m)
    <3>1. WaitOn(l, t, m) /\ m \in SyncObjs
      BY <2>2, MtxAssumption DEF MtxAssumption, MtxBlock
    <3> QED BY <3>1 DEF OrdinaryNext, OrdinaryStep
  <2> QED BY <1>1, <2>1, <2>2 DEF UthreadMtxLock
<1>2. ASSUME NEW m \in Mutexes, UthreadMtxUnlock(l, t, m)
      PROVE  OrdinaryNext \/ UNCHANGED schedVars
  <2>1. MtxRelease(l, t, m) /\ m \in Objs
    BY <1>2, MtxAssumption DEF MtxAssumption, UthreadMtxUnlock, Objs
  <2>2. CASE waiters[m] = <<>>
    BY <2>1, <2>2 DEF MtxRelease
  <2>3. CASE waiters[m] # <<>>
    <3>1. TakeWaiter(l, t, m, FALSE)
      BY <2>1, <2>3 DEF MtxRelease
    <3> QED BY <2>1, <3>1 DEF OrdinaryNext, OrdinaryStep
  <2> QED BY <2>2, <2>3
<1>3. ASSUME NEW m \in Mutexes, UthreadMtxTrylock(l, t, m)
      PROVE  UNCHANGED schedVars
  BY <1>3 DEF UthreadMtxTrylock, MtxTake
<1>4. UthreadMtxLockReturn(l, t) => UNCHANGED schedVars
  BY DEF UthreadMtxLockReturn
<1> QED BY <1>1, <1>2, <1>3, <1>4 DEF MtxStep

\* MtxNext step by step: a step of the scheduler or one that leaves it alone.
LEMMA MtxNextIsOrdinary ==
  ASSUME [MtxNext]_allMtxVars
  PROVE  [OrdinaryNext]_schedVars
<1>1. CASE UNCHANGED allMtxVars
  BY <1>1 DEF allMtxVars
<1>2. CASE Aborted
  BY <1>2 DEF OrdinaryNext
<1>3. CASE ~panic /\ KernelStep
  BY <1>3, KernelIsOrdinary
<1>4. ASSUME ~panic, NEW l \in Lwps, NEW t \in Uthreads, ProgramStep(l, t)
      PROVE  OrdinaryNext
  BY <1>4, ProgramIsOrdinary
<1>5. ASSUME ~panic, NEW l \in Lwps, NEW t \in Uthreads, MtxStep(l, t)
      PROVE  OrdinaryNext \/ UNCHANGED schedVars
  BY <1>5, MtxStepIsOrdinary
<1> QED BY <1>1, <1>2, <1>3, <1>4, <1>5 DEF MtxNext

\* By their definition the steps of uthread_mtx.c are steps of the scheduler,
\* so that what is proved of those holds here.
LEMMA MtxIsSched == MtxSpec => SchedSpec
<1>1. MtxInit => SchedInit
  BY DEF MtxInit
<1> QED BY <1>1, MtxNextIsOrdinary, OrdinaryIsSched, PTL
        DEF MtxSpec, SchedSpec

-----------------------------------------------------------------------------
(* Who awaits what.                                                        *)

\* Steps that leave the queues and the requests for one alone.
LEMMA AwaitsFrame ==
  ASSUME NEW o, NEW s \in Uthreads,
         UNCHANGED waiters,
         call'[s] = "switch" /\ args'[s].queue = o <=>
           call[s] = "switch" /\ args[s].queue = o,
         \A k \in Lwps : ut_curthr'[k] = s /\ curlwp'[k].queue = o <=>
                           ut_curthr[k] = s /\ curlwp[k].queue = o
  PROVE  /\ ToBeQueued(s, o)' <=> ToBeQueued(s, o)
         /\ Awaits(s, o)' <=> Awaits(s, o)
BY DEF Awaits, ToBeQueued

\* An LWP passes the uthread that waits from the call to the queue.
LEMMA AwaitsThroughLwp ==
  ASSUME IInv, NEW l \in Lwps, LwpStep(l) \/ SpuriousWakeup(l),
         NEW o \in SyncObjs, NEW s \in Uthreads
  PROVE  /\ Awaits(s, o)' <=> Awaits(s, o)
         /\ \/ /\ waiters'[o] = waiters[o]
               /\ ToBeQueued(s, o)' <=> ToBeQueued(s, o)
            \/ /\ LwpSwitch(l) /\ curlwp[l].queue = o
               /\ waiters'[o] = utqueue_enqueue(waiters[o], ut_curthr[l])
<1> USE DEF IInv, PlaceInv, threadVars, objVars, runqVars, lwpVars
<1>0. o \in Objs /\ o # NULL /\ s # NULL /\ NULL \notin Uthreads
  BY SchedAssumption DEF SchedAssumption, Objs
<1>1. CASE LwpStart(l) \/ LwpPark(l) \/ LwpUnpark(l) \/ SpuriousWakeup(l)
  <2>1. UNCHANGED <<waiters, call, args, ut_curthr, curlwp>>
    BY <1>1 DEF LwpStart, LwpPark, LwpUnpark, SpuriousWakeup
  <2> QED BY <2>1, AwaitsFrame
<1>2. CASE LwpDispatch(l)
  <2>1. /\ UNCHANGED <<waiters, call, args, curlwp>>
        /\ \A k \in Lwps \ {l} : ut_curthr'[k] = ut_curthr[k]
    BY <1>2 DEF LwpDispatch, TypeOK
  <2>2. curlwp[l].queue = NULL
    BY <1>2 DEF LwpDispatch, LwpInv, NoArgs
  <2> QED BY <1>0, <2>1, <2>2, AwaitsFrame
<1>3. CASE LwpSwitch(l)
  <2> DEFINE t == ut_curthr[l]
             q == curlwp[l].queue
  <2>1. /\ UNCHANGED <<call, args>>
        /\ ut_curthr' = [ut_curthr EXCEPT ![l] = NULL]
        /\ curlwp' = [curlwp EXCEPT ![l] = NoArgs]
        /\ waiters' = IF q # NULL /\ t # NULL
                      THEN [waiters EXCEPT ![q] = utqueue_enqueue(@, t)]
                      ELSE waiters
    BY <1>3 DEF LwpSwitch
  <2>2. Occurs(waiters'[o], s) <=> \/ Occurs(waiters[o], s)
                                   \/ t = s /\ q = o
    <3>1. CASE q = o /\ t # NULL
      <4>1. t \in Uthreads /\ waiters[o] \in Seq(Uthreads)
        BY <1>0, <3>1 DEF TypeOK
      <4>2. waiters'[o] = utqueue_enqueue(waiters[o], t)
        BY <1>0, <2>1, <3>1 DEF TypeOK
      <4> HIDE DEF t
      <4>3. \A u : Occurs(utqueue_enqueue(waiters[o], t), u) <=>
                    Occurs(waiters[o], u) \/ u = t
        BY <4>1, EnqueueQueue
      <4> QED BY <3>1, <4>2, <4>3
    <3>2. CASE ~(q = o /\ t # NULL)
      <4>1. waiters'[o] = waiters[o]
        BY <1>0, <2>1, <3>2 DEF TypeOK
      <4> QED BY <1>0, <3>2, <4>1
    <3> QED BY <3>1, <3>2
  <2>3. \A k \in Lwps : ut_curthr'[k] = s /\ curlwp'[k].queue = o <=>
                          k # l /\ ut_curthr[k] = s /\ curlwp[k].queue = o
    BY <1>0, <2>1 DEF TypeOK
  <2>4. ToBeQueued(s, o) <=> ToBeQueued(s, o)' \/ (t = s /\ q = o)
    BY <2>1, <2>3 DEF ToBeQueued
  <2>5. \/ q = o /\ waiters'[o] = utqueue_enqueue(waiters[o], t)
        \/ /\ waiters'[o] = waiters[o]
           /\ ToBeQueued(s, o)' <=> ToBeQueued(s, o)
    <3>1. CASE q = o
      <4>1. t # NULL
        BY <1>0, <3>1 DEF LwpInv, NoArgs
      <4> QED BY <1>0, <2>1, <3>1, <4>1 DEF TypeOK
    <3>2. CASE q # o
      <4>1. waiters'[o] = waiters[o]
        BY <1>0, <2>1, <3>2 DEF TypeOK
      <4> QED BY <2>4, <3>2, <4>1
    <3> QED BY <3>1, <3>2
  <2> QED BY <1>3, <2>2, <2>4, <2>5 DEF Awaits
<1> QED BY <1>1, <1>2, <1>3 DEF LwpStep

\* uthread_switch hands the request to the LWP; uthread_wake,
\* uthread_startonrunq, uthread_yield, uthread_create and uthread_setprio have
\* none for a queue.
LEMMA AwaitsThroughUthread ==
  ASSUME IInv, NEW l \in Lwps, NEW t \in Uthreads,
         UthreadStep(l, t) \/ \E slot \in Uthreads : Allocate(l, t, slot),
         NEW o \in SyncObjs, NEW s \in Uthreads
  PROVE  /\ UNCHANGED waiters
         /\ ToBeQueued(s, o)' <=> ToBeQueued(s, o)
         /\ Awaits(s, o)' <=> Awaits(s, o)
<1> USE DEF IInv, PlaceInv, threadVars, objVars, runqVars, lwpVars, Runs
<1> DEFINE Kept == /\ ToBeQueued(s, o)' <=> ToBeQueued(s, o)
                   /\ Awaits(s, o)' <=> Awaits(s, o)
<1>0. o \in Objs /\ o # NULL /\ s # NULL /\ NULL \notin Uthreads
  BY SchedAssumption DEF SchedAssumption, Objs
<1>1. CASE UthreadSwitch(l, t)
  <2>1. /\ call' = [call EXCEPT ![t] = "client"]
        /\ args' = [args EXCEPT ![t] = NoArgs]
        /\ curlwp'[l].queue = args[t].queue
        /\ \A k \in Lwps \ {l} : curlwp'[k] = curlwp[k]
        /\ UNCHANGED <<waiters, ut_curthr>>
        /\ ut_curthr[l] = t /\ call[t] = "switch" /\ lpc[l] = "uthread"
    BY <1>1 DEF UthreadSwitch, TypeOK
  <2>2. curlwp[l].queue = NULL
    BY <2>1 DEF LwpInv, NoArgs
  <2>3. \A k \in Lwps : ut_curthr[k] = t => k = l
    BY <1>0, <2>1 DEF LwpInv
  <2>4. ToBeQueued(s, o)' <=> ToBeQueued(s, o)
    BY <1>0, <2>1, <2>2, <2>3 DEF ToBeQueued, TypeOK
  <2> QED BY <2>1, <2>4 DEF Awaits
<1>2. ASSUME UNCHANGED <<waiters, ut_curthr, curlwp>>,
             \A u \in Uthreads \ {t} : call'[u] = call[u] /\ args'[u] = args[u],
             call[t] # "switch",
             call'[t] # "switch" \/ args'[t].queue = NULL
      PROVE  UNCHANGED waiters /\ Kept
  <2>1. call'[s] = "switch" /\ args'[s].queue = o <=>
          call[s] = "switch" /\ args[s].queue = o
    BY <1>0, <1>2
  <2> QED BY <1>2, <2>1, AwaitsFrame
<1>3. CASE UthreadWake(l, t)
  BY <1>2, <1>3 DEF UthreadWake, TypeOK
<1>4. ASSUME NEW prio \in Prios, UthreadStartOnRunq(l, t, prio)
      PROVE  UNCHANGED waiters /\ Kept
  BY <1>2, <1>4 DEF UthreadStartOnRunq, TypeOK
<1>5. CASE Yield(l, t)
  BY <1>2, <1>5 DEF Yield, CallsSwitch, TypeOK
<1>6. ASSUME NEW slot \in Uthreads, Allocate(l, t, slot)
      PROVE  UNCHANGED waiters /\ Kept
  BY <1>2, <1>6 DEF Allocate, TypeOK
<1>7. ASSUME NEW id \in Uthreads, NEW prio \in Prios,
             UthreadSetprio(l, t, id, prio)
      PROVE  UNCHANGED waiters /\ Kept
  <2>1. UNCHANGED <<waiters, ut_curthr, curlwp>> /\ call[t] = "client"
    BY <1>7 DEF UthreadSetprio
  <2>2. CASE UNCHANGED <<call, args>>
    BY <1>2, <2>1, <2>2
  <2>3. CASE CallsSwitch(t, NULL, TRUE, NULL)
    BY <1>2, <2>1, <2>3 DEF CallsSwitch, TypeOK
  <2> QED BY <1>7, <2>2, <2>3 DEF UthreadSetprio
<1> QED BY <1>1, <1>3, <1>4, <1>5, <1>6, <1>7 DEF UthreadStep

\* Who calls WaitOn awaits the object, and nobody else does who did not.
LEMMA AwaitsAfterWaitOn ==
  ASSUME IInv, NEW l \in Lwps, NEW t \in Uthreads, NEW m \in SyncObjs,
         WaitOn(l, t, m),
         NEW o \in SyncObjs, NEW s \in Uthreads
  PROVE  Awaits(s, o)' <=> Awaits(s, o) \/ (s = t /\ o = m)
<1>1. /\ UNCHANGED <<waiters, ut_curthr, curlwp>>
      /\ call[t] = "client" /\ call'[t] = "switch" /\ args'[t].queue = m
      /\ \A u \in Uthreads \ {t} : call'[u] = call[u] /\ args'[u] = args[u]
  BY DEF IInv, TypeOK, WaitOn, Runs, CallsSwitch, lwpVars
<1> QED BY <1>1 DEF Awaits, ToBeQueued

\* The waiter taken off the queue, and nobody else, ceases to await.
LEMMA AwaitsAfterTakeWaiter ==
  ASSUME IInv, NEW l \in Lwps, NEW t \in Uthreads, NEW m \in SyncObjs,
         NEW keep \in BOOLEAN, TakeWaiter(l, t, m, keep),
         NEW o \in SyncObjs, NEW s \in Uthreads
  PROVE  /\ Head(waiters[m]) \in Uthreads
         /\ Awaits(Head(waiters[m]), m)
         /\ Awaits(s, o)' <=> Awaits(s, o) /\ ~(s = Head(waiters[m]) /\ o = m)
<1> DEFINE h == Head(waiters[m])
<1> USE DEF IInv, PlaceInv
<1>0. /\ m \in Objs /\ o \in Objs /\ m # NULL /\ o # NULL /\ NULL \notin Uthreads
      /\ waiters \in [Objs -> Seq(Uthreads)]
  BY SchedAssumption DEF SchedAssumption, Objs, TypeOK
<1>1. /\ waiters[m] # <<>> /\ waiters' = [waiters EXCEPT ![m] = Tail(@)]
      /\ UNCHANGED <<ut_curthr, curlwp, args>>
      /\ call[t] = "client" /\ call'[t] = "wake"
      /\ \A u \in Uthreads \ {t} : call'[u] = call[u]
  BY DEF TypeOK, TakeWaiter, Runs, lwpVars
<1>2. NoDup(waiters[m])
  BY <1>0 DEF QueueInv
<1>3. /\ h \in Uthreads /\ Occurs(waiters[m], h)
      /\ \A u : Occurs(Tail(waiters[m]), u) <=> Occurs(waiters[m], u) /\ u # h
  BY <1>0, <1>1, <1>2, DequeueQueue
<1>4. ToBeQueued(s, o)' <=> ToBeQueued(s, o)
  BY <1>1 DEF ToBeQueued
<1>5. ~ToBeQueued(h, m)
  <2>1. ASSUME NEW k \in Lwps, ut_curthr[k] = h
        PROVE  (IF lpc[k] = "lwp_switch" THEN curlwp[k] ELSE args[h]).queue = NULL
    BY <1>0, <1>3, <2>1 DEF QueueInv
  <2>2. call[h] = "switch" => args[h].queue = NULL
    BY <1>3, <2>1 DEF CallInv, OnStack
  <2>3. \A k \in Lwps : ut_curthr[k] = h => curlwp[k].queue = NULL
    BY <2>1 DEF LwpInv, NoArgs
  <2> QED BY <1>0, <2>2, <2>3 DEF ToBeQueued
<1>6. Occurs(waiters'[o], s) <=> Occurs(waiters[o], s) /\ ~(s = h /\ o = m)
  BY <1>0, <1>1, <1>3
<1> HIDE DEF h
<1>7. Awaits(s, o)' <=> Awaits(s, o) /\ ~(s = h /\ o = m)
  BY <1>4, <1>5, <1>6 DEF Awaits
<1> QED BY <1>3, <1>7 DEF Awaits, h

\* While a request for a queue is under way, the LWP holds the POSIX mutex of
\* the queue; so there is one request at most.
LEMMA RequestHoldsPmut ==
  ASSUME IInv, NEW o \in SyncObjs, NEW s \in Uthreads, ToBeQueued(s, o)
  PROVE  \E k \in Lwps : ut_curthr[k] = s /\ pmut[o] = k
<1>1. \A k \in Lwps : AsksOf(k, s)
  BY DEF IInv, PlaceInv, AsksInv
<1>2. o # NULL /\ NoArgs.queue = NULL
  BY SchedAssumption DEF SchedAssumption, NoArgs
<1>3. CASE call[s] = "switch" /\ args[s].queue = o
  <2>1. PICK k \in Lwps : OnStack(k, s)
    BY <1>3 DEF IInv, PlaceInv, CallInv
  <2> QED BY <1>1, <1>2, <1>3, <2>1 DEF AsksOf, Asks, OnStack
<1>4. CASE \E k \in Lwps : ut_curthr[k] = s /\ curlwp[k].queue = o
  <2>1. PICK k \in Lwps : ut_curthr[k] = s /\ curlwp[k].queue = o
    BY <1>4
  <2>2. lpc[k] = "lwp_switch"
    BY <1>2, <2>1 DEF IInv, PlaceInv, LwpInv
  <2> QED BY <1>1, <1>2, <2>1, <2>2 DEF AsksOf, Asks
<1> QED BY <1>3, <1>4 DEF ToBeQueued

\* A uthread that runs code of its own awaits nothing.
LEMMA ClientAwaitsNothing ==
  ASSUME IInv, NEW l \in Lwps, NEW t \in Uthreads, Runs(l, t, "client"),
         NEW o \in SyncObjs
  PROVE  ~Awaits(t, o)
<1> USE DEF IInv, PlaceInv, Runs
<1>0. o \in Objs /\ o # NULL /\ t # NULL
  BY SchedAssumption DEF SchedAssumption, Objs
<1>1. ut_state[t] # "WAIT"
  BY DEF CallInv, OnStack
<1>2. ~Occurs(waiters[o], t)
  BY <1>0, <1>1 DEF QueueInv
<1>3. \A k \in Lwps : ut_curthr[k] = t => curlwp[k].queue = NULL
  BY <1>0 DEF LwpInv, NoArgs
<1> QED BY <1>0, <1>2, <1>3 DEF Awaits, ToBeQueued

\* Locking and unlocking pmut changes nobody's waiting.
LEMMA AwaitsThroughPmut ==
  ASSUME NEW k \in Lwps, NEW u \in Uthreads, NEW x \in Objs,
         LockPmut(k, u, x) \/ UnlockPmut(k, u, x) \/ UNCHANGED schedVars,
         NEW o \in Objs, NEW s \in Uthreads
  PROVE  /\ Awaits(s, o)' <=> Awaits(s, o)
         /\ ToBeQueued(s, o)' <=> ToBeQueued(s, o)
         /\ waiters' = waiters
BY DEF LockPmut, UnlockPmut, schedVars, threadVars, objVars, lwpVars, Awaits,
       ToBeQueued

-----------------------------------------------------------------------------
(* The mutexes.                                                            *)

\* A mutex's owner holds it or has been given it while blocked; whoever is
\* blocked awaits the mutex or owns it; nobody awaits a free mutex.
OwnerInv ==
  \A m \in Mutexes, t \in Uthreads :
    /\ m \in held[t] => m_owner[m] = t /\ wants[t] # m
    /\ Awaits(t, m) => wants[t] = m /\ m_owner[m] # NULL /\ m_owner[m] # t
    /\ wants[t] = m => Awaits(t, m) \/ m_owner[m] = t
    /\ m_owner[m] = t => m \in held[t] \/ wants[t] = m

MInv == MtxTypeOK /\ OwnerInv

\* A mutex is a synchronisation object, and NULL is neither it nor a uthread.
LEMMA MutexesDistinct ==
  /\ Mutexes \subseteq SyncObjs
  /\ NULL \notin Mutexes /\ NULL \notin Uthreads
BY MtxAssumption, SchedAssumption DEF MtxAssumption, SchedAssumption

\* Nobody holds, owns or awaits a mutex at first.
LEMMA InitMInv == MtxInit => MInv
<1> SUFFICES ASSUME MtxInit PROVE MInv
  OBVIOUS
<1>1. MtxTypeOK
  BY DEF MtxInit, MtxTypeOK
<1>2. ASSUME NEW m \in Mutexes, NEW t \in Uthreads PROVE ~Awaits(t, m)
  <2>1. /\ waiters[m] = <<>> /\ call[t] = "client"
        /\ \A k \in Lwps : ut_curthr[k] = NULL
    BY MutexesDistinct DEF MtxInit, SchedInit, Objs
  <2> QED BY <2>1, MutexesDistinct, EmptyQueue DEF Awaits, ToBeQueued
<1>3. OwnerInv
  BY <1>2, MutexesDistinct DEF OwnerInv, MtxInit
<1> QED BY <1>1, <1>3 DEF MInv

\* The invariant outlives a step that changes neither an owner nor who awaits
\* a mutex.
LEMMA OwnerKept ==
  ASSUME MInv, UNCHANGED mtxVars,
         \A m \in Mutexes, t \in Uthreads : Awaits(t, m)' <=> Awaits(t, m)
  PROVE  MInv'
<1>1. MtxTypeOK'
  BY DEF MInv, MtxTypeOK, mtxVars
<1>2. OwnerInv'
  BY DEF MInv, OwnerInv, mtxVars
<1> QED BY <1>1, <1>2 DEF MInv

\* uthread_mtx_lock and uthread_mtx_trylock of a free mutex: nobody awaits it,
\* so that nobody is overtaken.
LEMMA MtxTakeStep ==
  ASSUME IInv, MInv, NEW l \in Lwps, NEW t \in Uthreads, NEW m \in Mutexes,
         InProgram(l, t), MtxTake(l, t, m)
  PROVE  MInv'
<1>1. \A n \in Mutexes, s \in Uthreads : Awaits(s, n)' <=> Awaits(s, n)
  BY DEF MtxTake, schedVars, threadVars, objVars, lwpVars, Awaits, ToBeQueued
<1>2. MtxTypeOK'
  BY DEF MInv, MtxTypeOK, MtxTake
<1>3. /\ m_owner' = [m_owner EXCEPT ![m] = t] /\ m_owner[m] = NULL
      /\ held' = [held EXCEPT ![t] = @ \cup {m}] /\ wants' = wants
      /\ wants[t] = NULL
  BY DEF MtxTake, InProgram
<1>4. ASSUME NEW n \in Mutexes, NEW s \in Uthreads
      PROVE  (/\ n \in held[s] => m_owner[n] = s /\ wants[s] # n
              /\ Awaits(s, n) => wants[s] = n /\ m_owner[n] # NULL /\ m_owner[n] # s
              /\ wants[s] = n => Awaits(s, n) \/ m_owner[n] = s
              /\ m_owner[n] = s => n \in held[s] \/ wants[s] = n)'
  BY <1>1, <1>3, MutexesDistinct DEF MInv, MtxTypeOK, OwnerInv
<1> QED BY <1>2, <1>4 DEF MInv, OwnerInv

\* uthread_mtx_lock of an owned mutex.
LEMMA MtxBlockStep ==
  ASSUME IInv, MInv, NEW l \in Lwps, NEW t \in Uthreads, NEW m \in Mutexes,
         InProgram(l, t), m \notin held[t], MtxBlock(l, t, m)
  PROVE  MInv'
<1>1. \A n \in Mutexes, s \in Uthreads :
        Awaits(s, n)' <=> Awaits(s, n) \/ (s = t /\ n = m)
  BY AwaitsAfterWaitOn, MutexesDistinct DEF MtxBlock
<1>2. MtxTypeOK'
  BY DEF MInv, MtxTypeOK, MtxBlock
<1>3. /\ m_owner' = m_owner /\ m_owner[m] # NULL
      /\ held' = held /\ wants' = [wants EXCEPT ![t] = m]
      /\ wants[t] = NULL
  BY DEF MtxBlock, InProgram
<1>4. ASSUME NEW n \in Mutexes, NEW s \in Uthreads
      PROVE  (/\ n \in held[s] => m_owner[n] = s /\ wants[s] # n
              /\ Awaits(s, n) => wants[s] = n /\ m_owner[n] # NULL /\ m_owner[n] # s
              /\ wants[s] = n => Awaits(s, n) \/ m_owner[n] = s
              /\ m_owner[n] = s => n \in held[s] \/ wants[s] = n)'
  BY <1>1, <1>3, MutexesDistinct DEF MInv, MtxTypeOK, OwnerInv
<1> QED BY <1>2, <1>4 DEF MInv, OwnerInv

\* The return of uthread_mtx_lock after a block: who runs again has been taken
\* off the queue, and only the owner's unlocking does that.
LEMMA MtxLockReturnStep ==
  ASSUME IInv, MInv, NEW l \in Lwps, NEW t \in Uthreads,
         UthreadMtxLockReturn(l, t)
  PROVE  MInv'
<1> DEFINE m == wants[t]
<1>1. \A n \in Mutexes, s \in Uthreads : Awaits(s, n)' <=> Awaits(s, n)
  BY DEF UthreadMtxLockReturn, schedVars, threadVars, objVars, lwpVars, Awaits,
     ToBeQueued
<1>2. /\ m \in Mutexes /\ m_owner' = m_owner
      /\ held' = [held EXCEPT ![t] = @ \cup {m}]
      /\ wants' = [wants EXCEPT ![t] = NULL]
  BY DEF MInv, MtxTypeOK, UthreadMtxLockReturn
<1>3. m_owner[m] = t /\ \A n \in Mutexes : ~Awaits(t, n)
  BY <1>2, ClientAwaitsNothing, MutexesDistinct
     DEF MInv, OwnerInv, UthreadMtxLockReturn
<1>4. MtxTypeOK'
  BY <1>2 DEF MInv, MtxTypeOK
<1>5. ASSUME NEW n \in Mutexes, NEW s \in Uthreads
      PROVE  (/\ n \in held[s] => m_owner[n] = s /\ wants[s] # n
              /\ Awaits(s, n) => wants[s] = n /\ m_owner[n] # NULL /\ m_owner[n] # s
              /\ wants[s] = n => Awaits(s, n) \/ m_owner[n] = s
              /\ m_owner[n] = s => n \in held[s] \/ wants[s] = n)'
  BY <1>1, <1>2, <1>3, MutexesDistinct DEF MInv, MtxTypeOK, OwnerInv
<1> QED BY <1>4, <1>5 DEF MInv, OwnerInv

\* uthread_mtx_unlock: the mutex is free and awaited by nobody, or its new
\* owner is the waiter that was taken off the queue.
LEMMA MtxUnlockStep ==
  ASSUME IInv, MInv, NEW l \in Lwps, NEW t \in Uthreads, NEW m \in Mutexes,
         UthreadMtxUnlock(l, t, m)
  PROVE  MInv'
<1> DEFINE h == Head(waiters[m])
<1>0. /\ m \in Objs /\ held' = [held EXCEPT ![t] = @ \ {m}] /\ wants' = wants
      /\ m \in held[t] /\ wants[t] = NULL
  BY MutexesDistinct DEF UthreadMtxUnlock, InProgram, Objs
<1>1. CASE waiters[m] = <<>>
  <2>1. /\ m_owner' = [m_owner EXCEPT ![m] = NULL]
        /\ UNCHANGED schedVars
    BY <1>1 DEF UthreadMtxUnlock, MtxRelease
  <2>2. \A n \in Mutexes, s \in Uthreads : Awaits(s, n)' <=> Awaits(s, n)
    BY <2>1 DEF schedVars, threadVars, objVars, lwpVars, Awaits, ToBeQueued
  <2>3. \A s \in Uthreads : ~Awaits(s, m)
    BY <1>1, EmptyQueue, RequestHoldsPmut, MutexesDistinct, SchedAssumption
       DEF SchedAssumption, Awaits, UthreadMtxUnlock
  <2>4. MtxTypeOK'
    BY <1>0, <2>1 DEF MInv, MtxTypeOK
  <2>5. ASSUME NEW n \in Mutexes, NEW s \in Uthreads
        PROVE  (/\ n \in held[s] => m_owner[n] = s /\ wants[s] # n
                /\ Awaits(s, n) => wants[s] = n /\ m_owner[n] # NULL /\ m_owner[n] # s
                /\ wants[s] = n => Awaits(s, n) \/ m_owner[n] = s
                /\ m_owner[n] = s => n \in held[s] \/ wants[s] = n)'
    BY <1>0, <2>1, <2>2, <2>3, MutexesDistinct DEF MInv, MtxTypeOK, OwnerInv
  <2> QED BY <2>4, <2>5 DEF MInv, OwnerInv
<1>2. CASE waiters[m] # <<>>
  <2>1. m_owner' = [m_owner EXCEPT ![m] = h] /\ TakeWaiter(l, t, m, FALSE)
    BY <1>2 DEF UthreadMtxUnlock, MtxRelease
  <2>2. h \in Uthreads /\ Awaits(h, m)
    BY <2>1, AwaitsAfterTakeWaiter, MutexesDistinct
  <2>3. \A n \in Mutexes, s \in Uthreads :
          Awaits(s, n)' <=> Awaits(s, n) /\ ~(s = h /\ n = m)
    BY <2>1, AwaitsAfterTakeWaiter, MutexesDistinct
  <2> HIDE DEF h
  <2>4. MtxTypeOK'
    BY <1>0, <2>1, <2>2 DEF MInv, MtxTypeOK
  <2>5. ASSUME NEW n \in Mutexes, NEW s \in Uthreads
        PROVE  (/\ n \in held[s] => m_owner[n] = s /\ wants[s] # n
                /\ Awaits(s, n) => wants[s] = n /\ m_owner[n] # NULL /\ m_owner[n] # s
                /\ wants[s] = n => Awaits(s, n) \/ m_owner[n] = s
                /\ m_owner[n] = s => n \in held[s] \/ wants[s] = n)'
    BY <1>0, <2>1, <2>2, <2>3, MutexesDistinct DEF MInv, MtxTypeOK, OwnerInv
  <2> QED BY <2>4, <2>5 DEF MInv, OwnerInv
<1> QED BY <1>1, <1>2

\* No step of the program, of uthread_mtx.c or of the scheduler breaks it.
LEMMA NextMInv == IInv /\ MInv /\ [MtxNext]_allMtxVars => MInv'
<1> SUFFICES ASSUME IInv, MInv, [MtxNext]_allMtxVars PROVE MInv'
  OBVIOUS
<1>1. CASE UNCHANGED allMtxVars \/ (Aborted /\ UNCHANGED mtxVars)
  <2>1. UNCHANGED <<waiters, call, args, ut_curthr, curlwp, mtxVars>>
    BY <1>1 DEF allMtxVars, Aborted, schedVars, threadVars, objVars, lwpVars
  <2> QED BY <2>1, AwaitsFrame, OwnerKept
<1>2. CASE KernelStep /\ UNCHANGED mtxVars
  <2>1. \A m \in Mutexes, s \in Uthreads : Awaits(s, m)' <=> Awaits(s, m)
    BY <1>2, AwaitsThroughLwp, AwaitsThroughUthread, MutexesDistinct
       DEF KernelStep, UthreadStep
  <2> QED BY <1>2, <2>1, OwnerKept
<1>3. ASSUME NEW l \in Lwps, NEW t \in Uthreads, ProgramStep(l, t),
             UNCHANGED mtxVars
      PROVE  MInv'
  <2>1. \A m \in Mutexes, s \in Uthreads : Awaits(s, m)' <=> Awaits(s, m)
    BY <1>3, AwaitsThroughUthread, MutexesDistinct DEF ProgramStep, UthreadStep
  <2> QED BY <1>3, <2>1, OwnerKept
<1>4. ASSUME NEW l \in Lwps, NEW t \in Uthreads, MtxStep(l, t)
      PROVE  MInv'
  BY <1>4, MtxTakeStep, MtxBlockStep, MtxLockReturnStep, MtxUnlockStep
     DEF MtxStep, UthreadMtxLock, UthreadMtxTrylock
<1> QED BY <1>1, <1>2, <1>3, <1>4 DEF MtxNext

\* Who owns, holds and awaits every mutex, in every state the mutexes reach.
THEOREM MtxInvariance == MtxSpec => [](IInv /\ MInv)
<1>1. MtxSpec => []IInv
  BY MtxIsSched, Invariance
<1>2. IInv /\ MInv /\ [MtxNext]_allMtxVars => MInv'
  BY NextMInv
<1> QED BY <1>1, <1>2, InitMInv, PTL DEF MtxSpec

\* The owner, the calls in progress and the mutexes held have their types.
THEOREM MtxTypeCorrect == MtxSpec => []MtxTypeOK
<1>1. MInv => MtxTypeOK
  BY DEF MInv
<1> QED BY <1>1, MtxInvariance, PTL

\* uthread_mtx_lock and uthread_mtx_trylock let one uthread in at a time.
THEOREM MutexesExclude == MtxSpec => []MutualExclusion
<1>1. MInv => MutualExclusion
  BY DEF MInv, MtxTypeOK, OwnerInv, MutualExclusion
<1> QED BY <1>1, MtxInvariance, PTL

\* "when return, we own mtx": the comment after the switch in uthread_mtx_lock.
THEOREM BlockedReturnAsOwners == MtxSpec => []HandoffDelivered
<1>1. IInv /\ MInv => HandoffDelivered
  BY ClientAwaitsNothing, MutexesDistinct
     DEF MInv, MtxTypeOK, OwnerInv, HandoffDelivered
<1> QED BY <1>1, MtxInvariance, PTL

\* No wake-up is lost: uthread_mtx_unlock finds every uthread that found the
\* mutex owned, for m_pmut is unlocked only when its LWP has queued it.
THEOREM NobodyAwaitsFreeMutex == MtxSpec => []FreeMutexHasNoWaiter
<1>1. MInv => FreeMutexHasNoWaiter
  BY DEF MInv, OwnerInv, FreeMutexHasNoWaiter
<1> QED BY <1>1, MtxInvariance, PTL

-----------------------------------------------------------------------------
(* The refinement of HandoffMutex.                                         *)

\* What can be waited for and locked is neither a uthread nor NULL.
LEMMA SyncObjsDistinct ==
  /\ SyncObjs \subseteq Objs /\ Mutexes \subseteq SyncObjs
  /\ NULL \notin SyncObjs /\ NULL \notin Uthreads /\ NULL \notin Lwps
BY MtxAssumption, SchedAssumption DEF MtxAssumption, SchedAssumption, Objs

\* There is one such request at most.
LEMMA SeenQueueCases ==
  ASSUME waiters \in [Objs -> Seq(Uthreads)], NEW m \in SyncObjs
  PROVE  /\ AboutToWait(m) = {} => SeenQueue(m) = waiters[m]
         /\ \A t \in Uthreads :
              AboutToWait(m) = {t} =>
                SeenQueue(m) = utqueue_enqueue(waiters[m], t)
<1>1. waiters[m] \in Seq(Uthreads)
  BY SyncObjsDistinct DEF Objs
<1>2. waiters[m] \o <<>> = waiters[m]
  BY <1>1
<1>3. ASSUME NEW t \in Uthreads PROVE waiters[m] \o <<t>> = Append(waiters[m], t)
  BY <1>1
<1>4. ASSUME NEW t \in Uthreads, AboutToWait(m) = {t}
      PROVE  SeenQueue(m) = utqueue_enqueue(waiters[m], t)
  <2>1. (CHOOSE s \in AboutToWait(m) : TRUE) = t /\ AboutToWait(m) # {}
    BY <1>4
  <2> QED BY <1>3, <2>1 DEF SeenQueue, utqueue_enqueue
<1> QED BY <1>2, <1>4 DEF SeenQueue

\* Nor is there one while m_pmut is free.
LEMMA SeenQueueFree ==
  \A m \in SyncObjs :
    IInv /\ pmut[m] = NULL => AboutToWait(m) = {} /\ SeenQueue(m) = waiters[m]
<1> SUFFICES ASSUME IInv, NEW m \in SyncObjs, pmut[m] = NULL
             PROVE  AboutToWait(m) = {} /\ SeenQueue(m) = waiters[m]
  OBVIOUS
<1>1. AboutToWait(m) = {}
  BY RequestHoldsPmut, SyncObjsDistinct, SchedAssumption
     DEF SchedAssumption, AboutToWait
<1> QED BY <1>1, SeenQueueCases DEF IInv, TypeOK

\* The scheduler's steps, from the call of uthread_switch to the enqueueing by
\* lwp_switch, do not show.
LEMMA SeenQueueKept ==
  ASSUME IInv, IInv', KernelStep \/ (\E l \in Lwps, t \in Uthreads : ProgramStep(l, t)),
         NEW m \in SyncObjs
  PROVE  SeenQueue(m)' = SeenQueue(m)
<1>0. m \in SyncObjs /\ m # NULL /\ NULL \notin Uthreads
  BY SyncObjsDistinct
<1>1. ASSUME waiters'[m] = waiters[m],
             \A s \in Uthreads : ToBeQueued(s, m)' <=> ToBeQueued(s, m)
      PROVE  SeenQueue(m)' = SeenQueue(m)
  <2>1. AboutToWait(m)' = AboutToWait(m)
    BY <1>1 DEF AboutToWait
  <2> QED BY <1>1, <2>1 DEF SeenQueue
<1>2. ASSUME NEW l \in Lwps, NEW t \in Uthreads,
             UthreadStep(l, t) \/ \E slot \in Uthreads : Allocate(l, t, slot)
      PROVE  SeenQueue(m)' = SeenQueue(m)
  BY <1>0, <1>1, <1>2, AwaitsThroughUthread
<1>3. ASSUME NEW l \in Lwps, LwpSwitch(l), curlwp[l].queue = m,
             waiters'[m] = utqueue_enqueue(waiters[m], ut_curthr[l])
      PROVE  SeenQueue(m)' = SeenQueue(m)
  <2> DEFINE t == ut_curthr[l]
  <2>1. lpc[l] = "lwp_switch" /\ t \in Uthreads
    BY <1>0, <1>3 DEF LwpSwitch, IInv, PlaceInv, TypeOK, LwpInv, NoArgs
  <2>2. t \in AboutToWait(m)
    BY <1>3, <2>1 DEF AboutToWait, ToBeQueued
  <2>3. pmut[m] = l
    BY <1>0, <1>3, <2>1 DEF IInv, PlaceInv, AsksInv, AsksOf, Asks
  <2>4. AboutToWait(m) \subseteq {t}
    BY <1>0, <2>3, RequestHoldsPmut DEF AboutToWait
  <2>5. SeenQueue(m) = utqueue_enqueue(waiters[m], t)
    <3>1. AboutToWait(m) = {t}
      BY <2>2, <2>4
    <3> HIDE DEF t
    <3> QED BY <2>1, <3>1, SeenQueueCases DEF IInv, TypeOK
  <2>6. pmut'[m] = NULL
    <3>1. curlwp[l].pmut = m
      BY <1>0, <1>3, <2>1 DEF IInv, PlaceInv, AsksInv, AsksOf, Asks
    <3> QED BY <1>0, <1>3, <3>1 DEF LwpSwitch, IInv, TypeOK, Objs
  <2>7. SeenQueue(m)' = waiters'[m]
    <3>1. ASSUME NEW s \in Uthreads, ToBeQueued(s, m)'
          PROVE  FALSE
      <4>1. /\ UNCHANGED <<call, args>>
            /\ ut_curthr' = [ut_curthr EXCEPT ![l] = NULL]
            /\ curlwp' = [curlwp EXCEPT ![l] = NoArgs]
        BY <1>3 DEF LwpSwitch
      <4>2. ToBeQueued(s, m)
        BY <1>0, <3>1, <4>1 DEF ToBeQueued, IInv, TypeOK
      <4>3. s = t
        BY <2>4, <4>2 DEF AboutToWait
      <4>4. call[t] # "switch"
        BY <2>1 DEF IInv, PlaceInv, CallInv, LwpInv, OnStack
      <4>5. PICK k \in Lwps : ut_curthr'[k] = t /\ curlwp'[k].queue = m
        BY <3>1, <4>1, <4>3, <4>4 DEF ToBeQueued
      <4>6. k # l /\ ut_curthr[k] = t
        BY <1>0, <2>1, <4>1, <4>5 DEF IInv, TypeOK
      <4> QED BY <1>0, <2>1, <4>6 DEF IInv, PlaceInv, LwpInv
    <3>2. AboutToWait(m)' = {}
      BY <3>1 DEF AboutToWait
    <3>3. waiters'[m] \o <<>> = waiters'[m]
      <4>1. waiters'[m] \in Seq(Uthreads)
        BY SyncObjsDistinct DEF Objs, IInv, TypeOK
      <4> QED BY <4>1
    <3> QED BY <3>2, <3>3 DEF SeenQueue
  <2> QED BY <1>3, <2>5, <2>7
<1>4. ASSUME NEW l \in Lwps, LwpStep(l) \/ SpuriousWakeup(l)
      PROVE  SeenQueue(m)' = SeenQueue(m)
  <2>1. CASE /\ LwpSwitch(l) /\ curlwp[l].queue = m
             /\ waiters'[m] = utqueue_enqueue(waiters[m], ut_curthr[l])
    BY <1>3, <2>1
  <2>2. CASE ~(/\ LwpSwitch(l) /\ curlwp[l].queue = m
               /\ waiters'[m] = utqueue_enqueue(waiters[m], ut_curthr[l]))
    <3>1. ASSUME NEW s \in Uthreads
          PROVE  /\ waiters'[m] = waiters[m]
                 /\ ToBeQueued(s, m)' <=> ToBeQueued(s, m)
      BY <1>0, <1>4, <2>2, AwaitsThroughLwp
    <3>2. waiters'[m] = waiters[m]
      BY <3>1, SchedAssumption DEF SchedAssumption
    <3> QED BY <1>1, <3>1, <3>2
  <2> QED BY <2>1, <2>2
<1> QED BY <1>2, <1>4 DEF KernelStep, ProgramStep, UthreadStep

\* The steps of HandoffMutex, told by what they do to each queue.
LEMMA HandoffSteps ==
  ASSUME MtxTypeOK, NEW m \in Mutexes, NEW t \in Uthreads,
         \A n \in Mutexes \ {m} : SeenQueue(n)' = SeenQueue(n)
  PROVE  /\ /\ SeenQueue(m)' = SeenQueue(m)
            /\ m_owner[m] = NULL
            /\ m_owner' = [m_owner EXCEPT ![m] = t]
            => Handoff!HandoffNext
         /\ /\ SeenQueue(m)' = Append(SeenQueue(m), t)
            /\ m_owner[m] # NULL
            /\ m_owner' = m_owner
            => Handoff!HandoffNext
         /\ /\ SeenQueue(m)' = SeenQueue(m)
            /\ m_owner[m] # NULL
            /\ SeenQueue(m) = <<>>
            /\ m_owner' = [m_owner EXCEPT ![m] = NULL]
            => Handoff!HandoffNext
         /\ /\ SeenQueue(m)' = Tail(SeenQueue(m))
            /\ m_owner[m] # NULL
            /\ SeenQueue(m) # <<>>
            /\ m_owner' = [m_owner EXCEPT ![m] = Head(SeenQueue(m))]
            => Handoff!HandoffNext
<1> DEFINE q == [n \in Mutexes |-> SeenQueue(n)]
<1>1. q[m] = SeenQueue(m)
  OBVIOUS
<1>2. ASSUME SeenQueue(m)' = SeenQueue(m) PROVE q' = q
  BY <1>2
<1>3. ASSUME SeenQueue(m)' = Append(SeenQueue(m), t)
      PROVE  q' = [q EXCEPT ![m] = Append(@, t)]
  BY <1>3
<1>4. ASSUME SeenQueue(m)' = Tail(SeenQueue(m))
      PROVE  q' = [q EXCEPT ![m] = Tail(@)]
  BY <1>4
<1>5. /\ m_owner[m] = NULL /\ m_owner' = [m_owner EXCEPT ![m] = t] /\ q' = q
      => Handoff!HandoffNext
  BY DEF Handoff!HandoffNext, Handoff!Lock
<1>6. /\ m_owner[m] # NULL /\ m_owner' = m_owner
      /\ q' = [q EXCEPT ![m] = Append(@, t)]
      => Handoff!HandoffNext
  BY DEF Handoff!HandoffNext, Handoff!Lock
<1>7. /\ m_owner[m] # NULL /\ q[m] = <<>>
      /\ m_owner' = [m_owner EXCEPT ![m] = NULL] /\ q' = q
      => Handoff!HandoffNext
  BY DEF Handoff!HandoffNext, Handoff!Unlock
<1>8. /\ m_owner[m] # NULL /\ q[m] # <<>>
      /\ m_owner' = [m_owner EXCEPT ![m] = Head(q[m])]
      /\ q' = [q EXCEPT ![m] = Tail(@)]
      => Handoff!HandoffNext
  BY DEF Handoff!HandoffNext, Handoff!Unlock
<1> HIDE DEF q
<1> QED BY <1>1, <1>2, <1>3, <1>4, <1>5, <1>6, <1>7, <1>8

\* The steps of uthread_mtx.c are those of HandoffMutex.
LEMMA MtxStepHandsOff ==
  ASSUME IInv, MInv, NEW l \in Lwps, NEW t \in Uthreads, MtxStep(l, t)
  PROVE  \/ Handoff!HandoffNext
         \/ m_owner' = m_owner /\ \A n \in Mutexes : SeenQueue(n)' = SeenQueue(n)
<1>0. /\ Mutexes \subseteq Objs /\ Mutexes \subseteq SyncObjs
      /\ waiters \in [Objs -> Seq(Uthreads)] /\ MtxTypeOK
  BY MutexesDistinct DEF Objs, IInv, TypeOK, MInv
<1>1. ASSUME UNCHANGED schedVars, NEW n \in Mutexes
      PROVE  SeenQueue(n)' = SeenQueue(n)
  BY <1>1 DEF SeenQueue, AboutToWait, ToBeQueued, schedVars, threadVars, objVars,
              lwpVars
<1>2. ASSUME NEW m \in Mutexes, MtxTake(l, t, m)
      PROVE  Handoff!HandoffNext
  BY <1>0, <1>1, <1>2, HandoffSteps DEF MtxTake
<1>3. ASSUME NEW m \in Mutexes, MtxBlock(l, t, m)
      PROVE  Handoff!HandoffNext
  <2>1. SeenQueue(m) = waiters[m] /\ AboutToWait(m) = {}
    BY <1>0, <1>3, SeenQueueFree DEF MtxBlock
  <2>2. /\ UNCHANGED <<waiters, ut_curthr, curlwp>>
        /\ call[t] = "client" /\ call'[t] = "switch" /\ args'[t].queue = m
        /\ \A u \in Uthreads \ {t} : call'[u] = call[u] /\ args'[u] = args[u]
    BY <1>3 DEF IInv, TypeOK, MtxBlock, WaitOn, Runs, CallsSwitch, lwpVars
  <2>3. \A n \in Mutexes, s \in Uthreads :
          ToBeQueued(s, n)' <=> ToBeQueued(s, n) \/ (s = t /\ n = m)
    BY <2>2 DEF ToBeQueued
  <2>4. /\ AboutToWait(m)' = {t}
        /\ \A n \in Mutexes \ {m} : AboutToWait(n)' = AboutToWait(n)
    BY <2>1, <2>3 DEF AboutToWait
  <2>5. SeenQueue(m)' = Append(SeenQueue(m), t)
    <3>1. (CHOOSE s \in {t} : TRUE) = t /\ {t} # {}
      OBVIOUS
    <3>2. waiters[m] \o <<t>> = Append(waiters[m], t)
      <4>1. waiters[m] \in Seq(Uthreads)
        BY <1>0
      <4> QED BY <4>1
    <3>3. SeenQueue(m)' = waiters[m] \o <<CHOOSE s \in {t} : TRUE>>
      BY <2>2, <2>4 DEF SeenQueue
    <3> QED BY <2>1, <3>1, <3>2, <3>3
  <2>6. ASSUME NEW n \in Mutexes \ {m} PROVE SeenQueue(n)' = SeenQueue(n)
    <3>1. AboutToWait(n)' = AboutToWait(n) /\ waiters' = waiters
      BY <2>2, <2>4
    <3> QED BY <3>1 DEF SeenQueue
  <2> QED BY <1>0, <1>3, <2>5, <2>6, HandoffSteps DEF MtxBlock
<1>4. ASSUME NEW m \in Mutexes, UthreadMtxUnlock(l, t, m)
      PROVE  Handoff!HandoffNext
  <2>1. SeenQueue(m) = waiters[m] /\ AboutToWait(m) = {} /\ m_owner[m] # NULL
    BY <1>4, SeenQueueFree, MutexesDistinct
       DEF UthreadMtxUnlock, MInv, MtxTypeOK, OwnerInv
  <2>2. CASE waiters[m] = <<>>
    BY <1>0, <1>1, <1>4, <2>1, <2>2, HandoffSteps DEF UthreadMtxUnlock, MtxRelease
  <2>3. CASE waiters[m] # <<>>
    <3>1. /\ m_owner' = [m_owner EXCEPT ![m] = Head(waiters[m])]
          /\ TakeWaiter(l, t, m, FALSE)
      BY <1>4, <2>3 DEF UthreadMtxUnlock, MtxRelease
    <3>2. /\ waiters' = [waiters EXCEPT ![m] = Tail(@)]
          /\ UNCHANGED <<ut_curthr, curlwp, args>>
          /\ call[t] = "client" /\ call'[t] = "wake"
          /\ \A u \in Uthreads \ {t} : call'[u] = call[u]
      BY <3>1 DEF IInv, TypeOK, TakeWaiter, Runs, lwpVars
    <3>3. ASSUME NEW n \in Mutexes PROVE AboutToWait(n)' = AboutToWait(n)
      BY <3>2 DEF AboutToWait, ToBeQueued
    <3>4. SeenQueue(m)' = Tail(waiters[m])
      <4>1. waiters'[m] = Tail(waiters[m])
        BY <1>0, <3>2
      <4>2. Tail(waiters[m]) \in Seq(Uthreads)
        BY <1>0, <2>3, HeadTailProperties
      <4>3. Tail(waiters[m]) \o <<>> = Tail(waiters[m])
        BY <4>2
      <4>4. SeenQueue(m)' = waiters'[m] \o <<>>
        <5>1. AboutToWait(m)' = {}
          BY <2>1, <3>3
        <5> QED BY <5>1 DEF SeenQueue
      <4> QED BY <4>1, <4>3, <4>4
    <3>5. ASSUME NEW n \in Mutexes \ {m} PROVE SeenQueue(n)' = SeenQueue(n)
      <4>1. AboutToWait(n)' = AboutToWait(n) /\ waiters'[n] = waiters[n]
        BY <1>0, <3>2, <3>3
      <4> QED BY <4>1 DEF SeenQueue
    <3> QED BY <1>0, <2>1, <2>3, <3>1, <3>4, <3>5, HandoffSteps
  <2> QED BY <2>2, <2>3
<1>5. ASSUME UthreadMtxLockReturn(l, t), NEW n \in Mutexes
      PROVE  m_owner' = m_owner /\ SeenQueue(n)' = SeenQueue(n)
  BY <1>1, <1>5 DEF UthreadMtxLockReturn
<1>6. UthreadMtxLockReturn(l, t) => m_owner' = m_owner
  BY DEF UthreadMtxLockReturn
<1> QED BY <1>2, <1>3, <1>4, <1>5, <1>6
        DEF MtxStep, UthreadMtxLock, UthreadMtxTrylock

\* To its callers a mutex is one with an owner and a queue, which is handed over
\* in the order of the calls.
THEOREM MutexesHandOff == MtxSpec => ImplementsHandoff
<1>1. MtxInit => Handoff!HandoffInit
  <2> SUFFICES ASSUME MtxInit PROVE Handoff!HandoffInit
    OBVIOUS
  <2>1. ASSUME NEW m \in Mutexes PROVE SeenQueue(m) = <<>>
    <3>1. /\ waiters[m] = <<>> /\ \A t \in Uthreads : call[t] = "client"
          /\ \A k \in Lwps : ut_curthr[k] = NULL
      BY MutexesDistinct DEF MtxInit, SchedInit, Objs
    <3>2. AboutToWait(m) = {}
      BY <3>1, MutexesDistinct DEF AboutToWait, ToBeQueued
    <3>3. <<>> \in Seq(Uthreads) => <<>> \o <<>> = <<>>
      OBVIOUS
    <3> QED BY <3>1, <3>2, <3>3, EmptySeq DEF SeenQueue
  <2> QED BY <2>1 DEF MtxInit, Handoff!HandoffInit
<1>2. IInv /\ IInv' /\ MInv /\ [MtxNext]_allMtxVars =>
        [Handoff!HandoffNext]_<<m_owner, [m \in Mutexes |-> SeenQueue(m)]>>
  <2> SUFFICES ASSUME IInv, IInv', MInv, [MtxNext]_allMtxVars
               PROVE  \/ Handoff!HandoffNext
                      \/ /\ m_owner' = m_owner
                         /\ \A m \in Mutexes : SeenQueue(m)' = SeenQueue(m)
    OBVIOUS
  <2>1. CASE UNCHANGED allMtxVars \/ (Aborted /\ UNCHANGED mtxVars)
    <3>1. UNCHANGED <<waiters, call, args, ut_curthr, curlwp, mtxVars>>
      BY <2>1 DEF allMtxVars, Aborted, schedVars, threadVars, objVars, lwpVars
    <3>2. ASSUME NEW m \in Mutexes PROVE SeenQueue(m)' = SeenQueue(m)
      BY <3>1 DEF SeenQueue, AboutToWait, ToBeQueued
    <3> QED BY <3>1, <3>2 DEF mtxVars
  <2>2. CASE UNCHANGED mtxVars /\ (KernelStep \/ \E l \in Lwps, t \in Uthreads :
                                                  ProgramStep(l, t))
    BY <2>2, SeenQueueKept, MutexesDistinct DEF mtxVars
  <2>3. ASSUME NEW l \in Lwps, NEW t \in Uthreads, MtxStep(l, t)
        PROVE  \/ Handoff!HandoffNext
               \/ /\ m_owner' = m_owner
                  /\ \A m \in Mutexes : SeenQueue(m)' = SeenQueue(m)
    BY <2>3, MtxStepHandsOff
  <2> QED BY <2>1, <2>2, <2>3 DEF MtxNext
<1> QED BY <1>1, <1>2, MtxInvariance, PTL
        DEF MtxSpec, ImplementsHandoff, Handoff!HandoffSpec

-----------------------------------------------------------------------------
(* Who stays where.                                                        *)

\* Client code leaves the LWPs, the calls of other uthreads and the POSIX
\* mutexes that other LWPs have locked as they are.
ClientShape(k, u) ==
  /\ ut_curthr[k] = u
  /\ UNCHANGED <<lpc, ut_curthr>>
  /\ \A s \in Uthreads \ {u} : call'[s] = call[s] /\ args'[s] = args[s]
  /\ \A o \in Objs : pmut[o] \notin {NULL, k} => pmut'[o] = pmut[o]

LEMMA ClientShapes ==
  ASSUME TypeOK, NEW k \in Lwps, NEW u \in Uthreads
  PROVE  /\ Yield(k, u) => ClientShape(k, u)
         /\ \A o \in Objs : LockPmut(k, u, o) => ClientShape(k, u)
         /\ \A o \in Objs : UnlockPmut(k, u, o) => ClientShape(k, u)
         /\ \A o \in SyncObjs : WaitOn(k, u, o) => ClientShape(k, u)
         /\ \A o \in Objs, keep \in BOOLEAN :
              TakeWaiter(k, u, o, keep) => ClientShape(k, u)
         /\ \A slot \in Uthreads : Allocate(k, u, slot) => ClientShape(k, u)
         /\ Runs(k, u, "client") /\ UNCHANGED schedVars => ClientShape(k, u)
         /\ MtxStep(k, u) => ClientShape(k, u)
<1> USE DEF ClientShape, Runs, TypeOK, threadVars, objVars, runqVars, lwpVars
<1>1. Yield(k, u) => ClientShape(k, u)
  BY DEF Yield, CallsSwitch
<1>2. \A o \in Objs : LockPmut(k, u, o) => ClientShape(k, u)
  BY DEF LockPmut
<1>3. \A o \in Objs : UnlockPmut(k, u, o) => ClientShape(k, u)
  BY DEF UnlockPmut
<1>4. \A o \in SyncObjs : WaitOn(k, u, o) => ClientShape(k, u)
  BY DEF WaitOn, MayLock, CallsSwitch, Objs
<1>5. \A o \in Objs, keep \in BOOLEAN :
        TakeWaiter(k, u, o, keep) => ClientShape(k, u)
  BY DEF TakeWaiter, MayLock
<1>6. \A slot \in Uthreads : Allocate(k, u, slot) => ClientShape(k, u)
  BY DEF Allocate
<1>7. Runs(k, u, "client") /\ UNCHANGED schedVars => ClientShape(k, u)
  BY DEF schedVars
<1>8. MtxStep(k, u) => ClientShape(k, u)
  <2> HIDE DEF ClientShape, Runs, TypeOK
  <2>1. \A m \in Mutexes : MtxTake(k, u, m) /\ InProgram(k, u) => ClientShape(k, u)
    BY <1>7 DEF MtxTake, InProgram
  <2>2. \A m \in Mutexes : MtxBlock(k, u, m) => ClientShape(k, u)
    BY <1>4, MutexesDistinct DEF MtxBlock
  <2>3. \A m \in Mutexes : UthreadMtxUnlock(k, u, m) => ClientShape(k, u)
    BY <1>5, <1>7, MutexesDistinct
       DEF UthreadMtxUnlock, MtxRelease, InProgram, Objs
  <2>4. UthreadMtxLockReturn(k, u) => ClientShape(k, u)
    BY <1>7 DEF UthreadMtxLockReturn
  <2> QED BY <2>1, <2>2, <2>3, <2>4 DEF MtxStep, UthreadMtxLock, UthreadMtxTrylock
<1> QED BY <1>1, <1>2, <1>3, <1>4, <1>5, <1>6, <1>7, <1>8

\* uthread t executes on LWP l, outside a switch, and l has locked o.
Holds(l, t, o) ==
  OnStack(l, t) /\ call[t] \in {"client", "wake"} /\ pmut[o] = l

\* Another uthread's step on its own LWP does not change that.
LEMMA HoldsThroughOther ==
  ASSUME IInv, NEW l \in Lwps, NEW t \in Uthreads, NEW o \in Objs, Holds(l, t, o),
         NEW k \in Lwps, NEW u \in Uthreads \ {t}, ClientShape(k, u)
  PROVE  Holds(l, t, o)'
BY SchedAssumption DEF SchedAssumption, Holds, ClientShape, OnStack

\* Nor does a step of an LWP, or of library code.
LEMMA HoldsThroughKernel ==
  ASSUME IInv, NEW l \in Lwps, NEW t \in Uthreads, NEW o \in Objs, Holds(l, t, o),
         KernelStep
  PROVE  Holds(l, t, o)'
<1> USE DEF Holds, OnStack
<1>0. IInv => TypeOK /\ LwpInv
  BY DEF IInv, PlaceInv
<1>1. ASSUME NEW k \in Lwps,
             LwpStart(k) \/ LwpPark(k) \/ LwpUnpark(k) \/ SpuriousWakeup(k)
      PROVE  Holds(l, t, o)'
  BY <1>0, <1>1 DEF LwpStart, LwpPark, LwpUnpark, SpuriousWakeup, threadVars,
                    objVars, TypeOK
<1>2. ASSUME NEW k \in Lwps, LwpDispatch(k)
      PROVE  Holds(l, t, o)'
  BY <1>0, <1>2 DEF LwpDispatch, objVars, TypeOK
<1>3. ASSUME NEW k \in Lwps, LwpSwitch(k)
      PROVE  Holds(l, t, o)'
  <2>1. k # l /\ call' = call /\ ut_curthr'[l] = ut_curthr[l]
    BY <1>0, <1>3 DEF LwpSwitch, TypeOK
  <2>2. curlwp[k].pmut # o
    <3>1. CASE ut_curthr[k] = NULL
      BY <1>0, <3>1, SchedAssumption DEF LwpInv, NoArgs, SchedAssumption, Objs
    <3>2. CASE ut_curthr[k] # NULL
      <4>1. PICK s \in Uthreads : ut_curthr[k] = s
        BY <1>0, <3>2 DEF TypeOK
      <4>2. Asks(k, s, curlwp[k])
        BY <1>3, <4>1 DEF IInv, PlaceInv, AsksInv, AsksOf, LwpSwitch
      <4>3. curlwp[k].pmut = NULL \/ pmut[curlwp[k].pmut] = k
        BY <4>2 DEF Asks
      <4>4. o # NULL
        BY SchedAssumption DEF SchedAssumption, Objs
      <4> QED BY <2>1, <4>3, <4>4
    <3> QED BY <3>1, <3>2
  <2>3. pmut'[o] = pmut[o]
    BY <1>0, <1>3, <2>2 DEF LwpSwitch, TypeOK
  <2>4. lpc'[l] = lpc[l]
    <3> DEFINE pcs == [lpc EXCEPT ![k] = "search"]
               u == ut_curthr[k]
    <3>1. pcs \in [Lwps -> LwpPcs] /\ pcs[l] = "uthread"
      BY <1>0, <2>1 DEF TypeOK, LwpPcs
    <3>2. CASE u # NULL /\ RunqEnqueue(u, ut_prio[u], pcs)
      <4>1. u \in Uthreads /\ ut_prio[u] \in Prios
            /\ runq_table \in [Prios -> Seq(Uthreads)]
        BY <1>0, <3>2 DEF TypeOK
      <4>2. Released(pcs, lpc')
        BY <3>1, <3>2, <4>1, RunqEnqueueEffect
      <4> QED BY <3>1, <4>2 DEF Released
    <3>3. CASE lpc' = pcs
      BY <3>1, <3>3
    <3> QED BY <1>3, <3>2, <3>3 DEF LwpSwitch
  <2> QED BY <2>1, <2>3, <2>4
<1>4. ASSUME NEW k \in Lwps, NEW u \in Uthreads, UthreadSwitch(k, u)
      PROVE  Holds(l, t, o)'
  <2>1. u # t /\ k # l
    BY <1>4 DEF UthreadSwitch, Runs
  <2> QED BY <1>0, <1>4, <2>1 DEF UthreadSwitch, TypeOK, objVars
<1>5. ASSUME NEW k \in Lwps, NEW u \in Uthreads,
             UthreadWake(k, u) \/ \E prio \in Prios : UthreadStartOnRunq(k, u, prio)
      PROVE  Holds(l, t, o)'
  <2>1. /\ call' = [call EXCEPT ![u] = "client"] /\ ut_curthr' = ut_curthr
        /\ pmut' = pmut
    BY <1>5 DEF UthreadWake, UthreadStartOnRunq, objVars
  <2>2. lpc'[l] = lpc[l]
    <3>1. CASE lpc' = lpc
      BY <3>1
    <3>2. ASSUME NEW p \in Prios, target[u] \in Uthreads, RunqEnqueue(target[u], p, lpc)
          PROVE  lpc'[l] = lpc[l]
      <4>1. Released(lpc, lpc')
        BY <1>0, <3>2, RunqEnqueueEffect DEF TypeOK
      <4> QED BY <4>1 DEF Released
    <3>3. target[u] \in Uthreads /\ ut_prio[target[u]] \in Prios
      BY <1>0, <1>5 DEF UthreadWake, UthreadStartOnRunq, Runs, IInv, PlaceInv,
                        CallInv, TypeOK
    <3> QED BY <1>5, <3>1, <3>2, <3>3 DEF UthreadWake, UthreadStartOnRunq, lwpVars
  <2> QED BY <1>0, <2>1, <2>2 DEF TypeOK
<1> QED BY <1>1, <1>2, <1>3, <1>4, <1>5 DEF KernelStep, LwpStep

\* The mutex calls leave those who wait for anything else alone.
LEMMA AwaitsThroughMtx ==
  ASSUME IInv, NEW k \in Lwps, NEW u \in Uthreads, MtxStep(k, u),
         NEW c \in Objs \ Mutexes, NEW s \in Uthreads
  PROVE  /\ Awaits(s, c)' <=> Awaits(s, c)
         /\ ToBeQueued(s, c)' <=> ToBeQueued(s, c)
         /\ waiters'[c] = waiters[c]
<1> DEFINE Kept == /\ Awaits(s, c)' <=> Awaits(s, c)
                   /\ ToBeQueued(s, c)' <=> ToBeQueued(s, c)
                   /\ waiters'[c] = waiters[c]
<1>0. c \in Objs /\ waiters \in [Objs -> Seq(Uthreads)]
  BY DEF IInv, TypeOK
<1>1. UNCHANGED schedVars => Kept
  BY <1>0, AwaitsThroughPmut
<1>2. ASSUME NEW m \in Mutexes, WaitOn(k, u, m)
      PROVE  Kept
  <2>1. /\ UNCHANGED <<waiters, ut_curthr, curlwp>>
        /\ call[u] = "client" /\ call'[u] = "switch" /\ args'[u].queue = m
        /\ \A t \in Uthreads \ {u} : call'[t] = call[t] /\ args'[t] = args[t]
    BY <1>2 DEF IInv, TypeOK, WaitOn, Runs, CallsSwitch, lwpVars
  <2>2. c # m
    OBVIOUS
  <2> QED BY <2>1, <2>2 DEF Awaits, ToBeQueued
<1>3. ASSUME NEW m \in Mutexes, TakeWaiter(k, u, m, FALSE)
      PROVE  Kept
  <2>1. /\ waiters' = [waiters EXCEPT ![m] = Tail(@)]
        /\ UNCHANGED <<ut_curthr, curlwp, args>>
        /\ call[u] = "client" /\ call'[u] = "wake"
        /\ \A t \in Uthreads \ {u} : call'[t] = call[t]
    BY <1>3 DEF IInv, TypeOK, TakeWaiter, Runs, lwpVars
  <2>2. c # m
    OBVIOUS
  <2> QED BY <1>0, <2>1, <2>2 DEF Awaits, ToBeQueued
<1> HIDE DEF Kept
<1>4. Kept
  BY <1>1, <1>2, <1>3
     DEF MtxStep, UthreadMtxLock, UthreadMtxTrylock, UthreadMtxUnlock,
         UthreadMtxLockReturn, MtxTake, MtxBlock, MtxRelease
<1> QED BY <1>4 DEF Kept

=============================================================================
