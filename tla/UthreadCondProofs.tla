-------------------------- MODULE UthreadCondProofs --------------------------
(***************************************************************************)
(* The condition variables of UthreadCond use the scheduler as it allows,  *)
(* and implement CondVar, for any number of uthreads, LWPs, mutexes and    *)
(* condition variables.                                                    *)
(*                                                                         *)
(* The argument is the POSIX mutex of the condition variable.  It is       *)
(* locked by an LWP, but the uthread that locked it stays on that LWP      *)
(* until it has been unlocked (CInv); so only one uthread at a time is     *)
(* between giving up its mutex and being queued, or between looking at the *)
(* queue and waking.                                                       *)
(***************************************************************************)
EXTENDS UthreadCond, UthreadMtxProofs

\* Mutexes and condition variables are different objects.
LEMMA CondsDistinct ==
  /\ Conds \subseteq SyncObjs /\ Conds \subseteq Objs
  /\ NULL \notin Conds /\ NULL \notin Uthreads /\ NULL \notin Lwps
  /\ \A c \in Conds, m \in Mutexes : c # m
BY CondAssumption, SchedAssumption DEF CondAssumption, SchedAssumption, Objs

-----------------------------------------------------------------------------
(* Every step is an ordinary step of the scheduler.                        *)

\* uthread_cond.c locks and unlocks pmut, waits on the condition variable and
\* takes waiters off it, and calls uthread_mtx_lock and uthread_mtx_unlock.
LEMMA CondStepIsOrdinary ==
  ASSUME ~panic, NEW l \in Lwps, NEW t \in Uthreads, CondStep(l, t),
         \A s \in Uthreads : cond[s] \in Conds \cup {NULL} /\ mtx[s] \in Mutexes \cup {NULL},
         cpc[t] # "program" => cond[t] \in Conds,
         cpc[t] \in {"unlock", "relock"} => mtx[t] \in Mutexes
  PROVE  OrdinaryNext \/ UNCHANGED schedVars
<1>1. ASSUME NEW c \in Conds, LockPmut(l, t, c)
      PROVE  OrdinaryNext
  BY <1>1, CondsDistinct DEF OrdinaryNext, OrdinaryStep
<1>2. ASSUME NEW c \in Conds, UnlockPmut(l, t, c)
      PROVE  OrdinaryNext
  BY <1>2, CondsDistinct DEF OrdinaryNext, OrdinaryStep
<1>3. ASSUME NEW c \in Conds, WaitOn(l, t, c)
      PROVE  OrdinaryNext
  BY <1>3, CondsDistinct DEF OrdinaryNext, OrdinaryStep
<1>4. ASSUME NEW c \in Conds, TakeWaiter(l, t, c, TRUE)
      PROVE  OrdinaryNext
  BY <1>4, CondsDistinct DEF OrdinaryNext, OrdinaryStep
<1>5. CASE \E c \in Conds : CondSignalLock(l, t, c) \/ CondBroadcastLock(l, t, c)
                              \/ \E m \in Mutexes : CondWait(l, t, c, m)
  BY <1>1, <1>5 DEF CondSignalLock, CondBroadcastLock, CondWait
<1>6. CASE CondUnlock(l, t)
  <2>1. MtxStep(l, t)
    BY <1>6 DEF CondUnlock, CondHere, MtxStep
  <2> QED BY <2>1, MtxStepIsOrdinary
<1>7. CASE CondRelock(l, t)
  <2>1. MtxStep(l, t)
    BY <1>7 DEF CondRelock, CondHere, MtxStep
  <2> QED BY <2>1, MtxStepIsOrdinary
<1>8. CASE CondSleep(l, t)
  BY <1>3, <1>8 DEF CondSleep, CondHere
<1>9. CASE CondSignal(l, t) \/ CondSignalUnlock(l, t) \/ CondBroadcast(l, t)
  BY <1>2, <1>4, <1>9 DEF CondSignal, CondSignalUnlock, CondBroadcast, CondHere
<1> QED BY <1>5, <1>6, <1>7, <1>8, <1>9 DEF CondStep, CondGoesOn

-----------------------------------------------------------------------------
(* The invariant.                                                          *)

\* In uthread_cond.c, but not while asleep or locking the mutex again, a
\* uthread is on the LWP that has locked pmut; its arguments are those of the
\* call.
UCond(t) ==
  /\ cpc[t] \in CondPcs
  /\ cond[t] \in Conds \cup {NULL} /\ mtx[t] \in Mutexes \cup {NULL}
  /\ cpc[t] # "program" => cond[t] \in Conds /\ wants[t] = NULL
  /\ cpc[t] \in {"unlock", "sleep", "relock"} => mtx[t] \in Mutexes
  /\ cpc[t] \notin {"program", "relock"} => \E l \in Lwps : Holds(l, t, cond[t])

\* Who awaits a condition variable is in uthread_cond_wait on it.
AwaitsInWait ==
  \A t \in Uthreads, c \in Conds :
    Awaits(t, c) => cpc[t] = "relock" /\ cond[t] = c

CInv ==
  /\ cpc \in [Uthreads -> CondPcs]
  /\ cond \in [Uthreads -> Conds \cup {NULL}]
  /\ mtx \in [Uthreads -> Mutexes \cup {NULL}]
  /\ \A t \in Uthreads : UCond(t)
  /\ AwaitsInWait

\* Nobody is in a call of uthread_cond.c at first.
LEMMA InitCInv == CondInit => CInv
<1> SUFFICES ASSUME CondInit PROVE CInv
  OBVIOUS
<1>1. /\ cpc \in [Uthreads -> CondPcs]
      /\ cond \in [Uthreads -> Conds \cup {NULL}]
      /\ mtx \in [Uthreads -> Mutexes \cup {NULL}]
  BY DEF CondInit, CondPcs
<1>2. ASSUME NEW t \in Uthreads PROVE UCond(t)
  BY <1>1 DEF CondInit, UCond
<1>3. ASSUME NEW t \in Uthreads, NEW c \in Conds PROVE ~Awaits(t, c)
  <2>1. /\ waiters[c] = <<>> /\ call[t] = "client"
        /\ \A k \in Lwps : ut_curthr[k] = NULL
    BY CondsDistinct DEF CondInit, MtxInit, SchedInit
  <2> QED BY <2>1, CondsDistinct, EmptyQueue DEF Awaits, ToBeQueued
<1> QED BY <1>1, <1>2, <1>3 DEF CInv, AwaitsInWait

\* Whoever holds pmut is alone in its code.
LEMMA OneHolder ==
  ASSUME IInv, NEW o, NEW l \in Lwps, NEW t \in Uthreads, Holds(l, t, o),
         NEW k \in Lwps, NEW u \in Uthreads, Holds(k, u, o)
  PROVE  l = k /\ t = u
BY DEF Holds, OnStack

\* A step of another uthread keeps what the invariant says of t.
LEMMA UCondThroughOther ==
  ASSUME IInv, CInv, NEW k \in Lwps, NEW u \in Uthreads, ClientShape(k, u),
         NEW t \in Uthreads \ {u},
         cpc'[t] = cpc[t], cond'[t] = cond[t], mtx'[t] = mtx[t],
         wants'[t] = wants[t]
  PROVE  UCond(t)'
<1>1. UCond(t)
  BY DEF CInv
<1>2. ASSUME NEW l \in Lwps, Holds(l, t, cond[t]), cond[t] \in Conds
      PROVE  Holds(l, t, cond[t])'
  <2> DEFINE c == cond[t]
  <2>1. c \in Objs
    BY <1>2, CondsDistinct
  <2> HIDE DEF c
  <2>2. ASSUME Holds(l, t, c)
        PROVE  (OnStack(l, t) /\ call[t] \in {"client", "wake"})' /\ pmut'[c] = l
    <3>1. ut_curthr' = ut_curthr /\ lpc' = lpc /\ call'[t] = call[t]
      BY DEF ClientShape
    <3>2. pmut[c] \notin {NULL, k}
      BY <2>2, CondsDistinct DEF Holds, OnStack, ClientShape
    <3>3. pmut'[c] = pmut[c]
      BY <2>1, <3>2 DEF ClientShape
    <3> QED BY <2>2, <3>1, <3>3 DEF Holds, OnStack
  <2> QED BY <1>2, <2>2 DEF Holds, c
<1> QED BY <1>1, <1>2 DEF UCond

\* So does a step of the kernel, of any uthread.
LEMMA UCondThroughKernel ==
  ASSUME IInv, CInv, KernelStep, UNCHANGED <<mtxVars, condVars>>,
         NEW t \in Uthreads
  PROVE  UCond(t)'
<1>1. UCond(t) /\ UNCHANGED <<cpc, cond, mtx, wants>>
  BY DEF CInv, mtxVars, condVars
<1>2. ASSUME NEW l \in Lwps, Holds(l, t, cond[t]), cond[t] \in Conds
      PROVE  Holds(l, t, cond[t])'
  <2> DEFINE c == cond[t]
  <2>1. c \in Objs /\ cond' = cond
    BY <1>1, <1>2, CondsDistinct
  <2> HIDE DEF c
  <2>2. ASSUME Holds(l, t, c)
        PROVE  (OnStack(l, t) /\ call[t] \in {"client", "wake"})' /\ pmut'[c] = l
    <3>1. \A o \in Objs : Holds(l, t, o) => Holds(l, t, o)'
      BY HoldsThroughKernel
    <3> QED BY <2>1, <2>2, <3>1 DEF Holds
  <2> QED BY <1>2, <2>1, <2>2 DEF Holds, c
<1> QED BY <1>1, <1>2 DEF UCond

-----------------------------------------------------------------------------
(* The steps of the program and of uthread_cond.c.                         *)

\* The mutex calls leave those who wait on a condition variable alone.
LEMMA CondAwaitsThroughMtx ==
  ASSUME IInv, NEW k \in Lwps, NEW u \in Uthreads, MtxStep(k, u),
         NEW c \in Conds, NEW s \in Uthreads
  PROVE  /\ Awaits(s, c)' <=> Awaits(s, c)
         /\ ToBeQueued(s, c)' <=> ToBeQueued(s, c)
         /\ waiters'[c] = waiters[c]
<1>1. c \in Objs \ Mutexes
  BY CondsDistinct
<1> QED BY <1>1, AwaitsThroughMtx

\* A step of uthread u on its LWP: what there is to show.
LEMMA CInvByStep ==
  ASSUME IInv, CInv, NEW k \in Lwps, NEW u \in Uthreads, Runs(k, u, "client"),
         ClientShape(k, u),
         NEW pc \in CondPcs, NEW c \in Conds \cup {NULL},
         NEW m \in Mutexes \cup {NULL}, Enters(u, pc, c, m),
         \A t \in Uthreads \ {u} : wants'[t] = wants[t],
         pc # "program" => c \in Conds /\ wants'[u] = NULL,
         pc \in {"unlock", "sleep", "relock"} => m \in Mutexes,
         pc \notin {"program", "relock"} =>
           call'[u] \in {"client", "wake"} /\ pmut'[c] = k,
         \A s \in Uthreads, d \in Conds :
           Awaits(s, d)' => Awaits(s, d) \/ (s = u /\ pc = "relock" /\ c = d)
  PROVE  CInv'
<1>1. /\ cpc' \in [Uthreads -> CondPcs] /\ cpc'[u] = pc
      /\ cond' \in [Uthreads -> Conds \cup {NULL}] /\ cond'[u] = c
      /\ mtx' \in [Uthreads -> Mutexes \cup {NULL}] /\ mtx'[u] = m
      /\ \A t \in Uthreads \ {u} :
           cpc'[t] = cpc[t] /\ cond'[t] = cond[t] /\ mtx'[t] = mtx[t]
  BY DEF CInv, Enters
<1>2. ASSUME NEW t \in Uthreads \ {u} PROVE UCond(t)'
  BY <1>1, UCondThroughOther
<1>3. UCond(u)'
  <2>1. (OnStack(k, u))'
    BY DEF Runs, ClientShape, OnStack
  <2>2. pc \notin {"program", "relock"} => \E l \in Lwps : Holds(l, u, cond[u])'
    BY <1>1, <2>1 DEF Holds
  <2> QED BY <1>1, <2>2 DEF UCond
<1>4. AwaitsInWait'
  <2> SUFFICES ASSUME NEW t \in Uthreads, NEW d \in Conds, Awaits(t, d)'
               PROVE  cpc'[t] = "relock" /\ cond'[t] = d
    BY DEF AwaitsInWait
  <2>1. CASE t = u
    BY <1>1, <2>1, ClientAwaitsNothing, CondsDistinct
  <2>2. CASE t # u
    BY <1>1, <2>2 DEF CInv, AwaitsInWait
  <2> QED BY <2>1, <2>2
<1> QED BY <1>1, <1>2, <1>3, <1>4 DEF CInv

\* Locking pmut: uthread_cond_wait, _signal and _broadcast begin.
LEMMA CondLockStep ==
  ASSUME IInv, CInv, NEW k \in Lwps, NEW u \in Uthreads, NEW c \in Conds,
         CondSignalLock(k, u, c) \/ CondBroadcastLock(k, u, c)
           \/ \E m \in Mutexes : CondWait(k, u, c, m)
  PROVE  CInv'
<1>1. Runs(k, u, "client") /\ wants[u] = NULL /\ LockPmut(k, u, c)
      /\ UNCHANGED mtxVars
  BY DEF CondSignalLock, CondBroadcastLock, CondWait, CondHere, InProgram
<1>2. ClientShape(k, u) /\ c \in Objs
  BY <1>1, ClientShapes, CondsDistinct DEF IInv
<1>3. call'[u] = "client" /\ pmut'[c] = k /\ wants' = wants
  BY <1>1, <1>2 DEF LockPmut, Runs, threadVars, mtxVars, IInv, TypeOK
<1>4. \A s \in Uthreads, d \in Conds : Awaits(s, d)' => Awaits(s, d)
  BY <1>1, <1>2, AwaitsThroughPmut, CondsDistinct
<1>5. PICK pc \in {"unlock", "signal", "broadcast"}, m \in Mutexes \cup {NULL} :
        Enters(u, pc, c, m) /\ (pc = "unlock" => m \in Mutexes)
  BY DEF CondSignalLock, CondBroadcastLock, CondWait
<1>6. pc \in CondPcs
  BY <1>5 DEF CondPcs
<1> QED BY <1>1, <1>2, <1>3, <1>4, <1>5, <1>6, CInvByStep

\* Unlocking pmut: the calls return.
LEMMA CondReturnStep ==
  ASSUME IInv, CInv, NEW k \in Lwps, NEW u \in Uthreads,
         Runs(k, u, "client"), NEW c \in Conds,
         UnlockPmut(k, u, c), Leaves(u), UNCHANGED mtxVars
  PROVE  CInv'
<1>1. ClientShape(k, u) /\ c \in Objs /\ wants' = wants
  BY ClientShapes, CondsDistinct DEF IInv, mtxVars
<1>2. \A s \in Uthreads, d \in Conds : Awaits(s, d)' => Awaits(s, d)
  BY <1>1, AwaitsThroughPmut, CondsDistinct
<1>3. "program" \in CondPcs /\ Enters(u, "program", NULL, NULL)
  BY DEF CondPcs, Leaves
<1> QED BY <1>1, <1>2, <1>3, CInvByStep

\* Taking a waiter off the queue, with pmut kept.
LEMMA CondTakeStep ==
  ASSUME IInv, CInv, NEW k \in Lwps, NEW u \in Uthreads, wants[u] = NULL,
         NEW c \in Conds, c = cond[u], TakeWaiter(k, u, c, TRUE),
         NEW pc \in {"signalled", "broadcast"}, MovesTo(u, pc),
         UNCHANGED mtxVars
  PROVE  CInv'
<1>1. ClientShape(k, u) /\ c \in Objs /\ c \in SyncObjs /\ wants' = wants
  BY ClientShapes, CondsDistinct DEF IInv, mtxVars
<1>2. Runs(k, u, "client") /\ call'[u] = "wake" /\ pmut'[c] = k
  BY <1>1 DEF TakeWaiter, IInv, TypeOK
<1>3. \A s \in Uthreads, d \in Conds : Awaits(s, d)' => Awaits(s, d)
  BY <1>1, AwaitsAfterTakeWaiter, CondsDistinct
<1>4. pc \in CondPcs /\ Enters(u, pc, c, mtx[u]) /\ mtx[u] \in Mutexes \cup {NULL}
  BY DEF CondPcs, MovesTo, CInv
<1> QED BY <1>1, <1>2, <1>3, <1>4, CInvByStep

\* uthread_mtx_unlock in uthread_cond_wait leaves pmut locked.
LEMMA CondUnlockStep ==
  ASSUME IInv, CInv, NEW k \in Lwps, NEW u \in Uthreads, CondUnlock(k, u)
  PROVE  CInv'
<1> DEFINE c == cond[u]
           m == mtx[u]
<1>1. /\ Runs(k, u, "client") /\ wants[u] = NULL /\ cpc[u] = "unlock"
      /\ UthreadMtxUnlock(k, u, m) /\ Enters(u, "sleep", c, m)
  BY DEF CondUnlock, CondHere, InProgram, MovesTo
<1>2. /\ c \in Conds /\ m \in Mutexes /\ pmut[c] = k
      /\ c \in Objs /\ m \in Objs /\ c # m
  <2>1. UCond(u)
    BY DEF CInv
  <2>2. PICK l \in Lwps : Holds(l, u, c)
    BY <1>1, <2>1 DEF UCond
  <2>3. c \in Conds /\ m \in Mutexes /\ pmut[c] = k
    <3>1. l = k
      BY <1>1, <2>2, CondsDistinct
         DEF Holds, OnStack, Runs, IInv, PlaceInv, LwpInv
    <3> QED BY <1>1, <2>1, <2>2, <3>1 DEF UCond, Holds
  <2> HIDE DEF c, m
  <2> QED BY <2>3, CondsDistinct, MutexesDistinct DEF Objs
<1> HIDE DEF c, m
<1>3. MtxStep(k, u)
  BY <1>1, <1>2 DEF MtxStep
<1>4. ClientShape(k, u) /\ wants' = wants
  BY <1>1, <1>3, ClientShapes DEF IInv, UthreadMtxUnlock
<1>5. call'[u] \in {"client", "wake"} /\ pmut'[c] = k
  <2>1. CASE UNCHANGED schedVars
    BY <1>1, <1>2, <2>1 DEF schedVars, threadVars, objVars, Runs
  <2>2. CASE TakeWaiter(k, u, m, FALSE)
    BY <1>2, <2>2 DEF TakeWaiter, IInv, TypeOK
  <2> QED BY <1>1, <2>1, <2>2 DEF UthreadMtxUnlock, MtxRelease
<1>6. \A s \in Uthreads, d \in Conds : Awaits(s, d)' => Awaits(s, d)
  BY <1>3, CondAwaitsThroughMtx
<1>7. "sleep" \in CondPcs
  BY DEF CondPcs
<1> QED BY <1>1, <1>2, <1>4, <1>5, <1>6, <1>7, CInvByStep

\* The switch of uthread_cond_wait.
LEMMA CondSleepStep ==
  ASSUME IInv, CInv, NEW k \in Lwps, NEW u \in Uthreads, CondSleep(k, u)
  PROVE  CInv'
<1> DEFINE c == cond[u]
           m == mtx[u]
<1>1. /\ Runs(k, u, "client") /\ wants[u] = NULL /\ cpc[u] = "sleep"
      /\ WaitOn(k, u, c) /\ Enters(u, "relock", c, m) /\ UNCHANGED mtxVars
  BY DEF CondSleep, CondHere, InProgram, MovesTo
<1>2. c \in Conds /\ m \in Mutexes /\ c \in SyncObjs
  BY <1>1, CondsDistinct DEF CInv, UCond
<1> HIDE DEF c, m
<1>3. ClientShape(k, u) /\ wants' = wants
  BY <1>1, <1>2, ClientShapes DEF IInv, mtxVars
<1>4. \A s \in Uthreads, d \in Conds :
        Awaits(s, d)' => Awaits(s, d) \/ (s = u /\ c = d)
  BY <1>1, <1>2, AwaitsAfterWaitOn, CondsDistinct
<1>5. "relock" \in CondPcs
  BY DEF CondPcs
<1> QED BY <1>1, <1>2, <1>3, <1>4, <1>5, CInvByStep

\* A mutex call of the program, or the last one of uthread_cond_wait.
LEMMA CondMtxStep ==
  ASSUME IInv, MInv, CInv, NEW k \in Lwps, NEW u \in Uthreads, MtxStep(k, u),
         \/ cpc[u] = "program" /\ UNCHANGED condVars
         \/ cpc[u] = "relock" /\ Leaves(u)
  PROVE  CInv'
<1>1. /\ Runs(k, u, "client") /\ ClientShape(k, u)
      /\ \A t \in Uthreads \ {u} : wants'[t] = wants[t]
  <2>1. Runs(k, u, "client")
    BY DEF MtxStep, UthreadMtxLock, UthreadMtxTrylock, UthreadMtxUnlock,
           UthreadMtxLockReturn, InProgram
  <2>2. \A t \in Uthreads \ {u} : wants'[t] = wants[t]
    BY DEF MtxStep, UthreadMtxLock, UthreadMtxTrylock, UthreadMtxUnlock,
           UthreadMtxLockReturn, MtxTake, MtxBlock, MInv, MtxTypeOK
  <2> QED BY <2>1, <2>2, ClientShapes DEF IInv
<1>2. \A s \in Uthreads, d \in Conds : Awaits(s, d)' => Awaits(s, d)
  BY CondAwaitsThroughMtx
<1>3. "program" \in CondPcs
  BY DEF CondPcs
<1>4. CASE cpc[u] = "relock" /\ Leaves(u)
  BY <1>1, <1>2, <1>3, <1>4, CInvByStep DEF Leaves
<1>5. CASE cpc[u] = "program" /\ UNCHANGED condVars
  <2>1. Enters(u, "program", cond[u], mtx[u])
    BY <1>5 DEF Enters, condVars, CInv
  <2>2. cond[u] \in Conds \cup {NULL} /\ mtx[u] \in Mutexes \cup {NULL}
    BY DEF CInv
  <2> QED BY <1>1, <1>2, <1>3, <2>1, <2>2, CInvByStep
<1> QED BY <1>4, <1>5

\* A yield, or the creation of a uthread, where the clock interrupt is not
\* masked.
LEMMA CondClientStep ==
  ASSUME IInv, CInv, NEW k \in Lwps, NEW u \in Uthreads,
         Yield(k, u) \/ \E slot \in Uthreads : Allocate(k, u, slot),
         cpc[u] \in {"program", "relock"},
         UNCHANGED <<mtxVars, condVars>>
  PROVE  CInv'
<1>1. /\ Runs(k, u, "client") /\ ClientShape(k, u) /\ wants' = wants
  BY ClientShapes DEF IInv, mtxVars, Yield, Allocate
<1>2. \A s \in Uthreads, d \in Conds : Awaits(s, d)' => Awaits(s, d)
  BY AwaitsThroughUthread, CondsDistinct DEF UthreadStep
<1>3. /\ Enters(u, cpc[u], cond[u], mtx[u])
      /\ cpc[u] \in CondPcs /\ cond[u] \in Conds \cup {NULL}
      /\ mtx[u] \in Mutexes \cup {NULL}
  BY DEF Enters, condVars, CInv
<1>4. /\ cpc[u] # "program" => cond[u] \in Conds /\ wants'[u] = NULL
      /\ cpc[u] \in {"unlock", "sleep", "relock"} => mtx[u] \in Mutexes
  BY <1>1 DEF CInv, UCond
<1> QED BY <1>1, <1>2, <1>3, <1>4, CInvByStep

\* No step breaks the invariant.
LEMMA NextCInv == IInv /\ MInv /\ CInv /\ [CondNext]_allCondVars => CInv'
<1> SUFFICES ASSUME IInv, MInv, CInv, [CondNext]_allCondVars PROVE CInv'
  OBVIOUS
<1>1. CASE UNCHANGED allCondVars \/ (Aborted /\ UNCHANGED <<mtxVars, condVars>>)
  <2>1. /\ UNCHANGED <<lpc, ut_curthr, call, args, pmut, waiters, curlwp>>
        /\ UNCHANGED <<cpc, cond, mtx, wants>>
    BY <1>1 DEF allCondVars, allMtxVars, Aborted, schedVars, threadVars, objVars,
                lwpVars, mtxVars, condVars
  <2> QED BY <2>1 DEF CInv, UCond, AwaitsInWait, Awaits, ToBeQueued, Holds, OnStack
<1>2. CASE KernelStep /\ UNCHANGED <<mtxVars, condVars>>
  <2>1. \A s \in Uthreads, c \in Conds : Awaits(s, c)' <=> Awaits(s, c)
    BY <1>2, AwaitsThroughLwp, AwaitsThroughUthread, CondsDistinct
       DEF KernelStep, UthreadStep
  <2>2. \A t \in Uthreads : UCond(t)'
    BY <1>2, UCondThroughKernel
  <2> QED BY <1>2, <2>1, <2>2 DEF CInv, AwaitsInWait, condVars
<1>3. ASSUME NEW k \in Lwps, NEW u \in Uthreads, CondStep(k, u)
      PROVE  CInv'
  <2>1. cpc[u] # "program" => cond[u] \in Conds
    BY DEF CInv, UCond
  <2>2. cpc[u] = "relock" => mtx[u] \in Mutexes
    BY DEF CInv, UCond
  <2>3. CASE CondRelock(k, u)
    <3>1. MtxStep(k, u)
      BY <2>2, <2>3 DEF CondRelock, CondHere, MtxStep
    <3> QED BY <2>3, <3>1, CondMtxStep DEF CondRelock, CondHere
  <2>4. CASE CondSignal(k, u) \/ CondSignalUnlock(k, u) \/ CondBroadcast(k, u)
    <3> DEFINE c == cond[u]
    <3>1. /\ c \in Conds /\ Runs(k, u, "client") /\ wants[u] = NULL
          /\ UNCHANGED mtxVars
      BY <2>1, <2>4 DEF CondSignal, CondSignalUnlock, CondBroadcast, CondHere,
                        InProgram
    <3>2. \/ UnlockPmut(k, u, c) /\ Leaves(u)
          \/ /\ TakeWaiter(k, u, c, TRUE)
             /\ MovesTo(u, "signalled") \/ MovesTo(u, "broadcast")
      BY <2>4 DEF CondSignal, CondSignalUnlock, CondBroadcast, CondHere, CInv,
                  MovesTo, Enters, condVars
    <3> QED BY <3>1, <3>2, CondReturnStep, CondTakeStep
  <2> QED BY <1>3, <2>3, <2>4, CondLockStep, CondUnlockStep, CondSleepStep
          DEF CondStep, CondGoesOn
<1>4. ASSUME NEW k \in Lwps, NEW u \in Uthreads,
             \/ CondYield(k, u)
             \/ cpc[u] = "program" /\ MtxStep(k, u) /\ UNCHANGED condVars
             \/ \E slot \in Uthreads :
                  CondHere(k, u, "program") /\ Allocate(k, u, slot)
                    /\ UNCHANGED <<mtxVars, condVars>>
      PROVE  CInv'
  BY <1>4, CondClientStep, CondMtxStep DEF CondYield, CondHere
<1> QED BY <1>1, <1>2, <1>3, <1>4 DEF CondNext

\* Every step is one of the scheduler's, and neither exits nor destroys.
LEMMA CondNextIsOrdinary ==
  CInv /\ [CondNext]_allCondVars => [OrdinaryNext]_schedVars
<1> SUFFICES ASSUME CInv, [CondNext]_allCondVars PROVE [OrdinaryNext]_schedVars
  OBVIOUS
<1>1. CASE UNCHANGED allCondVars
  BY <1>1 DEF allCondVars, allMtxVars
<1>2. CASE Aborted
  BY <1>2 DEF OrdinaryNext
<1>3. CASE ~panic /\ KernelStep
  BY <1>3, KernelIsOrdinary
<1>4. ASSUME ~panic, NEW l \in Lwps, NEW t \in Uthreads, CondStep(l, t)
      PROVE  OrdinaryNext \/ UNCHANGED schedVars
  <2>1. /\ \A s \in Uthreads : cond[s] \in Conds \cup {NULL}
                               /\ mtx[s] \in Mutexes \cup {NULL}
        /\ cpc[t] # "program" => cond[t] \in Conds
        /\ cpc[t] \in {"unlock", "relock"} => mtx[t] \in Mutexes
    BY DEF CInv, UCond
  <2> QED BY <1>4, <2>1, CondStepIsOrdinary
<1>5. ASSUME ~panic, NEW l \in Lwps, NEW t \in Uthreads,
             \/ Yield(l, t) \/ MtxStep(l, t)
             \/ \E slot \in Uthreads : Allocate(l, t, slot)
      PROVE  OrdinaryNext \/ UNCHANGED schedVars
  BY <1>5, MtxStepIsOrdinary DEF OrdinaryNext, OrdinaryStep, UthreadStep
<1> QED BY <1>1, <1>2, <1>3, <1>4, <1>5 DEF CondNext, CondYield

\* What waits on a mutex is not touched by the steps on a condition variable.
LEMMA NextCondMInv == IInv /\ MInv /\ CInv /\ [CondNext]_allCondVars => MInv'
<1> SUFFICES ASSUME IInv, MInv, CInv, [CondNext]_allCondVars PROVE MInv'
  OBVIOUS
<1>1. CASE [MtxNext]_allMtxVars
  BY <1>1, NextMInv
<1>2. ASSUME NEW k \in Lwps, NEW u \in Uthreads, NEW c \in Conds,
             UNCHANGED mtxVars,
             \/ LockPmut(k, u, c) \/ UnlockPmut(k, u, c)
             \/ WaitOn(k, u, c) \/ TakeWaiter(k, u, c, TRUE)
      PROVE  MInv'
  <2>1. ASSUME NEW m \in Mutexes, NEW s \in Uthreads
        PROVE  Awaits(s, m)' <=> Awaits(s, m)
    <3>0. c # m /\ m \in SyncObjs /\ m \in Objs /\ c \in SyncObjs /\ c \in Objs
      BY CondsDistinct, MutexesDistinct DEF Objs
    <3>1. CASE LockPmut(k, u, c) \/ UnlockPmut(k, u, c)
      BY <3>0, <3>1, AwaitsThroughPmut
    <3>2. CASE WaitOn(k, u, c)
      BY <3>0, <3>2, AwaitsAfterWaitOn
    <3>3. CASE TakeWaiter(k, u, c, TRUE)
      BY <3>0, <3>3, AwaitsAfterTakeWaiter
    <3> QED BY <1>2, <3>1, <3>2, <3>3
  <2> QED BY <1>2, <2>1, OwnerKept
<1>3. ASSUME ~panic, NEW k \in Lwps, NEW u \in Uthreads, CondStep(k, u)
      PROVE  MInv'
  <2>1. /\ cpc[u] # "program" => cond[u] \in Conds
        /\ cpc[u] \in {"unlock", "relock"} => mtx[u] \in Mutexes
    BY DEF CInv, UCond
  <2>2. CASE CondUnlock(k, u) \/ CondRelock(k, u)
    <3>1. MtxStep(k, u)
      BY <2>1, <2>2 DEF CondUnlock, CondRelock, CondHere, MtxStep
    <3> QED BY <1>1, <1>3, <3>1 DEF MtxNext
  <2>3. CASE \E c \in Conds : \/ CondSignalLock(k, u, c)
                              \/ CondBroadcastLock(k, u, c)
                              \/ \E m \in Mutexes : CondWait(k, u, c, m)
    BY <1>2, <2>3 DEF CondSignalLock, CondBroadcastLock, CondWait
  <2>4. CASE CondSleep(k, u) \/ CondSignal(k, u) \/ CondSignalUnlock(k, u)
               \/ CondBroadcast(k, u)
    BY <1>2, <2>1, <2>4
       DEF CondSleep, CondSignal, CondSignalUnlock, CondBroadcast, CondHere
  <2> QED BY <1>3, <2>2, <2>3, <2>4 DEF CondStep, CondGoesOn
<1>4. CASE UNCHANGED allCondVars
  BY <1>1, <1>4 DEF allCondVars
<1>5. CASE CondNext /\ ~(\E k \in Lwps, u \in Uthreads : CondStep(k, u))
  <2>1. MtxNext
    BY <1>5 DEF CondNext, MtxNext, CondYield, CondHere, InProgram, ProgramStep
  <2> QED BY <1>1, <2>1
<1>6. CASE panic /\ CondNext
  <2>1. MtxNext
    BY <1>6 DEF CondNext, MtxNext
  <2> QED BY <1>1, <2>1
<1> QED BY <1>3, <1>4, <1>5, <1>6

\* Where every uthread is in uthread_cond.c, and what it then holds, together
\* with the invariants of the scheduler and of the mutexes.
LEMMA CondInvariance == CondSpec => [](IInv /\ MInv /\ CInv)
<1>1. CondInit => IInv /\ MInv /\ CInv
  BY InitCInv, InitMInv, InitIInv DEF CondInit, MtxInit
<1>2. IInv /\ MInv /\ CInv /\ [CondNext]_allCondVars => IInv' /\ MInv' /\ CInv'
  BY CondNextIsOrdinary, OrdinaryIInv, NextCInv, NextCondMInv
<1> QED BY <1>1, <1>2, PTL DEF CondSpec

\* From the locking of pmut on a uthread stays on the LWP that locked it, so
\* that the LWP that unlocks pmut is the one that has locked it.
THEOREM CondTypeCorrect == CondSpec => []CondTypeOK
<1>1. CInv => CondTypeOK
  BY DEF CInv, UCond, CondTypeOK, Holds
<1> QED BY <1>1, CondInvariance, PTL

\* "one atomic step": who has given up its mutex to wait is found on the queue
\* by whoever looks at it.
THEOREM SignalsSeeWaiters == CondSpec => []SignalSeesWaiters
<1>1. IInv /\ CInv => SignalSeesWaiters
  <2> SUFFICES ASSUME IInv, CInv, NEW t \in Uthreads, NEW u \in Uthreads,
                      NEW c \in Conds, cpc[u] \in {"signal", "broadcast"},
                      cond[u] = c, Asleep(t, c), ~Occurs(waiters[c], t)
               PROVE  FALSE
    BY DEF SignalSeesWaiters
  <2>1. PICK l \in Lwps : Holds(l, u, c)
    BY DEF CInv, UCond
  <2>2. CASE cpc[t] = "sleep"
    <3>1. PICK k \in Lwps : Holds(k, t, c)
      BY <2>2 DEF CInv, UCond, Asleep
    <3> QED BY <2>1, <2>2, <3>1, OneHolder
  <2>3. CASE ToBeQueued(t, c)
    <3>1. PICK k \in Lwps : ut_curthr[k] = t /\ pmut[c] = k
      BY <2>3, RequestHoldsPmut, CondsDistinct
    <3>2. t = u
      BY <2>1, <3>1 DEF Holds, OnStack
    <3>3. cpc[t] = "relock"
      BY <2>3 DEF CInv, AwaitsInWait, Awaits
    <3> QED BY <3>2, <3>3
  <2> QED BY <2>2, <2>3 DEF Asleep, Awaits
<1> QED BY <1>1, CondInvariance, PTL

-----------------------------------------------------------------------------
(* The refinement of CondVar.                                              *)

\* A uthread in the middle of a call on c is alone with c: nobody else is on
\* the way to its queue, signals or broadcasts.
LEMMA AloneInCall ==
  ASSUME IInv, CInv, NEW u \in Uthreads, NEW c \in Conds,
         cpc[u] \notin {"program", "relock"}, cond[u] = c
  PROVE  /\ \A t \in Uthreads : ~ToBeQueued(t, c)
         /\ \A t \in Uthreads \ {u} :
              cond[t] = c => cpc[t] \in {"program", "relock"}
<1>1. PICK l \in Lwps : Holds(l, u, c)
  BY DEF CInv, UCond
<1>2. ASSUME NEW t \in Uthreads, ToBeQueued(t, c) PROVE FALSE
  <2>1. PICK k \in Lwps : ut_curthr[k] = t /\ pmut[c] = k
    BY <1>2, RequestHoldsPmut, CondsDistinct
  <2>2. t = u
    BY <1>1, <2>1 DEF Holds, OnStack
  <2>3. cpc[t] = "relock"
    BY <1>2 DEF CInv, AwaitsInWait, Awaits
  <2> QED BY <2>2, <2>3
<1>3. ASSUME NEW t \in Uthreads \ {u}, cond[t] = c, cpc[t] \notin {"program", "relock"}
      PROVE  FALSE
  <2>1. PICK k \in Lwps : Holds(k, t, c)
    BY <1>3 DEF CInv, UCond
  <2> QED BY <1>1, <2>1, OneHolder
<1> QED BY <1>2, <1>3

\* A queue followed by the one uthread, if any, on the way to it.
Followed(q, onTheWay) ==
  q \o (IF onTheWay = {} THEN <<>> ELSE <<CHOOSE t \in onTheWay : TRUE>>)

\* With nobody on the way it is the queue, else one longer.
LEMMA FollowedCases ==
  ASSUME NEW q \in Seq(Uthreads)
  PROVE  /\ Followed(q, {}) = q
         /\ \A t \in Uthreads : Followed(q, {t}) = Append(q, t)
<1>1. q \o <<>> = q
  OBVIOUS
<1>2. ASSUME NEW t \in Uthreads PROVE q \o <<t>> = Append(q, t)
  OBVIOUS
<1>3. ASSUME NEW t \in Uthreads PROVE (CHOOSE s \in {t} : TRUE) = t /\ {t} # {}
  OBVIOUS
<1> QED BY <1>1, <1>2, <1>3 DEF Followed

\* Nobody who runs code of its own is asleep.
LEMMA SleepersSleep ==
  ASSUME IInv, CInv, NEW k \in Lwps, NEW u \in Uthreads, Runs(k, u, "client"),
         cpc[u] # "sleep", NEW c \in Conds
  PROVE  ~Occurs(SleepQueue(c), u)
<1>1. ~Occurs(waiters[c], u) /\ ~ToBeQueued(u, c)
  BY ClientAwaitsNothing, CondsDistinct DEF Awaits
<1>2. waiters[c] \in Seq(Uthreads)
  BY CondsDistinct DEF IInv, TypeOK
<1>3. ASSUME NEW t \in Uthreads, t # u PROVE ~Occurs(Append(waiters[c], t), u)
  BY <1>1, <1>2, <1>3, EnqueueQueue DEF utqueue_enqueue
<1>4. CASE Broadcasts(c)
  <2>1. ~Occurs(<<>>, u)
    BY DEF Occurs
  <2> QED BY <1>4, <2>1 DEF SleepQueue
<1>5. CASE ~Broadcasts(c) /\ OnTheWay(c) = {}
  <2>1. SleepQueue(c) = waiters[c]
    BY <1>2, <1>5, FollowedCases DEF SleepQueue, Followed
  <2> QED BY <1>1, <2>1
<1>6. CASE ~Broadcasts(c) /\ OnTheWay(c) # {}
  <2>1. PICK t : t = CHOOSE s \in OnTheWay(c) : TRUE
    OBVIOUS
  <2>2. t \in OnTheWay(c)
    BY <1>6, <2>1
  <2>3. t \in Uthreads /\ t # u
    BY <1>1, <2>2 DEF OnTheWay
  <2>4. SleepQueue(c) = Append(waiters[c], t)
    <3>1. SleepQueue(c) = waiters[c] \o <<t>>
      BY <1>6, <2>1 DEF SleepQueue
    <3> QED BY <1>2, <2>3, <3>1
  <2> QED BY <1>3, <2>3, <2>4
<1> QED BY <1>4, <1>5, <1>6

\* What a step that leaves the queue and those on the way to it alone does.
LEMMA SleepQueueFrame ==
  ASSUME NEW c \in Conds, waiters'[c] = waiters[c],
         OnTheWay(c)' = OnTheWay(c), Broadcasts(c)' <=> Broadcasts(c)
  PROVE  SleepQueue(c)' = SleepQueue(c)
BY DEF SleepQueue

\* The scheduler's steps do not show.
LEMMA SleepQueueThroughSched ==
  ASSUME IInv, IInv', CInv, CInv', UNCHANGED condVars,
         KernelStep \/ (\E l \in Lwps, t \in Uthreads : ProgramStep(l, t)),
         NEW c \in Conds
  PROVE  SleepQueue(c)' = SleepQueue(c)
<1>0. c \in SyncObjs /\ c # NULL /\ UNCHANGED <<cpc, cond>>
  BY CondsDistinct DEF condVars
<1>1. Broadcasts(c)' <=> Broadcasts(c)
  BY <1>0 DEF Broadcasts
<1>2. CASE \E u \in Uthreads : cpc[u] = "sleep" /\ cond[u] = c
  <2>1. \A s \in Uthreads : ~ToBeQueued(s, c)
    BY <1>2, AloneInCall
  <2>2. ASSUME NEW s \in Uthreads
        PROVE  /\ waiters'[c] = waiters[c]
               /\ ToBeQueued(s, c)' <=> ToBeQueued(s, c)
    <3>1. ASSUME NEW l \in Lwps, LwpSwitch(l), curlwp[l].queue = c
          PROVE  FALSE
      <4>1. ut_curthr[l] \in Uthreads
        BY <1>0, <3>1 DEF LwpSwitch, IInv, PlaceInv, TypeOK, LwpInv, NoArgs
      <4> QED BY <2>1, <3>1, <4>1 DEF ToBeQueued
    <3>2. ASSUME NEW l \in Lwps, LwpStep(l) \/ SpuriousWakeup(l)
          PROVE  /\ waiters'[c] = waiters[c]
                 /\ ToBeQueued(s, c)' <=> ToBeQueued(s, c)
      BY <1>0, <3>1, <3>2, AwaitsThroughLwp
    <3>3. ASSUME NEW l \in Lwps, NEW t \in Uthreads,
                 UthreadStep(l, t) \/ \E slot \in Uthreads : Allocate(l, t, slot)
          PROVE  /\ waiters'[c] = waiters[c]
                 /\ ToBeQueued(s, c)' <=> ToBeQueued(s, c)
      BY <1>0, <3>3, AwaitsThroughUthread
    <3> QED BY <3>2, <3>3 DEF KernelStep, ProgramStep, UthreadStep
  <2>3. OnTheWay(c)' = OnTheWay(c)
    BY <1>0, <2>2 DEF OnTheWay
  <2> QED BY <1>1, <1>2, <2>2, <2>3, SleepQueueFrame
<1>3. CASE ~\E u \in Uthreads : cpc[u] = "sleep" /\ cond[u] = c
  <2>1. OnTheWay(c) = AboutToWait(c)
    BY <1>3 DEF OnTheWay, AboutToWait, CInv, AwaitsInWait, Awaits
  <2>2. OnTheWay(c)' = AboutToWait(c)'
    BY <1>0, <1>3 DEF OnTheWay, AboutToWait, CInv, AwaitsInWait, Awaits
  <2>3. SeenQueue(c)' = SeenQueue(c)
    BY <1>0, SeenQueueKept
  <2> QED BY <1>1, <2>1, <2>2, <2>3 DEF SleepQueue, SeenQueue
<1> QED BY <1>2, <1>3

\* A step of u in its own code moves only u to or from the way to a queue.
LEMMA OnTheWayByStep ==
  ASSUME IInv, CInv, NEW k \in Lwps, NEW u \in Uthreads, Runs(k, u, "client"),
         NEW pc \in CondPcs, NEW c, NEW m, Enters(u, pc, c, m), NEW d \in Conds,
         \A s \in Uthreads : ToBeQueued(s, d)' <=> ToBeQueued(s, d)
  PROVE  /\ pc # "sleep" /\ cpc[u] # "sleep" => OnTheWay(d)' = OnTheWay(d)
         /\ pc = "sleep" /\ cpc[u] # "sleep" /\ c = d =>
              OnTheWay(d)' = OnTheWay(d) \cup {u}
         /\ c # d /\ cond[u] # d => OnTheWay(d)' = OnTheWay(d)
<1>1. ~ToBeQueued(u, d)
  BY ClientAwaitsNothing, CondsDistinct DEF Awaits
<1>2. /\ cpc'[u] = pc /\ cond'[u] = c
      /\ \A s \in Uthreads \ {u} : cpc'[s] = cpc[s] /\ cond'[s] = cond[s]
  BY DEF Enters, CInv
<1> QED BY <1>1, <1>2 DEF OnTheWay

\* What a step of u changes for the others, and who broadcasts then.
LEMMA SignalsByStep ==
  ASSUME CInv, NEW u \in Uthreads, NEW pc \in CondPcs, NEW c, NEW m,
         Enters(u, pc, c, m)
  PROVE  /\ \A s \in Uthreads \ {u} : Signals(s)' = Signals(s)
         /\ Signals(u)' = IF pc = "signal" THEN c ELSE NULL
         /\ \A d \in Conds :
              Broadcasts(d)' <=>
                \/ pc = "broadcast" /\ c = d
                \/ \E s \in Uthreads \ {u} : cpc[s] = "broadcast" /\ cond[s] = d
<1>1. /\ cpc'[u] = pc /\ cond'[u] = c
      /\ \A s \in Uthreads \ {u} : cpc'[s] = cpc[s] /\ cond'[s] = cond[s]
  BY DEF Enters, CInv
<1> QED BY <1>1 DEF Signals, Broadcasts

\* Steps that take nobody off a queue and put nobody on the way to one.
LEMMA QueuesKeptByStep ==
  ASSUME IInv, CInv, NEW k \in Lwps, NEW u \in Uthreads, Runs(k, u, "client"),
         NEW pc \in CondPcs, NEW c, NEW m, Enters(u, pc, c, m), NEW d \in Conds,
         \A s \in Uthreads : ToBeQueued(s, d)' <=> ToBeQueued(s, d),
         waiters'[d] = waiters[d],
         \/ pc \notin {"sleep", "broadcast"} /\ cpc[u] \notin {"sleep", "broadcast"}
         \/ c # d /\ cond[u] # d
         \/ pc = "broadcast" /\ cpc[u] = "program" /\ c # d
         \/ pc = "broadcast" /\ cpc[u] = "broadcast" /\ c = cond[u]
  PROVE  SleepQueue(d)' = SleepQueue(d)
<1>1. OnTheWay(d)' = OnTheWay(d)
  BY OnTheWayByStep
<1>2. Broadcasts(d)' <=> Broadcasts(d)
  BY SignalsByStep DEF Broadcasts
<1> QED BY <1>1, <1>2, SleepQueueFrame

\* The steps of CondVar, told by what they do to each mutex, queue and signal.
QueuesKept == \A c \in Conds : SleepQueue(c)' = SleepQueue(c)
SignalsKept == \A t \in Uthreads : Signals(t)' = Signals(t)

\* Locking and unlocking a mutex.
LEMMA LockSteps ==
  ASSUME NEW t \in Uthreads, NEW m \in Mutexes, QueuesKept, SignalsKept
  PROVE  /\ /\ \A c \in Conds : ~Occurs(SleepQueue(c), t)
            /\ \A u \in Uthreads : m \notin held[u]
            /\ held' = [held EXCEPT ![t] = @ \cup {m}]
            => Abstract!CondVarNext
         /\ m \in held[t] /\ held' = [held EXCEPT ![t] = @ \ {m}]
            => Abstract!CondVarNext
<1> DEFINE q == [c \in Conds |-> SleepQueue(c)]
           g == [s \in Uthreads |-> Signals(s)]
<1>1. q' = q /\ g' = g
  BY DEF QueuesKept, SignalsKept
<1>2. ASSUME \A c \in Conds : ~Occurs(SleepQueue(c), t) PROVE ~Abstract!Sleeps(t)
  BY <1>2 DEF Abstract!Sleeps, Occurs
<1>3. /\ ~Abstract!Sleeps(t) /\ (\A u \in Uthreads : m \notin held[u])
      /\ held' = [held EXCEPT ![t] = @ \cup {m}] /\ q' = q /\ g' = g
      => Abstract!CondVarNext
  BY DEF Abstract!CondVarNext, Abstract!Lock
<1>4. /\ m \in held[t] /\ held' = [held EXCEPT ![t] = @ \ {m}] /\ q' = q /\ g' = g
      => Abstract!CondVarNext
  BY DEF Abstract!CondVarNext, Abstract!Unlock
<1> HIDE DEF q, g
<1> QED BY <1>1, <1>2, <1>3, <1>4

\* Falling asleep, announcing a signal, and waking by signal and broadcast.
LEMMA WaitSteps ==
  ASSUME NEW t \in Uthreads, NEW c \in Conds,
         \A d \in Conds \ {c} : SleepQueue(d)' = SleepQueue(d),
         \A s \in Uthreads \ {t} : Signals(s)' = Signals(s)
  PROVE  /\ \A m \in Mutexes :
              /\ m \in held[t] /\ held' = [held EXCEPT ![t] = @ \ {m}]
              /\ SleepQueue(c)' = Append(SleepQueue(c), t)
              /\ Signals(t)' = Signals(t)
              => Abstract!CondVarNext
         /\ /\ held' = held /\ SleepQueue(c)' = SleepQueue(c)
            /\ Signals(t) = NULL /\ Signals(t)' = c
            => Abstract!CondVarNext
         /\ /\ held' = held /\ Signals(t) = c /\ Signals(t)' = NULL
            /\ SleepQueue(c)' = IF SleepQueue(c) = <<>> THEN SleepQueue(c)
                                                       ELSE Tail(SleepQueue(c))
            => Abstract!CondVarNext
         /\ /\ held' = held /\ SleepQueue(c)' = <<>> /\ Signals(t)' = Signals(t)
            => Abstract!CondVarNext
<1> DEFINE q == [d \in Conds |-> SleepQueue(d)]
           g == [s \in Uthreads |-> Signals(s)]
<1>1. /\ q[c] = SleepQueue(c) /\ g[t] = Signals(t)
      /\ q' = [q EXCEPT ![c] = SleepQueue(c)'] /\ g' = [g EXCEPT ![t] = Signals(t)']
  OBVIOUS
<1>2. (Signals(t)' = Signals(t) => g' = g) /\ (SleepQueue(c)' = SleepQueue(c) => q' = q)
  BY <1>1
<1>3. ASSUME NEW m \in Mutexes, m \in held[t], held' = [held EXCEPT ![t] = @ \ {m}],
             q' = [q EXCEPT ![c] = Append(@, t)], g' = g
      PROVE  Abstract!CondVarNext
  BY <1>3 DEF Abstract!CondVarNext, Abstract!Wait
<1>4. /\ g[t] = NULL /\ g' = [g EXCEPT ![t] = c] /\ held' = held /\ q' = q
      => Abstract!CondVarNext
  BY DEF Abstract!CondVarNext, Abstract!CallSignal
<1>5. /\ g[t] = c /\ g' = [g EXCEPT ![t] = NULL] /\ held' = held
      /\ q' = [q EXCEPT ![c] = IF @ = <<>> THEN @ ELSE Tail(@)]
      => Abstract!CondVarNext
  BY DEF Abstract!CondVarNext, Abstract!Signal
<1>6. /\ q' = [q EXCEPT ![c] = <<>>] /\ held' = held /\ g' = g
      => Abstract!CondVarNext
  BY DEF Abstract!CondVarNext, Abstract!Broadcast
<1> HIDE DEF q, g
<1> QED BY <1>1, <1>2, <1>3, <1>4, <1>5, <1>6

\* A mutex call of the program, or the last one of uthread_cond_wait.
LEMMA MtxStepImplements ==
  ASSUME IInv, MInv, CInv, NEW k \in Lwps, NEW u \in Uthreads, MtxStep(k, u),
         \/ cpc[u] = "program" /\ UNCHANGED condVars
         \/ cpc[u] = "relock" /\ Leaves(u)
  PROVE  Abstract!CondVarNext \/ (held' = held /\ QueuesKept /\ SignalsKept)
<1>1. PICK c, m : Enters(u, "program", c, m)
  BY DEF Leaves, Enters, condVars, CInv
<1>2. Runs(k, u, "client") /\ "program" \in CondPcs
  BY DEF MtxStep, UthreadMtxLock, UthreadMtxTrylock, UthreadMtxUnlock,
         UthreadMtxLockReturn, InProgram, CondPcs
<1>3. QueuesKept
  BY <1>1, <1>2, CondAwaitsThroughMtx, QueuesKeptByStep DEF QueuesKept
<1>4. SignalsKept
  <2>1. Signals(u) = NULL /\ Signals(u)' = NULL
    BY <1>1, <1>2, SignalsByStep DEF Signals
  <2> QED BY <1>1, <1>2, <2>1, SignalsByStep DEF SignalsKept
<1>5. \A d \in Conds : ~Occurs(SleepQueue(d), u)
  BY <1>2, SleepersSleep
<1>6. ASSUME NEW x \in Mutexes, MtxTake(k, u, x)
      PROVE  Abstract!CondVarNext
  <2>1. \A s \in Uthreads : x \notin held[s]
    BY <1>6, MutexesDistinct DEF MtxTake, MInv, OwnerInv
  <2> QED BY <1>3, <1>4, <1>5, <1>6, <2>1, LockSteps DEF MtxTake
<1>7. ASSUME NEW x \in Mutexes, UthreadMtxUnlock(k, u, x)
      PROVE  Abstract!CondVarNext
  BY <1>3, <1>4, <1>7, LockSteps DEF UthreadMtxUnlock
<1>8. ASSUME UthreadMtxLockReturn(k, u)
      PROVE  Abstract!CondVarNext
  <2>1. PICK x \in Mutexes : x = wants[u]
    BY <1>8 DEF UthreadMtxLockReturn, MInv, MtxTypeOK
  <2>2. m_owner[x] = u
    BY <1>2, <2>1, ClientAwaitsNothing, MutexesDistinct DEF MInv, OwnerInv
  <2>3. \A s \in Uthreads : x \notin held[s]
    BY <2>1, <2>2 DEF MInv, OwnerInv
  <2> QED BY <1>3, <1>4, <1>5, <1>8, <2>1, <2>3, LockSteps DEF UthreadMtxLockReturn
<1>9. \A x \in Mutexes : MtxBlock(k, u, x) => held' = held
  BY DEF MtxBlock
<1> QED BY <1>3, <1>4, <1>6, <1>7, <1>8, <1>9
        DEF MtxStep, UthreadMtxLock, UthreadMtxTrylock

\* In a call on c, but not on the way to its queue: all who sleep are queued.
LEMMA SleepQueueAlone ==
  ASSUME IInv, CInv, NEW u \in Uthreads, NEW c \in Conds, cond[u] = c,
         cpc[u] \notin {"program", "relock", "sleep"}
  PROVE  /\ OnTheWay(c) = {}
         /\ \A s \in Uthreads \ {u} : ~(cpc[s] = "broadcast" /\ cond[s] = c)
         /\ cpc[u] = "broadcast" => SleepQueue(c) = <<>>
         /\ cpc[u] # "broadcast" => SleepQueue(c) = waiters[c]
<1>1. /\ \A t \in Uthreads : ~ToBeQueued(t, c)
      /\ \A t \in Uthreads \ {u} : cond[t] = c => cpc[t] \in {"program", "relock"}
  BY AloneInCall
<1>2. OnTheWay(c) = {}
  BY <1>1 DEF OnTheWay
<1>3. cpc[u] = "broadcast" <=> Broadcasts(c)
  BY <1>1 DEF Broadcasts
<1>4. waiters[c] \in Seq(Uthreads)
  BY CondsDistinct DEF IInv, TypeOK
<1>5. cpc[u] # "broadcast" => SleepQueue(c) = waiters[c]
  BY <1>2, <1>3, <1>4, FollowedCases DEF SleepQueue, Followed
<1> QED BY <1>1, <1>2, <1>3, <1>5 DEF SleepQueue

\* Taking the first waiter off changes this queue only.
LEMMA TakeKeeps ==
  ASSUME IInv, NEW k \in Lwps, NEW u \in Uthreads, NEW c \in Conds,
         TakeWaiter(k, u, c, TRUE)
  PROVE  /\ Runs(k, u, "client")
         /\ \A d \in Conds, s \in Uthreads : ToBeQueued(s, d)' <=> ToBeQueued(s, d)
         /\ \A d \in Conds \ {c} : waiters'[d] = waiters[d]
         /\ waiters'[c] = Tail(waiters[c]) /\ waiters[c] # <<>>
         /\ Tail(waiters[c]) \in Seq(Uthreads)
<1>1. /\ waiters' = [waiters EXCEPT ![c] = Tail(@)] /\ waiters[c] # <<>>
      /\ UNCHANGED <<ut_curthr, curlwp, args>>
      /\ call[u] = "client" /\ call'[u] = "wake"
      /\ \A t \in Uthreads \ {u} : call'[t] = call[t]
  BY DEF IInv, TypeOK, TakeWaiter, Runs, lwpVars
<1>2. waiters \in [Objs -> Seq(Uthreads)] /\ Conds \subseteq Objs
  BY CondsDistinct DEF IInv, TypeOK
<1>3. Tail(waiters[c]) \in Seq(Uthreads)
  BY <1>1, <1>2, HeadTailProperties
<1>4. \A d \in Conds, s \in Uthreads : ToBeQueued(s, d)' <=> ToBeQueued(s, d)
  BY <1>1 DEF ToBeQueued
<1>5. waiters'[c] = Tail(waiters[c]) /\ \A d \in Conds \ {c} : waiters'[d] = waiters[d]
  BY <1>1, <1>2
<1> QED BY <1>1, <1>3, <1>4, <1>5 DEF TakeWaiter

\* uthread_mtx_unlock in uthread_cond_wait: the caller falls asleep.
LEMMA CondUnlockImplements ==
  ASSUME IInv, MInv, CInv, NEW k \in Lwps, NEW u \in Uthreads, CondUnlock(k, u)
  PROVE  Abstract!CondVarNext
<1> DEFINE m == mtx[u]
<1>1. PICK c \in Conds : c = cond[u]
  BY DEF CondUnlock, CondHere, CInv, UCond
<1>2. /\ Runs(k, u, "client") /\ cpc[u] = "unlock" /\ m \in Mutexes
      /\ UthreadMtxUnlock(k, u, m) /\ Enters(u, "sleep", c, m) /\ "sleep" \in CondPcs
  BY <1>1 DEF CondUnlock, CondHere, InProgram, MovesTo, CInv, UCond, CondPcs
<1> HIDE DEF m
<1>3. \A d \in Conds : /\ \A s \in Uthreads : ToBeQueued(s, d)' <=> ToBeQueued(s, d)
                      /\ waiters'[d] = waiters[d]
  <2>1. MtxStep(k, u)
    BY <1>2 DEF MtxStep
  <2> QED BY <2>1, CondAwaitsThroughMtx, SchedAssumption DEF SchedAssumption
<1>4. \A d \in Conds \ {c} : SleepQueue(d)' = SleepQueue(d)
  BY <1>1, <1>2, <1>3, QueuesKeptByStep
<1>5. SleepQueue(c) = waiters[c] /\ OnTheWay(c) = {}
  BY <1>1, <1>2, SleepQueueAlone
<1>6. OnTheWay(c)' = {u}
  <2>1. OnTheWay(c)' = OnTheWay(c) \cup {u}
    BY <1>2, <1>3, OnTheWayByStep
  <2> QED BY <1>5, <2>1
<1>7. ~Broadcasts(c)'
  <2>1. \A s \in Uthreads \ {u} : ~(cpc[s] = "broadcast" /\ cond[s] = c)
    BY <1>1, <1>2, SleepQueueAlone
  <2> QED BY <1>2, <2>1, SignalsByStep
<1>8. SleepQueue(c)' = Append(SleepQueue(c), u)
  <2>1. waiters[c] \in Seq(Uthreads)
    BY CondsDistinct DEF IInv, TypeOK
  <2>2. SleepQueue(c)' = Followed(waiters[c], {u})
    <3>1. waiters'[c] = waiters[c]
      BY <1>3
    <3>2. SleepQueue(c)' = Followed(waiters[c]', OnTheWay(c)')
      BY <1>7 DEF SleepQueue, Followed
    <3> QED BY <1>6, <3>1, <3>2
  <2> QED BY <1>5, <2>1, <2>2, FollowedCases
<1>9. Signals(u)' = Signals(u) /\ \A s \in Uthreads \ {u} : Signals(s)' = Signals(s)
  BY <1>2, SignalsByStep DEF Signals
<1> QED BY <1>2, <1>4, <1>8, <1>9, WaitSteps DEF UthreadMtxUnlock

\* The switch of uthread_cond_wait does not show: the caller sleeps already.
LEMMA CondSleepImplements ==
  ASSUME IInv, CInv, NEW k \in Lwps, NEW u \in Uthreads, CondSleep(k, u)
  PROVE  held' = held /\ QueuesKept /\ SignalsKept
<1>1. PICK c \in Conds : c = cond[u]
  BY DEF CondSleep, CondHere, CInv, UCond
<1>2. /\ cpc[u] = "sleep" /\ WaitOn(k, u, c) /\ Enters(u, "relock", c, mtx[u])
      /\ "relock" \in CondPcs /\ held' = held
  BY <1>1 DEF CondSleep, CondHere, MovesTo, CondPcs, mtxVars
<1>3. /\ UNCHANGED <<waiters, ut_curthr, curlwp>>
      /\ call[u] = "client" /\ call'[u] = "switch" /\ args'[u].queue = c
      /\ \A s \in Uthreads \ {u} : call'[s] = call[s] /\ args'[s] = args[s]
  BY <1>2 DEF IInv, TypeOK, WaitOn, Runs, CallsSwitch, lwpVars
<1>4. \A s \in Uthreads, d \in Conds :
        ToBeQueued(s, d)' <=> ToBeQueued(s, d) \/ (s = u /\ d = c)
  BY <1>3 DEF ToBeQueued
<1>5. /\ cpc'[u] = "relock" /\ cond'[u] = c
      /\ \A s \in Uthreads \ {u} : cpc'[s] = cpc[s] /\ cond'[s] = cond[s]
  BY <1>2 DEF Enters, CInv
<1>6. ASSUME NEW d \in Conds PROVE SleepQueue(d)' = SleepQueue(d)
  <2>1. OnTheWay(d)' = OnTheWay(d)
    BY <1>1, <1>2, <1>4, <1>5 DEF OnTheWay
  <2>2. Broadcasts(d)' <=> Broadcasts(d)
    BY <1>2, <1>5 DEF Broadcasts
  <2> QED BY <1>3, <2>1, <2>2, SleepQueueFrame
<1>7. SignalsKept
  BY <1>2, <1>5 DEF SignalsKept, Signals
<1> QED BY <1>2, <1>6, <1>7 DEF QueuesKept

\* Locking pmut: a signal is announced, a broadcast wakes everybody.
LEMMA CondLockImplements ==
  ASSUME IInv, CInv, NEW k \in Lwps, NEW u \in Uthreads, NEW c \in Conds,
         \/ CondSignalLock(k, u, c) \/ CondBroadcastLock(k, u, c)
         \/ \E m \in Mutexes : CondWait(k, u, c, m)
  PROVE  Abstract!CondVarNext \/ (held' = held /\ QueuesKept /\ SignalsKept)
<1>1. /\ Runs(k, u, "client") /\ cpc[u] = "program" /\ LockPmut(k, u, c)
      /\ held' = held /\ c \in Objs
  BY CondsDistinct
     DEF CondSignalLock, CondBroadcastLock, CondWait, CondHere, InProgram, mtxVars
<1>2. PICK pc \in {"unlock", "signal", "broadcast"}, m \in Mutexes \cup {NULL} :
        Enters(u, pc, c, m)
  BY DEF CondSignalLock, CondBroadcastLock, CondWait
<1>3. pc \in CondPcs
  BY <1>2 DEF CondPcs
<1>4. \A d \in Conds : /\ \A s \in Uthreads : ToBeQueued(s, d)' <=> ToBeQueued(s, d)
                      /\ waiters'[d] = waiters[d]
  <2>1. \A d \in Conds, s \in Uthreads :
          /\ ToBeQueued(s, d)' <=> ToBeQueued(s, d)
          /\ waiters' = waiters
    BY <1>1, AwaitsThroughPmut, CondsDistinct
  <2> QED BY <2>1, SchedAssumption DEF SchedAssumption
<1>5. \A d \in Conds : pc # "broadcast" \/ d # c => SleepQueue(d)' = SleepQueue(d)
  BY <1>1, <1>2, <1>3, <1>4, QueuesKeptByStep
<1>6. /\ \A s \in Uthreads \ {u} : Signals(s)' = Signals(s)
      /\ Signals(u) = NULL /\ Signals(u)' = IF pc = "signal" THEN c ELSE NULL
  BY <1>1, <1>2, <1>3, SignalsByStep DEF Signals
<1>7. CASE pc = "unlock"
  BY <1>1, <1>5, <1>6, <1>7 DEF QueuesKept, SignalsKept
<1>8. CASE pc = "signal"
  BY <1>1, <1>5, <1>6, <1>8, WaitSteps
<1>9. CASE pc = "broadcast"
  <2>1. SleepQueue(c)' = <<>>
    BY <1>2, <1>3, <1>9, SignalsByStep DEF SleepQueue
  <2> QED BY <1>1, <1>5, <1>6, <1>9, <2>1, WaitSteps
<1> QED BY <1>2, <1>7, <1>8, <1>9

\* The wake-up of uthread_cond_signal.
LEMMA CondSignalImplements ==
  ASSUME IInv, CInv, NEW k \in Lwps, NEW u \in Uthreads, CondSignal(k, u)
  PROVE  Abstract!CondVarNext
<1>1. PICK c \in Conds : c = cond[u]
  BY DEF CondSignal, CondHere, CInv, UCond
<1>2. /\ Runs(k, u, "client") /\ cpc[u] = "signal" /\ held' = held /\ c \in Objs
      /\ Signals(u) = c /\ SleepQueue(c) = waiters[c]
      /\ OnTheWay(c) = {}
      /\ \A s \in Uthreads \ {u} : ~(cpc[s] = "broadcast" /\ cond[s] = c)
  BY <1>1, CondsDistinct, SleepQueueAlone
     DEF CondSignal, CondHere, InProgram, mtxVars, Signals
<1>3. CASE waiters[c] = <<>>
  <2>1. UnlockPmut(k, u, c) /\ Enters(u, "program", NULL, NULL) /\ "program" \in CondPcs
    BY <1>1, <1>3 DEF CondSignal, Leaves, CondPcs
  <2>2. \A d \in Conds : SleepQueue(d)' = SleepQueue(d)
    <3>1. ASSUME NEW d \in Conds
          PROVE  /\ \A s \in Uthreads : ToBeQueued(s, d)' <=> ToBeQueued(s, d)
                 /\ waiters'[d] = waiters[d]
      BY <1>2, <2>1, AwaitsThroughPmut, CondsDistinct, SchedAssumption
         DEF SchedAssumption
    <3> QED BY <1>2, <2>1, <3>1, QueuesKeptByStep
  <2>3. Signals(u)' = NULL /\ \A s \in Uthreads \ {u} : Signals(s)' = Signals(s)
    BY <2>1, SignalsByStep
  <2> QED BY <1>2, <1>3, <2>2, <2>3, WaitSteps
<1>4. CASE waiters[c] # <<>>
  <2>1. TakeWaiter(k, u, c, TRUE) /\ Enters(u, "signalled", c, mtx[u])
        /\ "signalled" \in CondPcs
    BY <1>1, <1>4 DEF CondSignal, MovesTo, CondPcs
  <2>2. \A d \in Conds, s \in Uthreads : ToBeQueued(s, d)' <=> ToBeQueued(s, d)
    BY <2>1, TakeKeeps
  <2>3. \A d \in Conds \ {c} : SleepQueue(d)' = SleepQueue(d)
    <3>1. ASSUME NEW d \in Conds \ {c} PROVE waiters'[d] = waiters[d]
      BY <2>1, TakeKeeps
    <3> QED BY <1>2, <2>1, <2>2, <3>1, QueuesKeptByStep
  <2>4. OnTheWay(c)' = {} /\ ~Broadcasts(c)'
    <3>1. OnTheWay(c)' = OnTheWay(c)
      BY <1>2, <2>1, <2>2, OnTheWayByStep
    <3>2. ~Broadcasts(c)'
      BY <1>2, <2>1, SignalsByStep
    <3> QED BY <1>2, <3>1, <3>2
  <2>5. SleepQueue(c)' = Tail(waiters[c])
    <3>1. SleepQueue(c)' = Followed(Tail(waiters[c]), {})
      BY <2>1, <2>4, TakeKeeps DEF SleepQueue, Followed
    <3> QED BY <2>1, <3>1, TakeKeeps, FollowedCases
  <2>6. Signals(u)' = NULL /\ \A s \in Uthreads \ {u} : Signals(s)' = Signals(s)
    BY <2>1, SignalsByStep
  <2> QED BY <1>2, <1>4, <2>3, <2>5, <2>6, WaitSteps
<1> QED BY <1>3, <1>4

\* The end of uthread_cond_signal, and the loop of uthread_cond_broadcast: the
\* signal has been given, and all have been woken.
LEMMA CondReturnImplements ==
  ASSUME IInv, CInv, NEW k \in Lwps, NEW u \in Uthreads,
         CondSignalUnlock(k, u) \/ CondBroadcast(k, u)
  PROVE  held' = held /\ QueuesKept /\ SignalsKept
<1>1. PICK c \in Conds : c = cond[u]
  BY DEF CondSignalUnlock, CondBroadcast, CondHere, CInv, UCond
<1>2. /\ Runs(k, u, "client") /\ cpc[u] \in {"signalled", "broadcast"}
      /\ held' = held /\ c \in Objs /\ Signals(u) = NULL /\ OnTheWay(c) = {}
      /\ cpc[u] = "broadcast" => SleepQueue(c) = <<>>
      /\ \A s \in Uthreads \ {u} : ~(cpc[s] = "broadcast" /\ cond[s] = c)
  BY <1>1, CondsDistinct, SleepQueueAlone
     DEF CondSignalUnlock, CondBroadcast, CondHere, InProgram, mtxVars, Signals
<1>3. CASE UnlockPmut(k, u, c) /\ Leaves(u) /\ (cpc[u] = "broadcast" => waiters[c] = <<>>)
  <2>1. Enters(u, "program", NULL, NULL) /\ "program" \in CondPcs
    BY <1>3 DEF Leaves, CondPcs
  <2>2. ASSUME NEW d \in Conds
        PROVE  /\ \A s \in Uthreads : ToBeQueued(s, d)' <=> ToBeQueued(s, d)
               /\ waiters'[d] = waiters[d]
    BY <1>2, <1>3, AwaitsThroughPmut, CondsDistinct, SchedAssumption
       DEF SchedAssumption
  <2>3. ASSUME NEW d \in Conds, cpc[u] = "signalled" \/ d # c
        PROVE  SleepQueue(d)' = SleepQueue(d)
    BY <1>1, <1>2, <2>1, <2>2, <2>3, QueuesKeptByStep, CondsDistinct
  <2>4. cpc[u] = "broadcast" => SleepQueue(c)' = SleepQueue(c)
    <3> SUFFICES ASSUME cpc[u] = "broadcast" PROVE SleepQueue(c)' = <<>>
      BY <1>2
    <3>1. OnTheWay(c)' = {} /\ ~Broadcasts(c)'
      BY <1>2, <2>1, <2>2, OnTheWayByStep, SignalsByStep
    <3>2. waiters'[c] = <<>> /\ <<>> \in Seq(Uthreads)
      BY <1>3, <2>2
    <3>3. SleepQueue(c)' = Followed(<<>>, {})
      BY <3>1, <3>2 DEF SleepQueue, Followed
    <3> QED BY <3>2, <3>3, FollowedCases
  <2>5. SignalsKept
    BY <1>2, <2>1, SignalsByStep DEF SignalsKept
  <2> QED BY <1>2, <2>3, <2>4, <2>5 DEF QueuesKept
<1>4. CASE TakeWaiter(k, u, c, TRUE) /\ UNCHANGED condVars /\ cpc[u] = "broadcast"
  <2>1. Enters(u, "broadcast", c, mtx[u]) /\ "broadcast" \in CondPcs
    BY <1>1, <1>4 DEF Enters, condVars, CInv, CondPcs
  <2>2. \A d \in Conds \ {c} : SleepQueue(d)' = SleepQueue(d)
    <3>1. ASSUME NEW d \in Conds \ {c}
          PROVE  /\ \A s \in Uthreads : ToBeQueued(s, d)' <=> ToBeQueued(s, d)
                 /\ waiters'[d] = waiters[d]
      BY <1>4, TakeKeeps
    <3> QED BY <1>1, <1>2, <2>1, <3>1, QueuesKeptByStep
  <2>3. SleepQueue(c)' = SleepQueue(c)
    <3>1. Broadcasts(c)'
      BY <2>1, SignalsByStep
    <3> QED BY <1>2, <1>4, <3>1 DEF SleepQueue
  <2>4. SignalsKept
    BY <1>4 DEF SignalsKept, Signals, condVars
  <2> QED BY <1>2, <2>2, <2>3, <2>4 DEF QueuesKept
<1> QED BY <1>1, <1>2, <1>3, <1>4 DEF CondSignalUnlock, CondBroadcast, CondHere

\* Every step of the model is one of CondVar or does not show.
LEMMA NextImplements ==
  ASSUME IInv, IInv', MInv, CInv, CInv', [CondNext]_allCondVars
  PROVE  Abstract!CondVarNext \/ (held' = held /\ QueuesKept /\ SignalsKept)
<1>1. CASE UNCHANGED allCondVars \/ (Aborted /\ UNCHANGED <<mtxVars, condVars>>)
  <2>1. UNCHANGED <<waiters, call, args, ut_curthr, curlwp, held, cpc, cond>>
    BY <1>1 DEF allCondVars, allMtxVars, Aborted, schedVars, threadVars, objVars,
                lwpVars, mtxVars, condVars
  <2>2. ASSUME NEW c \in Conds PROVE SleepQueue(c)' = SleepQueue(c)
    BY <2>1 DEF SleepQueue, OnTheWay, Broadcasts, ToBeQueued
  <2> QED BY <2>1, <2>2 DEF QueuesKept, SignalsKept, Signals
<1>2. ASSUME KernelStep \/ \E l \in Lwps, t \in Uthreads : ProgramStep(l, t),
             UNCHANGED <<mtxVars, condVars>>
      PROVE  held' = held /\ QueuesKept /\ SignalsKept
  <2>1. QueuesKept
    BY <1>2, SleepQueueThroughSched DEF QueuesKept
  <2> QED BY <1>2, <2>1 DEF SignalsKept, Signals, condVars, mtxVars
<1>3. ASSUME NEW l \in Lwps, NEW t \in Uthreads, CondYield(l, t)
      PROVE  held' = held /\ QueuesKept /\ SignalsKept
  <2>1. ProgramStep(l, t)
    BY <1>3 DEF CondYield, ProgramStep
  <2> QED BY <1>2, <1>3, <2>1 DEF CondYield
<1>4. ASSUME NEW l \in Lwps, NEW t \in Uthreads, NEW slot \in Uthreads,
             CondHere(l, t, "program"), Allocate(l, t, slot),
             UNCHANGED <<mtxVars, condVars>>
      PROVE  held' = held /\ QueuesKept /\ SignalsKept
  <2>1. ProgramStep(l, t)
    BY <1>4 DEF CondHere, InProgram, ProgramStep
  <2> QED BY <1>2, <1>4, <2>1
<1>5. ASSUME NEW l \in Lwps, NEW t \in Uthreads, CondStep(l, t)
      PROVE  Abstract!CondVarNext \/ (held' = held /\ QueuesKept /\ SignalsKept)
  <2>1. CondRelock(l, t) => MtxStep(l, t) /\ cpc[t] = "relock" /\ Leaves(t)
    BY DEF CondRelock, CondHere, MtxStep, CInv, UCond
  <2> QED BY <1>5, <2>1, MtxStepImplements, CondUnlockImplements,
             CondSleepImplements, CondLockImplements, CondSignalImplements,
             CondReturnImplements
          DEF CondStep, CondGoesOn
<1>6. ASSUME NEW l \in Lwps, NEW t \in Uthreads, cpc[t] = "program",
             MtxStep(l, t), UNCHANGED condVars
      PROVE  Abstract!CondVarNext \/ (held' = held /\ QueuesKept /\ SignalsKept)
  BY <1>6, MtxStepImplements
<1> QED BY <1>1, <1>2, <1>3, <1>4, <1>5, <1>6 DEF CondNext

\* To its callers a condition variable is a queue of sleepers, which they join
\* as they give up their mutex; a signal wakes the first, a broadcast all.
THEOREM CondsImplementCondVar == CondSpec => ImplementsCondVar
<1>1. CondInit => Abstract!CondVarInit
  <2> SUFFICES ASSUME CondInit PROVE Abstract!CondVarInit
    OBVIOUS
  <2>1. ASSUME NEW c \in Conds PROVE SleepQueue(c) = <<>>
    <3>1. /\ waiters[c] = <<>> /\ \A t \in Uthreads : call[t] = "client"
          /\ \A k \in Lwps : ut_curthr[k] = NULL
          /\ \A t \in Uthreads : cpc[t] = "program"
      BY CondsDistinct DEF CondInit, MtxInit, SchedInit
    <3>2. OnTheWay(c) = {} /\ ~Broadcasts(c)
      BY <3>1, CondsDistinct DEF OnTheWay, Broadcasts, ToBeQueued
    <3>3. <<>> \in Seq(Uthreads)
      OBVIOUS
    <3> QED BY <3>1, <3>2, <3>3, FollowedCases DEF SleepQueue, Followed
  <2>2. \A t \in Uthreads : Signals(t) = NULL
    BY DEF CondInit, Signals
  <2> QED BY <2>1, <2>2 DEF CondInit, MtxInit, Abstract!CondVarInit
<1>2. IInv /\ IInv' /\ MInv /\ CInv /\ CInv' /\ [CondNext]_allCondVars =>
        [Abstract!CondVarNext]_<<held, [c \in Conds |-> SleepQueue(c)],
                                 [t \in Uthreads |-> Signals(t)]>>
  BY NextImplements DEF QueuesKept, SignalsKept
<1> QED BY <1>1, <1>2, CondInvariance, PTL
        DEF CondSpec, ImplementsCondVar, Abstract!CondVarSpec

=============================================================================
