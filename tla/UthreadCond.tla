----------------------------- MODULE UthreadCond -----------------------------
(***************************************************************************)
(* The condition variables of uthread_cond.c over the mutexes: any program *)
(* of uthreads that lock mutexes, wait, signal and broadcast.  The waiters *)
(* of condition variable c are waiters[c] and its POSIX mutex is pmut[c].  *)
(***************************************************************************)
EXTENDS UthreadMtx

CONSTANT Conds

ASSUME CondAssumption == Conds \subseteq SyncObjs \ Mutexes

VARIABLES
  cpc,    \* where a uthread is in uthread_cond.c, see CondPcs
  cond,   \* the argument cond of that call, or NULL
  mtx     \* the argument mtx of uthread_cond_wait, or NULL

condVars == <<cpc, cond, mtx>>
allCondVars == <<allMtxVars, condVars>>

\* unlock, sleep, relock: in uthread_cond_wait before the call of that kind;
\* signal, signalled: in uthread_cond_signal with pmut locked, before and
\* after the wake-up; broadcast: in the loop of uthread_cond_broadcast
CondPcs == {"program", "unlock", "sleep", "relock",
            "signal", "signalled", "broadcast"}

CondInit ==
  /\ MtxInit
  /\ cpc = [t \in Uthreads |-> "program"]
  /\ cond = [t \in Uthreads |-> NULL]
  /\ mtx = [t \in Uthreads |-> NULL]

-----------------------------------------------------------------------------

CondHere(l, t, pc) == InProgram(l, t) /\ cpc[t] = pc

Enters(t, pc, c, m) ==
  /\ cpc' = [cpc EXCEPT ![t] = pc]
  /\ cond' = [cond EXCEPT ![t] = c]
  /\ mtx' = [mtx EXCEPT ![t] = m]

MovesTo(t, pc) == Enters(t, pc, cond[t], mtx[t])
Leaves(t) == Enters(t, "program", NULL, NULL)

\* Wrong: the condition variable's POSIX mutex is not locked.
CondWait_Unprotected(l, t, c, m) ==
  /\ CondHere(l, t, "program")
  /\ m \in held[t]
  /\ Enters(t, "unlock", c, m)
  /\ UNCHANGED allMtxVars

\* uthread_cond_wait, called with mtx locked
CondWait(l, t, c, m) ==
  /\ CondHere(l, t, "program")
  /\ m \in held[t]
  /\ LockPmut(l, t, c)
  /\ Enters(t, "unlock", c, m)
  /\ UNCHANGED mtxVars

CondUnlock(l, t) ==
  /\ CondHere(l, t, "unlock")
  /\ UthreadMtxUnlock(l, t, mtx[t])
  /\ MovesTo(t, "sleep")

CondSleep(l, t) ==
  /\ CondHere(l, t, "sleep")
  /\ WaitOn(l, t, cond[t])
  /\ MovesTo(t, "relock")
  /\ UNCHANGED mtxVars

\* The call returns when the lock does.
CondRelock(l, t) ==
  /\ CondHere(l, t, "relock")
  /\ UthreadMtxLock(l, t, mtx[t])
  /\ Leaves(t)

CondSignalLock(l, t, c) ==
  /\ CondHere(l, t, "program")
  /\ LockPmut(l, t, c)
  /\ Enters(t, "signal", c, NULL)
  /\ UNCHANGED mtxVars

\* Wrong: the waiter is taken off the queue and not woken.
CondSignal_NotWoken(l, t) ==
  /\ CondHere(l, t, "signal")
  /\ waiters' = [waiters EXCEPT ![cond[t]] = IF @ = <<>> THEN @ ELSE Tail(@)]
  /\ pmut' = [pmut EXCEPT ![cond[t]] = NULL]
  /\ Leaves(t)
  /\ UNCHANGED <<threadVars, runqVars, runq_mtx, lwpVars, panic, mtxVars>>

\* The first waiter, if any, is taken off the queue and woken.
CondSignal(l, t) ==
  /\ CondHere(l, t, "signal")
  /\ IF waiters[cond[t]] = <<>>
     THEN UnlockPmut(l, t, cond[t]) /\ Leaves(t)
     ELSE TakeWaiter(l, t, cond[t], TRUE) /\ MovesTo(t, "signalled")
  /\ UNCHANGED mtxVars

CondSignalUnlock(l, t) ==
  /\ CondHere(l, t, "signalled")
  /\ UnlockPmut(l, t, cond[t])
  /\ Leaves(t)
  /\ UNCHANGED mtxVars

CondBroadcastLock(l, t, c) ==
  /\ CondHere(l, t, "program")
  /\ LockPmut(l, t, c)
  /\ Enters(t, "broadcast", c, NULL)
  /\ UNCHANGED mtxVars

\* Wrong: one waiter is woken, as by uthread_cond_signal.
CondBroadcast_WakesOne(l, t) ==
  /\ CondHere(l, t, "broadcast")
  /\ IF waiters[cond[t]] = <<>>
     THEN UnlockPmut(l, t, cond[t]) /\ Leaves(t)
     ELSE TakeWaiter(l, t, cond[t], TRUE) /\ MovesTo(t, "signalled")
  /\ UNCHANGED mtxVars

\* Wrong: pmut is unlocked for each wake-up and locked again for the next.
CondBroadcast_Reopened(l, t) ==
  /\ CondHere(l, t, "broadcast")
  /\ \/ LockPmut(l, t, cond[t]) /\ UNCHANGED condVars
     \/ /\ waiters[cond[t]] = <<>>
        /\ UnlockPmut(l, t, cond[t])
        /\ Leaves(t)
     \/ /\ pmut[cond[t]] = l
        /\ TakeWaiter(l, t, cond[t], FALSE)
        /\ UNCHANGED condVars
  /\ UNCHANGED mtxVars

\* one turn of the loop; uthread_wake comes in between
CondBroadcast(l, t) ==
  /\ CondHere(l, t, "broadcast")
  /\ IF waiters[cond[t]] = <<>>
     THEN UnlockPmut(l, t, cond[t]) /\ Leaves(t)
     ELSE TakeWaiter(l, t, cond[t], TRUE) /\ UNCHANGED condVars
  /\ UNCHANGED mtxVars

\* what t does next in a call of uthread_cond.c
CondGoesOn(l, t) ==
  \/ CondUnlock(l, t) \/ CondSleep(l, t) \/ CondRelock(l, t)
  \/ CondSignal(l, t) \/ CondSignalUnlock(l, t) \/ CondBroadcast(l, t)

CondStep(l, t) ==
  \/ \E c \in Conds : \/ CondSignalLock(l, t, c)
                      \/ CondBroadcastLock(l, t, c)
                      \/ \E m \in Mutexes : CondWait(l, t, c, m)
  \/ CondGoesOn(l, t)

\* The clock interrupt is not masked in the program, and between the two
\* halves of uthread_cond_wait until uthread_mtx_lock waits for m_pmut.
CondYield(l, t) ==
  /\ \/ cpc[t] = "program"
     \/ cpc[t] = "relock" /\ pmut[mtx[t]] = NULL
  /\ wants[t] = NULL
  /\ Yield(l, t)
  /\ UNCHANGED <<mtxVars, condVars>>

CondNext ==
  \/ Aborted /\ UNCHANGED <<mtxVars, condVars>>
  \/ /\ ~panic
     /\ \/ KernelStep /\ UNCHANGED <<mtxVars, condVars>>
        \/ \E l \in Lwps, t \in Uthreads :
             \/ CondYield(l, t)
             \/ cpc[t] = "program" /\ MtxStep(l, t) /\ UNCHANGED condVars
             \/ CondStep(l, t)
             \/ \E slot \in Uthreads :
                  CondHere(l, t, "program") /\ Allocate(l, t, slot)
                    /\ UNCHANGED <<mtxVars, condVars>>

CondSpec == CondInit /\ [][CondNext]_allCondVars

\* The LWPs run, in their own code and in the library code of the uthread that
\* they carry (POSIX threads are scheduled fairly, and so are those that wait
\* for a POSIX mutex again and again); the clock interrupt reaches every LWP
\* whose uthreads keep running; a uthread in a call of uthread_cond.c goes on
\* with it, however often the clock interrupt takes its LWP away in between;
\* every owner of a mutex unlocks it.
CondFairness ==
  /\ \A l \in Lwps :
       /\ SF_allCondVars(/\ UNCHANGED condVars
                         /\ \/ LwpStep(l) /\ UNCHANGED mtxVars
                            \/ \E t \in Uthreads : InLibrary(l, t))
       /\ SF_allCondVars(\E t \in Uthreads : CondYield(l, t))
  /\ \A t \in Uthreads : SF_allCondVars(\E l \in Lwps : CondGoesOn(l, t))
  /\ \A m \in Mutexes :
       SF_allCondVars(\E l \in Lwps, t \in Uthreads :
         cpc[t] = "program" /\ UthreadMtxUnlock(l, t, m) /\ UNCHANGED condVars)

CondFairSpec == CondSpec /\ CondFairness

-----------------------------------------------------------------------------
(* Properties.                                                             *)

\* The calls in progress and their arguments have their types, and from the
\* locking of pmut to the switch or the unlocking the uthread stays on the LWP
\* that holds it, though uthread_mtx_unlock and uthread_wake come in between.
CondTypeOK ==
  /\ cpc \in [Uthreads -> CondPcs]
  /\ cond \in [Uthreads -> Conds \cup {NULL}]
  /\ mtx \in [Uthreads -> Mutexes \cup {NULL}]
  /\ \A t \in Uthreads :
       cpc[t] \notin {"program", "relock"} =>
         \E l \in Lwps : OnStack(l, t) /\ pmut[cond[t]] = l

\* t has given up its mutex to wait on c, and has not been woken
Asleep(t, c) == cond[t] = c /\ (cpc[t] = "sleep" \/ Awaits(t, c))

\* "This guarantees that the unlock and sleep operations happen as one atomic
\* step" (uthread_cond_wait): whoever signals finds every uthread that gave up
\* its mutex to wait on the queue, not on the way to it.
SignalSeesWaiters ==
  \A t, u \in Uthreads, c \in Conds :
    cpc[u] \in {"signal", "broadcast"} /\ cond[u] = c /\ Asleep(t, c)
      => Occurs(waiters[c], t)

\* The condition variables implement CondVar.  A uthread is asleep from the
\* unlocking of its mutex on, before its LWP has queued it; a broadcast wakes
\* everybody when it has locked pmut, before it has taken them off.
OnTheWay(c) ==
  {t \in Uthreads : cond[t] = c /\ (cpc[t] = "sleep" \/ ToBeQueued(t, c))}
Broadcasts(c) == \E t \in Uthreads : cpc[t] = "broadcast" /\ cond[t] = c

SleepQueue(c) ==
  IF Broadcasts(c) THEN <<>>
  ELSE waiters[c] \o (IF OnTheWay(c) = {} THEN <<>>
                      ELSE <<CHOOSE t \in OnTheWay(c) : TRUE>>)
Signals(t) == IF cpc[t] = "signal" THEN cond[t] ELSE NULL

Abstract ==
  INSTANCE CondVar WITH
    asleep <- [c \in Conds |-> SleepQueue(c)],
    signalling <- [t \in Uthreads |-> Signals(t)]

ImplementsCondVar == Abstract!CondVarSpec

\* The loop of uthread_cond_broadcast finds its queue empty in the end, though
\* the uthreads it has woken run on the other LWPs, take the mutex and wait
\* again while it goes on: pmut, locked over all turns, keeps them out.
BroadcastEnds ==
  \A t \in Uthreads : (cpc[t] = "broadcast") ~> (cpc[t] = "program")

\* A uthread whose wait has been signalled or broadcast returns with its mutex,
\* if every owner unlocks.
WokenReturn ==
  \A t \in Uthreads :
    (cpc[t] = "relock" /\ ~Awaits(t, cond[t]))
      ~> (cpc[t] = "program" /\ wants[t] = NULL)

=============================================================================
