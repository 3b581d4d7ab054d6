---------------------------- MODULE UthreadSched ----------------------------
(***************************************************************************)
(* The two-level scheduler of uthread_sched.c: user threads (uthreads)     *)
(* multiplexed over POSIX threads (LWPs) that share one priority run queue *)
(* under runq_mtx.                                                         *)
(*                                                                         *)
(* An LWP either executes code of the uthread ut_curthr, on that uthread's *)
(* stack, or executes lwp_switch on its own stack.  A uthread leaves its   *)
(* stack only through uthread_switch, which hands three requests to the    *)
(* LWP (struct lwp, uthread.h:82-94): a queue to be put on, whether to be  *)
(* put back on the run queue, and a POSIX mutex to unlock afterwards.      *)
(*                                                                         *)
(* The library's other files call the scheduler in one pattern each, and   *)
(* this module has those patterns as the steps of a uthread that is in     *)
(* client code: lock the object's POSIX mutex, set UT_WAIT and switch;     *)
(* take a waiter off the object's queue and wake it; become a zombie and   *)
(* switch; destroy a zombie that is off its stack.  A mutex, a condition   *)
(* variable and a uthread (with its ut_pmut and ut_waiter) all are objects *)
(* that consist of one POSIX mutex and one queue of waiters.               *)
(*                                                                         *)
(* A step goes from one acquisition of a POSIX mutex to the next one.      *)
(***************************************************************************)
EXTENDS Naturals, Sequences, FiniteSets

CONSTANTS
  Uthreads,     \* the slots of the array uthreads
  Lwps,         \* the POSIX threads that run uthreads (UTH_LWPS of them)
  SyncObjs,     \* the mutexes and condition variables of the program
  UTH_MAXPRIO,  \* the highest priority
  FirstThr,     \* the uthread that runs firstFunc
  ReaperThr,    \* the reaper
  FirstLwp,     \* the LWP that called uthread_start
  NULL          \* the null pointer

Objs == SyncObjs \cup Uthreads
Prios == 0..UTH_MAXPRIO

ASSUME SchedAssumption ==
  /\ IsFiniteSet(Uthreads) /\ IsFiniteSet(Lwps)
  /\ UTH_MAXPRIO \in Nat
  /\ FirstThr \in Uthreads /\ ReaperThr \in Uthreads /\ FirstThr # ReaperThr
  /\ FirstLwp \in Lwps
  /\ SyncObjs \cap Uthreads = {}
  /\ NULL \notin Uthreads \cup Lwps \cup SyncObjs

VARIABLES
  ut_state,       \* uthread_t.ut_state
  ut_prio,        \* uthread_t.ut_prio
  call,           \* where a uthread stands in client code: see Calls
  target,         \* the uthread a pending wake or start is for, or NULL
  args,           \* the arguments of the pending uthread_switch
  pmut,           \* the LWP that holds each object's POSIX mutex, or NULL
  waiters,        \* each object's queue of waiting uthreads, head first
  runq_table,     \* the queue of every priority, head first
  runq_size,      \* the counter of uthreads on the run queue
  runq_mtx,       \* the LWP that holds runq_mtx, or NULL
  ut_curthr,      \* per LWP: the current uthread, or NULL
  curlwp,         \* per LWP: the requests of the uthread that switched
  lpc,            \* per LWP: where it is, see LwpPcs
  lwp_cnt,        \* number of LWPs that have started
  lwp_parked_cnt, \* number of LWPs inside lwp_park
  panic           \* PANIC has aborted the process

threadVars == <<ut_state, ut_prio, call, target, args>>
objVars    == <<pmut, waiters>>
runqVars   == <<runq_table, runq_size>>
lwpVars    == <<ut_curthr, curlwp, lpc, lwp_cnt, lwp_parked_cnt>>
schedVars  == <<threadVars, objVars, runqVars, runq_mtx, lwpVars, panic>>

States == {"NO_STATE", "ON_CPU", "RUNNABLE", "WAIT", "ZOMBIE", "TRANSITION"}

\* client: in client code; switch: has called uthread_switch; wake, start:
\* about to call uthread_wake, uthread_startonrunq for target
Calls == {"client", "switch", "wake", "start"}

\* start: lwp_start has not locked runq_mtx; uthread: on the stack of
\* ut_curthr; lwp_switch: handling curlwp; search: looking for a uthread;
\* parked: asleep on lwp_park_cond; woken: awake, to lock runq_mtx again
LwpPcs == {"start", "uthread", "lwp_switch", "search", "parked", "woken"}

SwitchArgs == [queue : Objs \cup {NULL}, saveonrq : BOOLEAN,
               pmut : Objs \cup {NULL}]
NoArgs == [queue |-> NULL, saveonrq |-> FALSE, pmut |-> NULL]

-----------------------------------------------------------------------------
(* Queues.  utqueue_enqueue inserts at the head of the list and            *)
(* utqueue_dequeue takes its last element: the sequence starts with the    *)
(* element that leaves first.                                              *)

Occurs(q, t) == \E i \in 1..Len(q) : q[i] = t
NoDup(q) == \A i, j \in 1..Len(q) : q[i] = q[j] => i = j

utqueue_enqueue(q, t) == Append(q, t)

\* the queue without t, wherever t is on it
utqueue_remove(q, t) ==
  LET k == CHOOSE i \in 1..Len(q) : q[i] = t
  IN  [j \in 1..(Len(q) - 1) |-> IF j < k THEN q[j] ELSE q[j + 1]]

\* pthread_cond_signal(&lwp_park_cond): wakes one sleeping LWP, if any;
\* pcs is the program counter of every LWP otherwise
LwpReleased(pcs) ==
  LET asleep == {l \in Lwps : pcs[l] = "parked"}
  IN  IF asleep = {} THEN {pcs}
      ELSE {[pcs EXCEPT ![l] = "woken"] : l \in asleep}

\* Wrong: the counter is not bumped.
RunqEnqueue_NotCounted(t, prio, pcs) ==
  /\ runq_table' = [runq_table EXCEPT ![prio] = utqueue_enqueue(@, t)]
  /\ runq_size' = runq_size
  /\ lpc' \in LwpReleased(pcs)

\* uthread_runq_enqueue at priority prio, while the LWPs are at pcs
RunqEnqueue(t, prio, pcs) ==
  /\ runq_table' = [runq_table EXCEPT ![prio] = utqueue_enqueue(@, t)]
  /\ runq_size' = runq_size + 1
  /\ lpc' \in IF runq_size + 1 = 1 THEN LwpReleased(pcs) ELSE {pcs}

-----------------------------------------------------------------------------
(* Start.  create_first_thr has put the first uthread and the reaper on    *)
(* the run queue, holds runq_mtx and is about to call lwp_switch; the      *)
(* other LWPs have been created.                                           *)

Created == {FirstThr, ReaperThr}

SchedInit ==
  /\ ut_state = [t \in Uthreads |-> IF t \in Created THEN "RUNNABLE"
                                                     ELSE "NO_STATE"]
  /\ ut_prio = [t \in Uthreads |-> IF t \in Created THEN UTH_MAXPRIO ELSE 0]
  /\ call = [t \in Uthreads |-> "client"]
  /\ target = [t \in Uthreads |-> NULL]
  /\ args = [t \in Uthreads |-> NoArgs]
  /\ pmut = [o \in Objs |-> NULL]
  /\ waiters = [o \in Objs |-> <<>>]
  /\ runq_table = [p \in Prios |-> IF p = UTH_MAXPRIO
                                   THEN <<FirstThr, ReaperThr>> ELSE <<>>]
  /\ runq_size = 2
  /\ runq_mtx = FirstLwp
  /\ ut_curthr = [l \in Lwps |-> NULL]
  /\ curlwp = [l \in Lwps |-> NoArgs]
  /\ lpc = [l \in Lwps |-> IF l = FirstLwp THEN "lwp_switch" ELSE "start"]
  /\ lwp_cnt = 1
  /\ lwp_parked_cnt = 0
  /\ panic = FALSE

-----------------------------------------------------------------------------
(* LWP code: lwp_start, lwp_switch, lwp_park.                              *)

LwpStart(l) ==
  /\ lpc[l] = "start"
  /\ runq_mtx = NULL
  /\ runq_mtx' = l
  /\ lwp_cnt' = lwp_cnt + 1
  /\ lpc' = [lpc EXCEPT ![l] = "lwp_switch"]
  /\ UNCHANGED <<threadVars, objVars, runqVars, ut_curthr, curlwp,
                 lwp_parked_cnt, panic>>

\* The requests of the uthread that switched, once off its stack.
LwpSwitch(l) ==
  LET t == ut_curthr[l]
      a == curlwp[l]
      requeue == a.saveonrq /\ t # NULL /\ ut_state[t] # "ZOMBIE"
      pcs == [lpc EXCEPT ![l] = "search"]
  IN  /\ lpc[l] = "lwp_switch"
      /\ waiters' = IF a.queue # NULL /\ t # NULL
                    THEN [waiters EXCEPT ![a.queue] = utqueue_enqueue(@, t)]
                    ELSE waiters
      /\ IF requeue
         THEN /\ ut_state' = [ut_state EXCEPT ![t] = "RUNNABLE"]
              /\ RunqEnqueue(t, ut_prio[t], pcs)
         ELSE /\ lpc' = pcs
              /\ UNCHANGED <<ut_state, runqVars>>
      /\ pmut' = IF a.pmut # NULL THEN [pmut EXCEPT ![a.pmut] = NULL]
                                  ELSE pmut
      /\ curlwp' = [curlwp EXCEPT ![l] = NoArgs]
      /\ ut_curthr' = [ut_curthr EXCEPT ![l] = NULL]
      /\ UNCHANGED <<ut_prio, call, target, args, runq_mtx, lwp_cnt,
                     lwp_parked_cnt, panic>>

\* Wrong: the scan starts at priority 0.
FirstNonEmpty_FromLowest(p) ==
  /\ runq_table[p] # <<>>
  /\ \A lower \in Prios : lower < p => runq_table[lower] = <<>>

\* The scan of runq_table from UTH_MAXPRIO down stops at priority p.
FirstNonEmpty(p) ==
  /\ runq_table[p] # <<>>
  /\ \A higher \in Prios : higher > p => runq_table[higher] = <<>>

LwpDispatch(l) ==
  /\ lpc[l] = "search"
  /\ \E p \in Prios :
       LET next_thread == Head(runq_table[p])
       IN  /\ FirstNonEmpty(p)
           /\ runq_table' = [runq_table EXCEPT ![p] = Tail(@)]
           /\ runq_size' = runq_size - 1
           /\ ut_curthr' = [ut_curthr EXCEPT ![l] = next_thread]
           /\ ut_state' = [ut_state EXCEPT ![next_thread] = "ON_CPU"]
  /\ runq_mtx' = NULL
  /\ lpc' = [lpc EXCEPT ![l] = "uthread"]
  /\ UNCHANGED <<ut_prio, call, target, args, objVars, curlwp, lwp_cnt,
                 lwp_parked_cnt, panic>>

\* lwp_park: the last LWP to park aborts the process, any other sleeps,
\* which unlocks runq_mtx.
LwpPark(l) ==
  /\ lpc[l] = "search"
  /\ \A p \in Prios : runq_table[p] = <<>>
  /\ panic' = (lwp_parked_cnt + 1 = lwp_cnt)
  /\ lwp_parked_cnt' = IF panic' \/ runq_size = 0 THEN lwp_parked_cnt + 1
                                                  ELSE lwp_parked_cnt
  /\ lpc' = [lpc EXCEPT ![l] = IF ~panic' /\ runq_size = 0 THEN "parked"
                                                           ELSE "search"]
  /\ runq_mtx' = IF ~panic' /\ runq_size = 0 THEN NULL ELSE l
  /\ UNCHANGED <<threadVars, objVars, runqVars, ut_curthr, curlwp, lwp_cnt>>

\* Wrong: a woken LWP still counts as parked.
LwpUnpark_StillCounted(l) ==
  /\ lpc[l] = "woken"
  /\ runq_mtx = NULL
  /\ lpc' = [lpc EXCEPT ![l] = IF runq_size = 0 THEN "parked" ELSE "search"]
  /\ runq_mtx' = IF runq_size = 0 THEN NULL ELSE l
  /\ UNCHANGED <<threadVars, objVars, runqVars, ut_curthr, curlwp, lwp_cnt,
                 lwp_parked_cnt, panic>>

\* The return of pthread_cond_wait and the test of the loop around it.
LwpUnpark(l) ==
  /\ lpc[l] = "woken"
  /\ runq_mtx = NULL
  /\ IF runq_size = 0
     THEN /\ lpc' = [lpc EXCEPT ![l] = "parked"]
          /\ UNCHANGED <<runq_mtx, lwp_parked_cnt>>
     ELSE /\ lpc' = [lpc EXCEPT ![l] = "search"]
          /\ runq_mtx' = l
          /\ lwp_parked_cnt' = lwp_parked_cnt - 1
  /\ UNCHANGED <<threadVars, objVars, runqVars, ut_curthr, curlwp, lwp_cnt,
                 panic>>

\* pthread_cond_wait may return without a signal.
SpuriousWakeup(l) ==
  /\ lpc[l] = "parked"
  /\ lpc' = [lpc EXCEPT ![l] = "woken"]
  /\ UNCHANGED <<threadVars, objVars, runqVars, runq_mtx, ut_curthr, curlwp,
                 lwp_cnt, lwp_parked_cnt, panic>>

LwpStep(l) ==
  LwpStart(l) \/ LwpSwitch(l) \/ LwpDispatch(l) \/ LwpPark(l) \/ LwpUnpark(l)

-----------------------------------------------------------------------------
(* Uthread code of uthread_sched.c, executed by the uthread t on LWP l.    *)

Runs(l, t, c) ==
  /\ lpc[l] = "uthread"
  /\ ut_curthr[l] = t
  /\ call[t] = c

\* Wrong: the queue is not passed on.
CallsSwitch_NoQueue(t, q, save, m) ==
  /\ call' = [call EXCEPT ![t] = "switch"]
  /\ args' = [args EXCEPT ![t] =
                [queue |-> NULL, saveonrq |-> save, pmut |-> m]]

CallsSwitch(t, q, save, m) ==
  /\ call' = [call EXCEPT ![t] = "switch"]
  /\ args' = [args EXCEPT ![t] =
                [queue |-> q, saveonrq |-> save, pmut |-> m]]

\* Wrong: the uthread is put on the run queue before it is off its stack.
Yield_EnqueuedFirst(l, t) ==
  /\ Runs(l, t, "client")
  /\ ut_state[t] = "ON_CPU"
  /\ runq_mtx = NULL
  /\ ut_state' = [ut_state EXCEPT ![t] = "RUNNABLE"]
  /\ RunqEnqueue(t, ut_prio[t], lpc)
  /\ CallsSwitch(t, NULL, FALSE, NULL)
  /\ UNCHANGED <<ut_prio, target, objVars, runq_mtx, ut_curthr, curlwp,
                 lwp_cnt, lwp_parked_cnt, panic>>

\* uthread_yield, called by the uthread or by clock_interrupt
Yield(l, t) ==
  /\ Runs(l, t, "client")
  /\ ut_state[t] = "ON_CPU"
  /\ CallsSwitch(t, NULL, TRUE, NULL)
  /\ UNCHANGED <<ut_state, ut_prio, target, objVars, runqVars, runq_mtx,
                 lwpVars, panic>>

\* uthread_switch up to setcontext(&curlwp->lwp_ctx); when t is dispatched
\* again, the call returns to client code.
UthreadSwitch(l, t) ==
  /\ Runs(l, t, "switch")
  /\ runq_mtx = NULL
  /\ runq_mtx' = l
  /\ curlwp' = [curlwp EXCEPT ![l] =
                  [queue |-> args[t].queue,
                   saveonrq |-> args[t].saveonrq /\ ut_state[t] # "ZOMBIE",
                   pmut |-> args[t].pmut]]
  /\ lpc' = [lpc EXCEPT ![l] = "lwp_switch"]
  /\ call' = [call EXCEPT ![t] = "client"]
  /\ args' = [args EXCEPT ![t] = NoArgs]
  /\ UNCHANGED <<ut_state, ut_prio, target, objVars, runqVars, ut_curthr,
                 lwp_cnt, lwp_parked_cnt, panic>>

\* uthread_wake(target[t])
UthreadWake(l, t) ==
  LET uthr == target[t]
  IN  /\ Runs(l, t, "wake")
      /\ runq_mtx = NULL
      /\ IF ut_state[uthr] = "WAIT"
         THEN /\ ut_state' = [ut_state EXCEPT ![uthr] = "RUNNABLE"]
              /\ RunqEnqueue(uthr, ut_prio[uthr], lpc)
         ELSE UNCHANGED <<ut_state, runqVars, lpc>>
      /\ call' = [call EXCEPT ![t] = "client"]
      /\ target' = [target EXCEPT ![t] = NULL]
      /\ UNCHANGED <<ut_prio, args, objVars, runq_mtx, ut_curthr, curlwp,
                     lwp_cnt, lwp_parked_cnt, panic>>

\* uthread_startonrunq(target[t], prio)
UthreadStartOnRunq(l, t, prio) ==
  LET thr == target[t]
  IN  /\ Runs(l, t, "start")
      /\ runq_mtx = NULL
      /\ ut_prio' = [ut_prio EXCEPT ![thr] = prio]
      /\ IF ut_state[thr] = "TRANSITION"
         THEN /\ ut_state' = [ut_state EXCEPT ![thr] = "RUNNABLE"]
              /\ RunqEnqueue(thr, prio, lpc)
              /\ UNCHANGED panic
         ELSE /\ panic' = TRUE
              /\ UNCHANGED <<ut_state, runqVars, lpc>>
      /\ call' = [call EXCEPT ![t] = "client"]
      /\ target' = [target EXCEPT ![t] = NULL]
      /\ UNCHANGED <<args, objVars, runq_mtx, ut_curthr, curlwp, lwp_cnt,
                     lwp_parked_cnt>>

\* Wrong: a zombie counts as active.
Active_OrZombie(id) == ut_state[id] \notin {"NO_STATE", "TRANSITION"}
Active(id) == ut_state[id] \notin {"NO_STATE", "TRANSITION", "ZOMBIE"}

\* Wrong: the uthread stays on its old queue.
RunqRequeue_NotRemoved(id, prio) ==
  runq_table' = [runq_table EXCEPT ![prio] = utqueue_enqueue(@, id)]

\* uthread_runq_requeue(id, ut_prio[id]), the new priority being prio
RunqRequeue(id, prio) ==
  runq_table' =
    [p \in Prios |->
       LET q == IF p = ut_prio[id] THEN utqueue_remove(runq_table[p], id)
                                   ELSE runq_table[p]
       IN  IF p = prio THEN utqueue_enqueue(q, id) ELSE q]

\* uthread_setprio; a call for an inactive uthread or for the priority it
\* has already changes nothing.
UthreadSetprio(l, t, id, prio) ==
  /\ Runs(l, t, "client")
  /\ ut_state[t] = "ON_CPU"
  /\ runq_mtx = NULL
  /\ Active(id)
  /\ ut_prio[id] # prio
  /\ ut_prio' = [ut_prio EXCEPT ![id] = prio]
  /\ IF ut_state[id] = "RUNNABLE" THEN RunqRequeue(id, prio)
                                  ELSE UNCHANGED runq_table
  /\ IF ut_state[id] = "RUNNABLE" /\ prio > ut_prio[t]
     THEN CallsSwitch(t, NULL, TRUE, NULL)
     ELSE UNCHANGED <<call, args>>
  /\ UNCHANGED <<ut_state, target, objVars, runq_size, runq_mtx, lwpVars,
                 panic>>

-----------------------------------------------------------------------------
(* The patterns in which the library's other files use the scheduler.      *)

MayLock(l, o) == pmut[o] \in {NULL, l}

\* pthread_mutex_lock, pthread_mutex_unlock on the mutex of an object, which
\* may stay locked over a switch (uthread_detach).  A zombie keeps its own
\* ut_pmut, which the switch unlocks, as uthread_exit says; the one path that
\* does not is make_reapable of the caller.
LockPmut(l, t, o) ==
  /\ Runs(l, t, "client")
  /\ pmut[o] = NULL
  /\ pmut' = [pmut EXCEPT ![o] = l]
  /\ UNCHANGED <<threadVars, waiters, runqVars, runq_mtx, lwpVars, panic>>

\* Wrong: a zombie may unlock its own ut_pmut, as make_reapable does.
UnlockPmut_ByZombie(l, t, o) ==
  /\ Runs(l, t, "client")
  /\ pmut[o] = l
  /\ pmut' = [pmut EXCEPT ![o] = NULL]
  /\ UNCHANGED <<threadVars, waiters, runqVars, runq_mtx, lwpVars, panic>>

UnlockPmut(l, t, o) ==
  /\ Runs(l, t, "client")
  /\ pmut[o] = l
  /\ ~(o = t /\ ut_state[t] = "ZOMBIE")
  /\ pmut' = [pmut EXCEPT ![o] = NULL]
  /\ UNCHANGED <<threadVars, waiters, runqVars, runq_mtx, lwpVars, panic>>

\* uthread_mtx_lock of an owned mutex, uthread_cond_wait: the LWP puts the
\* uthread on the queue.
WaitOn(l, t, o) ==
  /\ Runs(l, t, "client")
  /\ ut_state[t] = "ON_CPU"
  /\ o \in SyncObjs
  /\ MayLock(l, o)
  /\ pmut' = [pmut EXCEPT ![o] = l]
  /\ ut_state' = [ut_state EXCEPT ![t] = "WAIT"]
  /\ CallsSwitch(t, o, FALSE, o)
  /\ UNCHANGED <<ut_prio, target, waiters, runqVars, runq_mtx, lwpVars,
                 panic>>

\* uthread_join of a uthread that has not exited: the caller puts itself on
\* the queue.
WaitForExit(l, t, thr) ==
  /\ Runs(l, t, "client")
  /\ ut_state[t] = "ON_CPU"
  /\ Active(thr)
  /\ MayLock(l, thr)
  /\ waiters[thr] = <<>>
  /\ pmut' = [pmut EXCEPT ![thr] = l]
  /\ ut_state' = [ut_state EXCEPT ![t] = "WAIT"]
  /\ waiters' = [waiters EXCEPT ![thr] = utqueue_enqueue(@, t)]
  /\ CallsSwitch(t, NULL, FALSE, thr)
  /\ UNCHANGED <<ut_prio, target, runqVars, runq_mtx, lwpVars, panic>>

\* A waiter is taken off a queue under the object's mutex, which is kept
\* (uthread_cond_signal, uthread_cond_broadcast, uthread_exit) or unlocked
\* (uthread_mtx_unlock) before the waiter is woken.  The waiter of a uthread
\* is taken by that uthread alone, when it exits.
TakeWaiter(l, t, o, keep) ==
  /\ Runs(l, t, "client")
  /\ MayLock(l, o)
  /\ o \in Uthreads => o = t /\ ut_state[t] = "ZOMBIE" /\ keep
  /\ waiters[o] # <<>>
  /\ pmut' = [pmut EXCEPT ![o] = IF keep THEN l ELSE NULL]
  /\ waiters' = [waiters EXCEPT ![o] = Tail(@)]
  /\ call' = [call EXCEPT ![t] = "wake"]
  /\ target' = [target EXCEPT ![t] = Head(waiters[o])]
  /\ UNCHANGED <<ut_state, ut_prio, args, runqVars, runq_mtx, lwpVars, panic>>

\* uthread_exit: t becomes a zombie under its ut_pmut, and once its waiter
\* has been woken leaves its stack for good.
BecomeZombie(l, t) ==
  /\ Runs(l, t, "client")
  /\ ut_state[t] = "ON_CPU"
  /\ pmut[t] = NULL
  /\ pmut' = [pmut EXCEPT ![t] = l]
  /\ ut_state' = [ut_state EXCEPT ![t] = "ZOMBIE"]
  /\ UNCHANGED <<ut_prio, call, target, args, waiters, runqVars, runq_mtx,
                 lwpVars, panic>>

LeaveForGood(l, t) ==
  /\ Runs(l, t, "client")
  /\ ut_state[t] = "ZOMBIE"
  /\ waiters[t] = <<>>
  /\ CallsSwitch(t, NULL, FALSE, t)
  /\ UNCHANGED <<ut_state, ut_prio, target, objVars, runqVars, runq_mtx,
                 lwpVars, panic>>

\* The reaper locks and unlocks the zombie's ut_pmut and calls
\* uthread_destroy.
Destroy(l, t, zombie) ==
  /\ Runs(l, t, "client")
  /\ ut_state[zombie] = "ZOMBIE"
  /\ pmut[zombie] = NULL
  /\ ut_state' = [ut_state EXCEPT ![zombie] = "NO_STATE"]
  /\ waiters' = [waiters EXCEPT ![zombie] = <<>>]
  /\ UNCHANGED <<ut_prio, call, target, args, pmut, runqVars, runq_mtx,
                 lwpVars, panic>>

\* uthread_create up to uthread_startonrunq: a free slot is taken.
Allocate(l, t, slot) ==
  /\ Runs(l, t, "client")
  /\ ut_state[t] = "ON_CPU"
  /\ ut_state[slot] = "NO_STATE"
  /\ ut_state' = [ut_state EXCEPT ![slot] = "TRANSITION"]
  /\ call' = [call EXCEPT ![t] = "start"]
  /\ target' = [target EXCEPT ![t] = slot]
  /\ UNCHANGED <<ut_prio, args, objVars, runqVars, runq_mtx, lwpVars, panic>>

-----------------------------------------------------------------------------
(* Steps and behaviours.                                                   *)

\* what t does in client code
ClientStep(l, t) ==
  \/ \E o \in Objs : LockPmut(l, t, o) \/ UnlockPmut(l, t, o)
  \/ \E o \in SyncObjs : WaitOn(l, t, o)
  \/ \E thr \in Uthreads : WaitForExit(l, t, thr)
  \/ \E o \in Objs, keep \in BOOLEAN : TakeWaiter(l, t, o, keep)
  \/ BecomeZombie(l, t)
  \/ LeaveForGood(l, t)
  \/ \E zombie \in Uthreads : Destroy(l, t, zombie)
  \/ \E slot \in Uthreads : Allocate(l, t, slot)

UthreadStep(l, t) ==
  \/ Yield(l, t)
  \/ UthreadSwitch(l, t)
  \/ UthreadWake(l, t)
  \/ \E prio \in Prios : UthreadStartOnRunq(l, t, prio)
  \/ \E id \in Uthreads, prio \in Prios : UthreadSetprio(l, t, id, prio)

\* PANIC has aborted the process.
Aborted == panic /\ UNCHANGED schedVars

SchedNext ==
  \/ Aborted
  \/ /\ ~panic
     /\ \/ \E l \in Lwps : LwpStep(l) \/ SpuriousWakeup(l)
        \/ \E l \in Lwps, t \in Uthreads : UthreadStep(l, t) \/ ClientStep(l, t)

SchedSpec == SchedInit /\ [][SchedNext]_schedVars

-----------------------------------------------------------------------------
(* Properties.                                                             *)

\* Every variable has its type: the fields of uthread_t, the run queue, the
\* locks and the thread-local data of the LWPs.
TypeOK ==
  /\ ut_state \in [Uthreads -> States]
  /\ ut_prio \in [Uthreads -> Prios]
  /\ call \in [Uthreads -> Calls]
  /\ target \in [Uthreads -> Uthreads \cup {NULL}]
  /\ args \in [Uthreads -> SwitchArgs]
  /\ pmut \in [Objs -> Lwps \cup {NULL}]
  /\ waiters \in [Objs -> Seq(Uthreads)]
  /\ runq_table \in [Prios -> Seq(Uthreads)]
  /\ runq_size \in Nat
  /\ runq_mtx \in Lwps \cup {NULL}
  /\ ut_curthr \in [Lwps -> Uthreads \cup {NULL}]
  /\ curlwp \in [Lwps -> SwitchArgs]
  /\ lpc \in [Lwps -> LwpPcs]
  /\ lwp_cnt \in Nat
  /\ lwp_parked_cnt \in Nat
  /\ panic \in BOOLEAN

OnStack(l, t) == lpc[l] = "uthread" /\ ut_curthr[l] = t

\* "two processors are executing on the same stack" (uthread_yield, lines
\* 61-65) never happens: at most one LWP executes on the stack of a uthread,
\* and none does on that of a uthread that is runnable, or whose slot is free
\* or being set up (its stack is freed or new).
StackExclusive ==
  \A t \in Uthreads :
    /\ \A l1, l2 \in Lwps : OnStack(l1, t) /\ OnStack(l2, t) => l1 = l2
    /\ ut_state[t] \in {"RUNNABLE", "NO_STATE", "TRANSITION"} =>
         \A l \in Lwps : ~OnStack(l, t)

\* ut_state and the run queue agree at all times, across uthread_wake,
\* uthread_setprio and the switch: the runnable uthreads are exactly those
\* queued, each once, at its current priority.
RunqCoherent ==
  \A p \in Prios :
    /\ NoDup(runq_table[p])
    /\ \A t \in Uthreads :
         Occurs(runq_table[p], t) <=> ut_state[t] = "RUNNABLE" /\ ut_prio[t] = p

\* runq_size, on which lwp_park sleeps and uthread_runq_enqueue decides to
\* release an LWP, is the number of queued uthreads.
RunqSizeExact ==
  runq_size = Cardinality({t \in Uthreads : ut_state[t] = "RUNNABLE"})

\* No waiter is lost and none is woken twice: a uthread in UT_WAIT is on one
\* queue or about to be put on one by its LWP, or else was taken off by one
\* uthread that is about to call uthread_wake.
ToBeQueued(t, o) ==
  \/ call[t] = "switch" /\ args[t].queue = o
  \/ \E l \in Lwps : ut_curthr[l] = t /\ curlwp[l].queue = o
Awaits(t, o) == Occurs(waiters[o], t) \/ ToBeQueued(t, o)
Wakes(u, t) == call[u] = "wake" /\ target[u] = t

WaiterAccounted ==
  /\ \A o \in Objs : NoDup(waiters[o])
  /\ \A t \in Uthreads :
       LET awaited == {o \in Objs : Awaits(t, o)}
           wakers  == {u \in Uthreads : Wakes(u, t)}
       IN  /\ ut_state[t] = "WAIT" <=> awaited \cup wakers # {}
           /\ \A o1, o2 \in awaited : o1 = o2
           /\ \A u1, u2 \in wakers : u1 = u2
           /\ awaited = {} \/ wakers = {}

\* A POSIX mutex handed to uthread_switch is still held by the same LWP when
\* that LWP unlocks it off the uthread's stack.  Otherwise the unlock of a
\* ut_pmut, which checks errors, would abort, and that of m_pmut or of a
\* condition variable's pmut, which are default mutexes, would be undefined.
HandedMutexHeld ==
  \A l \in Lwps :
    LET t == ut_curthr[l]
        a == IF lpc[l] = "lwp_switch" THEN curlwp[l]
             ELSE IF OnStack(l, t) /\ call[t] = "switch" THEN args[t] ELSE NoArgs
    IN  a.pmut # NULL => pmut[a.pmut] = l

\* lwp_park's PANIC "All LWPs parked -- stuck!" tells the truth: when the last
\* LWP parks, no uthread is running or runnable, whatever wake-ups are in
\* flight.  It is about this PANIC only: that of uthread_startonrunq comes when
\* two creators are given one slot, which Allocate leaves to UthreadAlloc.
PanicOnlyIfStuck ==
  panic => \A t \in Uthreads : ut_state[t] \notin {"ON_CPU", "RUNNABLE"}

\* An exited uthread whose ut_pmut is free has nobody left on its ut_waiter,
\* so that uthread_destroy, which empties that queue, forgets no joiner.
NoJoinerForgotten ==
  \A t \in Uthreads :
    ut_state[t] = "ZOMBIE" /\ pmut[t] = NULL => waiters[t] = <<>>

\* An LWP that picks a uthread picks one of highest priority among all that
\* are runnable, although uthread_setprio changes priorities of queued
\* uthreads.
DispatchesHighest ==
  [][\A l \in Lwps, t \in Uthreads :
       ut_curthr'[l] = t /\ ut_curthr[l] # t =>
         /\ ut_state[t] = "RUNNABLE"
         /\ \A u \in Uthreads :
              ut_state[u] = "RUNNABLE" => ut_prio[u] <= ut_prio[t]]_schedVars

=============================================================================
