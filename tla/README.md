# A verification of the two-level thread library

The library multiplexes *uthreads* (user threads) over a fixed number of *LWPs* (POSIX threads). This
directory models its concurrent core in TLA+, checks it with TLC on small instances, and proves the safety
properties of the scheduler, the mutexes, the condition variables, the waiter queues, preemption and the slot
allocation with TLAPS for any number of uthreads, LWPs, mutexes, condition variables, priorities and slots. All references are to files under `src/`.

## 1. Inventory

| component | state | operations | what makes it correct |
|---|---|---|---|
| scheduler (`uthread_sched.c`) | `runq_table`, `runq_size`, `runq_mtx`, `lwp_cnt`, `lwp_parked_cnt`; per LWP `ut_curthr`, `curlwp`; per uthread `ut_state`, `ut_prio` | `uthread_yield`, `uthread_wake`, `uthread_setprio`, `uthread_startonrunq`, `uthread_switch`, `lwp_switch`, `lwp_park`, `lwp_release` | one LWP per stack; the run queue agrees with the states; no wake-up lost; highest priority first; the PANIC of `lwp_park` only when stuck |
| waiter queues (`uthread_queue.c`, `list.h`) | a circular doubly linked list through `ut_link`, `tq_size` | enqueue at the head, dequeue at the tail, remove | first in, first out; a uthread is on one queue at most |
| mutexes (`uthread_mtx.c`) | `m_owner`, `m_waiters`, `m_pmut` | lock, trylock, unlock | mutual exclusion, hand-off to the first waiter |
| condition variables (`uthread_cond.c`) | `uc_waiters`, `pmut` | wait, signal, broadcast | no signal lost between the unlock and the sleep |
| lifecycle (`uthread.c`) | `ut_state`, `ut_detached`, `ut_exit`, `ut_waiter`, `ut_pmut`, `ut_stack` | create, exit, join, detach | a join returns the status of its target, once; a stack is not freed in use |
| reaper (`uthread.c`) | `reap_queue`, `reap_mtx`, `reap_cond` | `make_reapable`, `reaper`, `uthread_destroy` | every joined or detached zombie is destroyed, once, off its stack; the process ends when all are gone |
| slot allocation (`uthread.c`) | `PrevID`, `uthreads_mtx`, `ut_state` | `uthread_alloc` | distinct callers get distinct slots |
| start-up (`uthread.c`) | all of the above | `uthread_start`, `create_first_thr`, `lwp_start` | LWPs find the run queue ready |
| preemption (`uthread_sched.c`, `uthread_ctx.c`) | the signal mask of each LWP, `ut_no_preempt_count` | `clock_interrupt`, `uthread_nopreempt_on/off` | no preemption inside library code |
| machine contexts (`uthread_ctx.c`) | `ut_ctx`, `lwp_ctx` | getcontext, setcontext, makecontext | external |
| checked POSIX calls (`wrapper.c`) | - | lock, unlock | an unlock by an LWP that does not own the mutex aborts |

**How they interact.** Every blocking operation follows one pattern: lock the object's POSIX mutex, set
`UT_WAIT`, and call `uthread_switch(queue, 0, &pmut)`. The uthread does not put itself on the queue and does
not unlock the mutex: it locks `runq_mtx`, leaves the three requests in `curlwp`, and jumps to the LWP's own
stack, where `lwp_switch` serves them. Only `uthread_join` deviates: the caller puts itself on `ut_waiter`, and
relies on `ut_pmut` alone. A waker takes the uthread off the queue under the object's POSIX mutex and calls
`uthread_wake`, which takes `runq_mtx` for itself. `runq_mtx` is passed from the uthread to the LWP and is
unlocked at the dispatch of the next uthread; `lwp_park` gives it up while it sleeps.

**What is hard.** Several LWPs execute at once; a uthread changes its LWP at each switch; a waker may see a
waiter at any point between the waiter's decision and its last instruction on its stack; `uthread_mtx_unlock`
drops `m_pmut` before it wakes the new owner; `uthread_setprio` moves uthreads that others dequeue; sleeping
LWPs are woken one at a time and also spuriously; a POSIX mutex belongs to an LWP while its user is a uthread.
The `hazards` of `PROJECT.json` list the places.

## 2. Modules

| module | models | proofs |
|---|---|---|
| `UthreadSched` | the scheduler, and the patterns in which the rest of the library uses it | `UthreadSchedProofs` |
| `HandoffMutex` | what a mutex promises | |
| `UthreadMtx` | the mutexes over `UthreadSched`, shown to implement `HandoffMutex` | `UthreadMtxProofs` |
| `CondVar` | what a condition variable promises | |
| `UthreadCond` | the condition variables over `UthreadMtx`, shown to implement `CondVar` | `UthreadCondProofs` |
| `UthreadLife` | exit, join, detach, `make_reapable` and the reaper over `UthreadMtx` | `UthreadLifeProofs` |
| `UthreadPreempt` | the clock interrupt, signal masks and nesting counters | `UthreadPreemptProofs` |
| `UthreadAlloc` | `uthread_alloc` and the failures of `uthread_create` | `UthreadAllocProofs` |
| `FifoQueues` | what the waiter queues promise | |
| `UthreadQueue` | the linked lists of `list.h` and `uthread_queue.c`, shown to implement `FifoQueues` | `UthreadQueueProofs` |
| `MC...` | the instances of these for TLC | |

`UthreadMtx` extends `UthreadSched`, and `UthreadCond` and `UthreadLife` extend `UthreadMtx`: each layer adds its
own state, and its steps are steps of the layer below with that state changed beside them. The other three stand
beside this tower and look at one thing that the tower takes as one step or as given:

- `UthreadQueue` justifies that a `utqueue_t` is a sequence everywhere else;
- `UthreadAlloc` opens up the step `Allocate`, in which the tower takes a free slot;
- `UthreadPreempt` opens up `Yield`, which in `UthreadSched` may happen at any instruction.

## 3. How the models correspond to the code

### `UthreadSched`

**Granularity.** A step goes from one acquisition of a POSIX mutex to the next: what is between is either
under the mutex or private to the uthread. `uthread_switch` starts when it has `runq_mtx` and ends at
`setcontext`; `lwp_switch` is two steps, the requests (`LwpSwitch`) and one turn of the search loop
(`LwpDispatch`, `LwpPark`), although `runq_mtx` is held over both, because `pmut` is unlocked in the first one.

**Correspondence.** The variables have the names of the fields. Four record what the code keeps in registers
and on stacks: `lpc` is where an LWP is (`uthread` means on the stack of its `ut_curthr`), `call`, `target` and
`args` where a uthread is in a call of the scheduler. A POSIX mutex `pmut[o]` holds the LWP that owns it, as
the operating system does, and not the uthread. An *object* is a mutex, a condition variable or a uthread
with its `ut_pmut` and `ut_waiter`: one POSIX mutex and one queue. A queue is a sequence whose first element
leaves first (`utqueue_enqueue` inserts at the head of the list, `utqueue_dequeue` takes its tail).

| code | action |
|---|---|
| `lwp_start` | `LwpStart` |
| `lwp_switch`, requests / scan | `LwpSwitch` / `LwpDispatch` |
| `lwp_park`, entry / return of `pthread_cond_wait` | `LwpPark` / `LwpUnpark`, `SpuriousWakeup` |
| `uthread_yield`, also from `clock_interrupt` | `Yield`, then `UthreadSwitch` |
| `uthread_switch` | `UthreadSwitch` |
| `uthread_wake`, `uthread_startonrunq`, `uthread_setprio` | `UthreadWake`, `UthreadStartOnRunq`, `UthreadSetprio` |
| block in `uthread_mtx_lock`, `uthread_cond_wait` | `WaitOn` |
| block in `uthread_join` | `WaitForExit` |
| the wakers in `uthread_mtx_unlock`, `uthread_cond_signal/broadcast`, `uthread_exit` | `TakeWaiter`, then `UthreadWake` |
| `uthread_exit` of a joinable uthread | `BecomeZombie`, `TakeWaiter`, `LeaveForGood` |
| `reaper` and `uthread_destroy` for one zombie | `Destroy` |
| `uthread_alloc` ... `uthread_startonrunq` | `Allocate`, then `UthreadStartOnRunq` |

The users of the scheduler are as free as the library lets them be: any uthread may at any time lock objects,
wait, wake, exit, destroy a zombie whose `ut_pmut` is free, or create a uthread. POSIX mutexes may stay locked
over a switch, as `uthread_detach` leaves one (line 358). The models keep one rule of the code: an exited
uthread unlocks its own `ut_pmut` through the switch. One path of `uthread.c` breaks it: `make_reapable` of the
running uthread unlocks it first (line 630). That path is in `UthreadLife`, which takes the actions for the
rest from here and writes this one (`ExitBare`) itself; what follows from it is the finding of `life_stack`.

**Assumed here.** Three things the code does not check by itself, on which the results of the tower rest:

- *Slots.* `Allocate` takes a free slot in one step, so that two creators never have the same one. The code does not
  ensure that (`alloc_ids`): it can give two creators one id, and then `uthread_startonrunq` panics, or resets the
  link of a queued uthread. `UthreadAlloc` shows it; the models and the theorems of the tower speak of executions in
  which it does not happen.
- *Joins.* `WaitForExit`, and `Accepts` of `UthreadLife`, wait for uthreads in use only. The code tests for
  `UT_ZOMBIE` alone (`uthread.c` line 266) and would wait for a free slot, too.
- *Destruction.* `Destroy`, and `ReaperDestroy` of `UthreadLife`, take `uthread_destroy` (lines 437-445) as one step,
  though it runs after `ut_pmut` was unlocked (line 491). A second claim of the uthread could see `ut_detached` reset
  (line 440) before the slot is `UT_NO_STATE` (line 444), or lock a mutex that was just destroyed (line 443). A program
  that claims each uthread once does neither; what is checked or proved without `SingleClaim` leaves these
  intermediate states out.

**Abstractions.** Contexts and stacks are `lpc` and `ut_curthr`. The clock interrupt is a `Yield` that may
happen whenever a running uthread is between two calls of the scheduler, even where the code masks it, so that
the proofs of the scheduler do not rely on the mask, which is not state; `UthreadLife` allows it in the program
only. A destroyed slot may be taken again at once, so that re-use races are covered.

### `UthreadMtx`

`m_owner` is the field; `held` is what each uthread was told it owns, so that `MutualExclusion` compares what
the callers believe with what the mutex says; `wants` is the mutex whose lock a uthread is blocked in.
`uthread_mtx_lock` is `MtxTake` or `MtxBlock`, and after the switch `UthreadMtxLockReturn`;
`uthread_mtx_trylock` is `MtxTake`; `uthread_mtx_unlock` is `MtxRelease`, then `UthreadWake` for a waiter.
Only the holder unlocks, and nobody locks a mutex it holds: the code checks neither, so that both are rules for the
program.
`HandoffMutex` has an owner and a queue per mutex and three atomic steps. A caller that
finds the mutex owned joins the abstract queue at that step: the refinement appends the one uthread that holds
`m_pmut` on its way to be queued by its LWP.

### `UthreadCond`

Any program of uthreads that lock mutexes, wait, signal, broadcast, yield and create uthreads. `cpc` is where a
uthread is in `uthread_cond.c`, with the arguments of that call in `cond` and `mtx`; the condition variable's
queue and POSIX mutex are `waiters[c]` and `pmut[c]` of the scheduler.

| code | actions |
|---|---|
| a program's `uthread_yield`, `clock_interrupt` | `CondYield` |
| `uthread_cond_wait` | `CondWait` (locks `pmut`), `CondUnlock` (`uthread_mtx_unlock`, with its wake-up), `CondSleep` (`UT_WAIT` and the switch), `CondRelock` |
| `uthread_cond_signal` | `CondSignalLock`, `CondSignal`, `UthreadWake`, `CondSignalUnlock` |
| `uthread_cond_broadcast` | `CondBroadcastLock`, `CondBroadcast` once per waiter with `UthreadWake` in between, and once for the empty queue |

The calls nest as in the code: `uthread_cond_wait` calls `uthread_mtx_unlock` with `pmut` locked, so that the
uthread it wakes, and others on the other LWP, run while the caller is between two locks. After the switch the
interrupt is unmasked until `uthread_mtx_lock` masks it again; a caller that finds `m_pmut` locked there counts as
inside that call, where it waits masked (the states that can be reached are the same). `CondVar` has one
atomic step each for a wait (give up the mutex and fall asleep), a signal and a broadcast. In the refinement a uthread is
asleep from the unlocking of its mutex on, before its LWP has queued it, and a broadcast wakes everybody when it
has locked `pmut`, before it has taken them off.

### `UthreadQueue`

The links are functions from nodes to nodes, where a node is a queue (its list head) or a uthread (its embedded
link); each macro of `list.h` is an operator with the same assignments. `order` is the history of the callers: the
sequence that `FifoQueues` works on. The two pointers that `list_insert_before` copies first are read before any
assignment, as in the macro. A failed assertion sets `aborted`.

### `UthreadPreempt`

`masked` is the signal mask of an LWP, `count` is `ut_no_preempt_count`, `ctx` the mask saved in a uthread's
context and `frame` the place that the signal frame of `clock_interrupt` returns to. `pc` is where a uthread is
relative to the mask: in the program, in `uthread_nopreempt_on` before `pthread_sigmask`, in library code, in
`thread_start`, or in the handler. What matters is who sets the mask of an LWP:

| code | action |
|---|---|
| delivery of `SIGVTALRM` to some LWP that does not block it, `clock_interrupt` up to the switch | `ClockInterrupt`, `SwitchYield` |
| return from the switch in the handler, and from the handler | `NopreemptOff`, `ClockInterruptReturn` |
| `is_masked` / the rest of `uthread_nopreempt_on` | `NopreemptOnCalled` / `NopreemptOn` |
| `uthread_nopreempt_off`, also in `thread_start` | `NopreemptOff` |
| `uthread_switch` (`getcontext`) and `lwp_switch` (`setcontext`) | `SwitchYield`, `SwitchAway`, `LwpDispatch` |
| `uthread_makecontext`, `uthread_create`, `uthread_destroy` | `UthreadCreate`, `UthreadDestroy` |

The run queue has one priority and `runq_mtx` is left out, since both are in `UthreadSched`.

### `UthreadAlloc`

Each caller of `uthread_alloc` has its `start`, `end` and `i`. The read of `PrevID` at line 403, the locking, each
test of a slot, the marking with the unlocking, and the read of `PrevID` at line 415 are steps of their own; so are
`alloc_stack`, which may fail, and `uthread_startonrunq`. Uthreads exit and are reclaimed at any time, by the
reaper, which does not lock `uthreads_mtx`. `freeAtLock` remembers which slots were free at the locking.

### `UthreadLife`

It starts from the mutexes and adds `ut_detached`, `reap_queue`, and for each uthread `at`, where it is in
`uthread.c`, and `subject`, the uthread it works on there (the local `thr`, or the caller of `uthread_exit`
itself). `claimed` records for whom a join or detach was accepted; it only restricts the program when
`SingleClaim` is set. `reap_mtx` is a mutex of `UthreadMtx`, and `reap_cond` an object whose queue the reaper
waits on.

| code | actions |
|---|---|
| `uthread_exit` | `LocksReap`, `ExitZombie`, `ExitWake`, `UnlocksReap`, `ExitLeave`; detached: `MakeReapable` |
| `make_reapable` | `SignalReaper`, `Signalled`, `ReapUnlock`, and for the caller itself `ExitBare` |
| `uthread_join` | `Join` (checks, then waits or finds a zombie), `JoinReturn`, `JoinCheck` |
| `uthread_detach` | `Detach`, `DetachCheck` |
| `reaper`, with `uthread_cond_wait` | `ReaperWait`, `UnlocksReap`, `ReaperSleep`, `ReaperTake`, `ReaperDestroy` |
| `abort` of a POSIX lock taken twice by one LWP | `Relock` |

The process stops at its first fatal event, and `outcome` says which: the reaper's `exit`, an `abort` (an
assertion, or an unlock by an LWP that is not the owner), a stack `freed` while an LWP is on it, after which
the behaviour is undefined; or `panic` of the scheduler. A refused call changes nothing and is left out. The
program uses only ids that `uthread_create` has returned and that are in use, and does not join itself (a
uthread that does so waits for ever).

## 4. Properties and runs

| run | instance | what it asks |
|---|---|---|
| `sched` | 3 uthreads, 2 LWPs, 1 object, 1 priority | the wait and wake protocol: no shared stack, each waiter in exactly one place, handed mutexes held, no joiner forgotten, the panic only when all are stuck |
| `mtx` | 3 uthreads, 2 LWPs, 2 mutexes, 2 priorities that change, deadlocks included | mutual exclusion, hand-off, the refinement to `HandoffMutex`; run queues, counter, states and priorities agree; the highest is dispatched |
| `cond` | 3 uthreads, 2 LWPs, 1 mutex, 1 condition variable, fair | no signal lost, the refinement to `CondVar`; every broadcast ends, every woken waiter and every locker is served |
| `life` | first uthread, reaper, 2 more, 2 LWPs, each uthread claimed once | every claimed zombie gets to the reaper, once; a woken joiner finds its zombie; no signal to the reaper is lost |
| `life_live` | 3 uthreads, 2 LWPs, fair | every claimed zombie is destroyed, every join returns, the process ends |
| `queue` | 4 uthreads, 2 queues | the rings stay whole and are the sequences of `FifoQueues` |
| `preempt` | 3 uthreads, 2 LWPs, nesting up to 2 (3 in the handler), fair | the assertions on masks and counters; every runnable uthread gets an LWP |
| `alloc` | 5 slots, 3 creators, fair | no slot marked twice, no false `EAGAIN`, the search ends |
| `life_stack` | 3 uthreads | violated: a detached uthread's stack is freed while in use |
| `life_locked` | 4 uthreads | violated: `make_reapable` on an LWP that does not own `ut_pmut` |
| `life_twice` | 4 uthreads, any number of claims | violated: two callers pass the checks of join and detach |
| `alloc_ids` | 5 slots, 2 creators | violated: two creators are given one id |

**Findings.** The four violated runs each show a comment of the source contradicted by its code.

- `StackKept` (`uthread.c` lines 178-181 against 628-633): `make_reapable` of the running uthread unlocks `ut_pmut`
  and `reap_mtx` and then calls `uthread_switch(NULL, 0, NULL)`. In between, the reaper on another LWP passes the
  lock that is to make it wait "for thread to get off its stack" and frees that stack.
- `MakeReapableLocked` (line 599 against 354-370): `uthread_detach` of a zombie blocks on `reap_mtx` while its
  LWP owns `ut_pmut`. The uthread resumes on another LWP, whose unlock fails and aborts.
- `ClaimedOnce` (lines 217-221 against 198 and 286): the exiting uthread takes the joiner off `ut_waiter`
  before the joiner sets `ut_detached`; a second call in between is not refused.
- `DistinctIds` (line 398 against 415): `uthread_alloc` returns `PrevID` after it has unlocked `uthreads_mtx`. A
  second creator that marks a slot in between makes both return that one: the first slot stays in `UT_TRANSITION`,
  and the later `uthread_startonrunq` finds its slot no longer there and panics.

The first stops the process in some behaviours of the `life` runs. The passing properties there say what holds
up to that point, and in every behaviour that does not meet it; `claimed` once per uthread keeps the third out.
`ClaimedDestroyed`, `JoinsReturn` and `ProcessEnds` accept an end of the process by `exit`, `abort` or `freed`, but
not by `panic`, which is what a lost wake-up leads to.

**Three observations** that are not runs, because one path of the code shows each. When `alloc_stack` fails,
`uthread_create` leaves its slot in `UT_TRANSITION` (lines 132-136; `CreateNoStack`), and then, or when an exited
uthread is never joined, the reaper's test for the end (lines 498-504) cannot succeed: `ProcessEnds` therefore
requires that every uthread was claimed. `uthread_runq_enqueue` releases an LWP only when the run queue was empty
(line 530), so that with three LWPs one may sleep beside a second runnable uthread; it is not lost, since the LWP
that queued it looks at the queue at its own next switch.

**Bounds.** Three uthreads are needed for the interesting cases of the scheduler - a waiter, a waker and a third
that interferes (with the first uthread and the reaper, one more slot that is created, exits, is destroyed and
is created again) - and two LWPs for every race between two stacks. `sched` has one object besides the
uthreads, which gives queues of both kinds, and one priority; `mtx` has two priorities, between which any uthread
moves any other, and two mutexes, so that uthreads hold one and wait for the other. In `cond` two uthreads wait
while the third signals or broadcasts, and all three contend for the mutex. The lifecycle has a fourth uthread,
for two callers that deal with the same third one while the reaper runs; it is exchangeable with another one
(symmetry). Four uthreads on two lists give rings of every length with a removal at either end and in the middle.
`MaxNest` bounds the nesting of `uthread_nopreempt_on` by the program, to 2. Five slots leave three that are taken and freed
behind three searches, one of which may wrap while the others wait, and two marks between the marking and the
return of a third (so that the panic of `DistinctIds` is reached); `Creators` bounds who creates. Every other
data structure is bounded by the number of uthreads: the runs are exhaustive for their instance. What more LWPs,
uthreads, objects or slots add to the safety properties is covered by the proofs, which have no bounds, except for
the lifecycle. The liveness of the lifecycle has three uthreads and no symmetry.

**Fairness** (`CondFairSpec`, `LifeFairSpec`, `PreemptFairSpec`, `AllocFairSpec`). LWPs are POSIX threads that the
operating system schedules, and a thread that wants a POSIX mutex which is unlocked again and again gets it in the
end: strong fairness of each LWP's steps, in the library code of its uthread too, and of each uthread's progress in
a call that it can be interrupted in. The interval timer interrupts whatever keeps running
(`uthread_sched.c` lines 415-439): strong fairness of `CondYield` on each LWP in `CondFairSpec` and of each
uthread's `Yield` in `LifeFairSpec`; in `UthreadPreempt`, where this is the question, only weak fairness of the
timer and strong fairness of the delivery to an LWP that unblocks the signal again and again. An owner unlocks: strong fairness of
`UthreadMtxUnlock` for each mutex (`CondFairSpec` only; that library code unlocks `reap_mtx` is part of its
progress). A program need not call exit, join, detach, signal or broadcast, and in `UthreadPreempt` it need never
call the library again. The liveness runs have one priority, since a uthread of low priority may starve by design.

## 5. Proofs

`UthreadSchedProofs` proves, from `SchedAssumption` only (finite sets of uthreads and LWPs, the first uthread
and the reaper distinct, the objects distinct from each other and from `NULL`): type correctness,
`StackExclusive`, `RunqCoherent`, `RunqSizeExact`, `HandedMutexHeld`, `NoJoinerForgotten`, `WaiterAccounted`,
`PanicOnlyIfStuck` and the action property `DispatchesHighest`.

None is inductive alone. That no second LWP can resume a uthread which is still on its stack depends on the
queue the uthread is on, this on who holds the queue's POSIX mutex, and this on what the pending
`uthread_switch` is to unlock. The inductive invariant `IInv` therefore says where everything is:

- `LwpInv`: `runq_mtx` is held exactly in `lwp_switch` and the search; who has a current uthread; no two LWPs
  have the same.
- `CallInv`: only a uthread on its stack is in a call; which states a uthread on its stack may have.
- `AsksInv`: what a uthread in each state may ask of its LWP - a running one to be put on the run queue, a
  waiting one to be queued on the object whose mutex its LWP holds (or, a joiner, to have the mutex of the
  queue it is on unlocked), an exited one to have its own `ut_pmut` unlocked or, if it is unlocked already,
  nothing at all.
- `QueueInv`: a queued uthread waits, on that queue only, and if it is still on an LWP it is a joiner whose
  switch will unlock that queue. With `AsksInv` this is the heart of the argument: a waker that holds the
  queue's mutex cannot meet a waiter that is still on its stack.
- `WakeInv`: a uthread in the hands of a waker is nowhere else; every waiting uthread is somewhere.
- `RunqCoherent`, `RunqSizeExact`, and `CountInv`: the two counters of LWPs are the sizes of the sets they count.

Beside it stands `ZombieInv`: an exited uthread holds its `ut_pmut` until its LWP is done with it, so that
`uthread_destroy`, which locks it, cannot meet it. It is apart because `make_reapable` breaks it (see the lifecycle
below) while `IInv` survives that. `OrdinaryNext` is the part of the next-state relation that needs `IInv` alone: all
but the last switch of a uthread and its destruction.

The lemmas on queues (`EnqueueQueue`, `DequeueQueue`, `RemoveQueue`) say what the three operations do to the
set of queued uthreads and to the absence of duplicates. There is one step lemma per action (`LwpSwitchStep`,
`TakeWaiterStep`, ...), one part per conjunct of `IInv` in each; `AsksKept`, `WakeKept`, `QueueKept` and
`RunqUntouched` dispose of the conjuncts an action leaves alone. `PanicsOnlyIfStuck` counts: when the last LWP
parks, `lwp_parked_cnt + 1 = lwp_cnt` leaves no LWP for a running uthread. It is about the panic of `lwp_park`, and
says nothing of the one in `uthread_startonrunq` (see *Slots* above).

`UthreadMtxProofs` extends these proofs: a step of `UthreadMtx` is by its definition a step of
`UthreadSched`, an ordinary one, so that `IInv` holds there too, and `MInv` adds to it who owns what. Its heart is `OwnerInv`: the
owner of a mutex is a uthread that was told so, or one that was taken off the queue and is on its way back, and
nobody else wants a mutex it was taken off from. `MutexesHandOff` proves the refinement, with one lemma
(`HandoffSteps`) for the abstract steps and one (`SeenQueueKept`) for the steps that must not change the abstract
queue, of which `lwp_switch` is the interesting one: it moves a uthread from the way to the queue onto it.

`UthreadCondProofs` extends both in the same way. `CInv` says that in a protected section a uthread stays on the LWP
that holds `pmut` (`UCond`), that at most one uthread is in such a section of one condition variable, and that who
awaits a condition variable is in its `uthread_cond_wait` (`AwaitsInWait`). `SignalSeesWaiters` follows: between its
unlock and the queueing a uthread holds `pmut`, or its LWP does, and the signaller holds it too.
`CondsImplementCondVar` is the refinement: inside a call on `c` a uthread is alone with `c` (`AloneInCall`), so the
abstract queue is the concrete one, followed by the caller itself between its unlock and its switch; one lemma per
call shows which step of `CondVar` it is, and `SleepQueueThroughSched` that the scheduler's steps do not show.

`UthreadPreemptProofs` proves the assertions of the clock interrupt for any number of uthreads, LWPs and any depth
of nesting: the inductive invariant fixes, for every place where a uthread may have been switched away, its counter,
the mask saved in its context and its signal frame. `UthreadAllocProofs` follows the search: `Seen` is the set of the
slots it has passed over, none of which was free at the locking, and which is all of them at the end of the second
pass. `UthreadQueueProofs` proves that the rings hold exactly the sequences, for any number of queues and uthreads,
from the position of every node on its ring (`At`); that no link leads out of the rings (`QueueTypeCorrect`) needs that
shape, too, for a link is followed without being checked.

`UthreadLifeProofs` treats the lifecycle, whose code does break the scheduler's rules in one place: a detached
uthread that exits unlocks its own `ut_pmut` while it is on its stack (the finding of `life_stack`). The proofs follow
it there. `LifeInv` holds in every reachable state, for every program. It consists of

- `PlacesInv`: what each place in the code says of the uthread there - who is a zombie, who is the reaper, how many
  joiners there are; `QueueOfOthers` and `DetachedInv`: the reaper is not on the reap queue, and nobody waits for the
  exit of a detached uthread; `FieldsInv`, the types;
- and, while the process runs, `IInv`, `MInv` and `HeldInv`: who has `reap_cond`'s mutex; that an exited uthread has its
  own `ut_pmut` up to its last switch or, if it reaps itself, up to the unlock in `make_reapable`; and that from then on
  it asks its LWP for nothing. The last point is why `IInv` survives even the destruction of a uthread whose LWP has not
  done with it: the LWP has left the stack and touches neither the uthread nor its queue any more. An unlock that fails
  its check ends the process, and of what follows only the rest is claimed.

`LifeKeepsOrder` draws the conclusion for the whole program: as long as the process runs, all that the scheduler and
the mutexes promise by themselves holds of it. `FreedOnlyByItself` says that only the reaper, and only with a uthread
that has reaped itself, can free a stack in use; so in a process where none does, none is freed (`StacksKept`, of the
form `LifeSpec /\ []NoneReapsItself => []StackKept`: the only theorem with a condition on the behaviour). On `LifeInv`
rest further

- `OwnedInv`: who is to unlock `reap_mtx` owns it (`ReapMtxOwned`), the half of the comment in `make_reapable` that is
  true for every program; the other half, on `ut_pmut`, is the finding of `life_locked`;
- `SleepInv`: between its look at the empty reap queue and its sleep the reaper has first `reap_mtx` and then
  `reap_cond`'s mutex; who queues a zombie has the first, and who signals needs the second (`SignalsReachReaper`);
- `TargetsInv`: who has claimed whom, and where each claimed zombie is (`ReapQueueIsSound`, `ZombiesAccounted`). A
  uthread that reaps itself is in nobody's hands: that a detached uthread was claimed keeps joiners off it;
- `JoinInv`: a joiner is on its target's queue only and is woken by its target only, which the reaper does not get
  before the joiner hands it over (`JoinersFindZombies`).

The theorems of the last two need `SingleClaim = TRUE`, for a program that joins or detaches a uthread twice can break
them: the error checks do not stop it (the finding of `life_twice`).

All proofs rest on the named assumptions on constants only: `SchedAssumption`, `MtxAssumption`, `LifeAssumption`,
`CondAssumption`, `PreemptAssumption`, `AllocAssumption`, `QueueAssumption`, and `SingleClaim = TRUE` where just said.

**Only model-checked**: liveness (`ClaimedDestroyed`, `JoinsReturn`, `ProcessEnds`, `BroadcastEnds`, `WokenReturn`, `LockersServed`,
`RunnableRuns`, `AllocEnds`), which is out of the prover's reach. Every invariant and action property of a passing run is stated by a
theorem. The findings are counterexamples of TLC.

## 6. Not modelled

Registers and stacks as memory, `ut_errno`, the value passed through `ut_exit`, the printed messages, the iteration
macros of `list.h` (nothing uses them), the test programs and the build files. The initialisation before the first
LWP runs (`uthread_start`, `uthread_sched_init`, `reaper_init`, `create_first_thr`) is sequential and is the initial
state of the models. Calls with an id out of range (`ESRCH`) change nothing and are left out. `uthread_create`
accepts any `prio`; the model has the valid ones, as an invalid one indexes `runq_table` out of bounds.
