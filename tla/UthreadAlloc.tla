---------------------------- MODULE UthreadAlloc ----------------------------
(***************************************************************************)
(* The allocation of slots in uthread.c: uthread_alloc, which looks for a  *)
(* free slot under uthreads_mtx, and uthread_create, which uses the slot.  *)
(* The other modules take both in one step; here creators interleave, and  *)
(* the reaper frees slots without uthreads_mtx.  What a uthread does       *)
(* besides, running, waiting or being runnable, is one state, ACTIVE.      *)
(***************************************************************************)
EXTENDS Integers, FiniteSets

CONSTANTS
  UTH_MAX_UTHREADS, \* the number of slots
  Creators          \* bound: the slots whose uthreads call uthread_create

Ids == 0..(UTH_MAX_UTHREADS - 1)
FirstId == 0
ReaperId == 1

ASSUME AllocAssumption ==
  /\ UTH_MAX_UTHREADS \in Nat /\ UTH_MAX_UTHREADS > ReaperId
  /\ Creators \subseteq Ids \ {ReaperId}

VARIABLES
  ut_state,     \* uthread_t.ut_state
  PrevID,       \* the static variable of uthread_alloc
  uthreads_mtx, \* the creator that holds it, or -1
  pc,           \* where a uthread is, see Pcs
  start, end, i, \* its local variables of uthread_alloc
  tid,          \* its local variable of uthread_create
  panic,        \* PANIC has aborted the process
  freeAtLock    \* history: the slots free when it locked uthreads_mtx

localVars == <<start, end, i, tid, freeAtLock>>
allocVars == <<ut_state, PrevID, uthreads_mtx, pc, localVars, panic>>

States == {"NO_STATE", "TRANSITION", "ACTIVE", "ZOMBIE"}

\* lock: has read PrevID; scan: in the loop, with i to look at; mark: has
\* found uthreads[i] free; return: has unlocked uthreads_mtx;
\* stack: uthread_alloc has returned; start: about to call
\* uthread_startonrunq
Pcs == {"program", "lock", "scan", "mark", "return", "stack", "start"}

Free == {s \in Ids : ut_state[s] = "NO_STATE"}

\* create_first_thr has used slot 0 for the first uthread, without
\* uthread_alloc, and let it allocate slot 1 for the reaper.
AllocInit ==
  /\ ut_state = [s \in Ids |-> IF s \in {FirstId, ReaperId} THEN "ACTIVE"
                                                            ELSE "NO_STATE"]
  /\ PrevID = ReaperId
  /\ uthreads_mtx = -1
  /\ pc = [s \in Ids |-> "program"]
  /\ start = [s \in Ids |-> 0] /\ end = [s \in Ids |-> 0]
  /\ i = [s \in Ids |-> 0] /\ tid = [s \in Ids |-> -1]
  /\ panic = FALSE
  /\ freeAtLock = [s \in Ids |-> {}]

-----------------------------------------------------------------------------

At(t, where) == ut_state[t] = "ACTIVE" /\ pc[t] = where
Goes(t, where) == pc' = [pc EXCEPT ![t] = where]

\* The local variables of uthread_alloc are gone when it has returned (here
\* when it has used them last).
Forgets(t) ==
  /\ start' = [start EXCEPT ![t] = 0] /\ end' = [end EXCEPT ![t] = 0]
  /\ i' = [i EXCEPT ![t] = 0]
  /\ freeAtLock' = [freeAtLock EXCEPT ![t] = {}]

\* uthread_alloc reads PrevID before it locks.
AllocCall(t) ==
  /\ At(t, "program")
  /\ start' = [start EXCEPT ![t] =
                 IF PrevID + 1 >= UTH_MAX_UTHREADS THEN 0 ELSE PrevID + 1]
  /\ end' = [end EXCEPT ![t] = UTH_MAX_UTHREADS]
  /\ Goes(t, "lock")
  /\ UNCHANGED <<ut_state, PrevID, uthreads_mtx, i, tid, panic, freeAtLock>>

\* Wrong: nobody is kept out.
AllocLock_NotLocked(t) ==
  /\ At(t, "lock")
  /\ i' = [i EXCEPT ![t] = start[t]]
  /\ freeAtLock' = [freeAtLock EXCEPT ![t] = Free]
  /\ Goes(t, "scan")
  /\ UNCHANGED <<ut_state, PrevID, uthreads_mtx, start, end, tid, panic>>

AllocLock(t) ==
  /\ At(t, "lock")
  /\ uthreads_mtx = -1
  /\ uthreads_mtx' = t
  /\ i' = [i EXCEPT ![t] = start[t]]
  /\ freeAtLock' = [freeAtLock EXCEPT ![t] = Free]
  /\ Goes(t, "scan")
  /\ UNCHANGED <<ut_state, PrevID, start, end, tid, panic>>

\* the test of one slot
AllocScan(t) ==
  /\ At(t, "scan")
  /\ i[t] < end[t]
  /\ IF i[t] \in Free
     THEN Goes(t, "mark") /\ UNCHANGED i
     ELSE i' = [i EXCEPT ![t] = @ + 1] /\ UNCHANGED pc
  /\ UNCHANGED <<ut_state, PrevID, uthreads_mtx, start, end, tid, panic,
                 freeAtLock>>

AllocMark(t) ==
  /\ At(t, "mark")
  /\ ut_state' = [ut_state EXCEPT ![i[t]] = "TRANSITION"]
  /\ PrevID' = i[t]
  /\ uthreads_mtx' = -1
  /\ Goes(t, "return")
  /\ Forgets(t)
  /\ UNCHANGED <<tid, panic>>

\* Wrong: start is reset before end is set.
AllocWrap_StartFirst(t) ==
  /\ At(t, "scan")
  /\ i[t] >= end[t] /\ start[t] > 0
  /\ start' = [start EXCEPT ![t] = 0]
  /\ end' = [end EXCEPT ![t] = 0]
  /\ i' = [i EXCEPT ![t] = 0]
  /\ UNCHANGED <<ut_state, PrevID, uthreads_mtx, pc, tid, panic, freeAtLock>>

\* Wrong: start keeps its value.
AllocWrap_StartKept(t) ==
  /\ At(t, "scan")
  /\ i[t] >= end[t] /\ start[t] > 0
  /\ end' = [end EXCEPT ![t] = start[t]]
  /\ i' = [i EXCEPT ![t] = start[t]]
  /\ UNCHANGED <<ut_state, PrevID, uthreads_mtx, pc, start, tid, panic,
                 freeAtLock>>

\* The slots before start come last.
AllocWrap(t) ==
  /\ At(t, "scan")
  /\ i[t] >= end[t] /\ start[t] > 0
  /\ end' = [end EXCEPT ![t] = start[t]]
  /\ start' = [start EXCEPT ![t] = 0]
  /\ i' = [i EXCEPT ![t] = 0]
  /\ UNCHANGED <<ut_state, PrevID, uthreads_mtx, pc, tid, panic, freeAtLock>>

\* No slot: uthread_alloc returns -1 and uthread_create EAGAIN.
AllocFail(t) ==
  /\ At(t, "scan")
  /\ i[t] >= end[t] /\ start[t] = 0
  /\ uthreads_mtx' = -1
  /\ tid' = [tid EXCEPT ![t] = -1]
  /\ Goes(t, "program")
  /\ Forgets(t)
  /\ UNCHANGED <<ut_state, PrevID, panic>>

\* return (PrevID), after the unlocking
AllocReturn(t) ==
  /\ At(t, "return")
  /\ tid' = [tid EXCEPT ![t] = PrevID]
  /\ Goes(t, "stack")
  /\ UNCHANGED <<ut_state, PrevID, uthreads_mtx, start, end, i, panic,
                 freeAtLock>>

\* alloc_stack fails, uthread_create returns EAGAIN
CreateNoStack(t) ==
  /\ At(t, "stack")
  /\ tid' = [tid EXCEPT ![t] = -1]
  /\ Goes(t, "program")
  /\ UNCHANGED <<ut_state, PrevID, uthreads_mtx, start, end, i, panic,
                 freeAtLock>>

\* uthread_create from alloc_stack on: the fields of slot tid are set up
CreateSetUp(t) ==
  /\ At(t, "stack")
  /\ Goes(t, "start")
  /\ UNCHANGED <<ut_state, PrevID, uthreads_mtx, localVars, panic>>

\* uthread_startonrunq(tid)
CreateStart(t) ==
  /\ At(t, "start")
  /\ IF ut_state[tid[t]] = "TRANSITION"
     THEN ut_state' = [ut_state EXCEPT ![tid[t]] = "ACTIVE"] /\ UNCHANGED panic
     ELSE panic' = TRUE /\ UNCHANGED ut_state
  /\ tid' = [tid EXCEPT ![t] = -1]
  /\ Goes(t, "program")
  /\ UNCHANGED <<PrevID, uthreads_mtx, start, end, i, freeAtLock>>

\* uthread_exit
Exit(t) ==
  /\ t # ReaperId
  /\ At(t, "program")
  /\ ut_state' = [ut_state EXCEPT ![t] = "ZOMBIE"]
  /\ UNCHANGED <<PrevID, uthreads_mtx, pc, localVars, panic>>

\* uthread_destroy, by the reaper
Reclaim(s) ==
  /\ ut_state[s] = "ZOMBIE"
  /\ ut_state' = [ut_state EXCEPT ![s] = "NO_STATE"]
  /\ UNCHANGED <<PrevID, uthreads_mtx, pc, localVars, panic>>

\* what a caller of uthread_alloc does until it returns
Allocates(t) ==
  AllocScan(t) \/ AllocMark(t) \/ AllocWrap(t) \/ AllocFail(t)

AllocNext ==
  \/ panic /\ UNCHANGED allocVars
  \/ /\ ~panic
     /\ \/ \E t \in Creators :
             \/ AllocCall(t) \/ AllocLock(t) \/ Allocates(t) \/ AllocReturn(t)
             \/ CreateNoStack(t) \/ CreateSetUp(t) \/ CreateStart(t)
        \/ \E s \in Ids : Exit(s) \/ Reclaim(s)

AllocSpec == AllocInit /\ [][AllocNext]_allocVars

\* A creator in uthread_alloc goes on, and gets uthreads_mtx if it is free
\* again and again.
AllocFairSpec ==
  /\ AllocSpec
  /\ \A t \in Creators : /\ WF_allocVars(~panic /\ Allocates(t))
                         /\ SF_allocVars(~panic /\ AllocLock(t))

-----------------------------------------------------------------------------
(* Properties.                                                             *)

\* The state of every slot, the static variable and the local variables have
\* their types; the loop stays within the array, and who is in it holds
\* uthreads_mtx.
AllocTypeOK ==
  /\ ut_state \in [Ids -> States]
  /\ PrevID \in Ids
  /\ uthreads_mtx \in Ids \cup {-1}
  /\ pc \in [Ids -> Pcs]
  /\ start \in [Ids -> Ids]
  /\ end \in [Ids -> 0..UTH_MAX_UTHREADS]
  /\ i \in [Ids -> 0..UTH_MAX_UTHREADS]
  /\ tid \in [Ids -> Ids \cup {-1}]
  /\ panic \in BOOLEAN
  /\ freeAtLock \in [Ids -> SUBSET Ids]
  /\ \A t \in Ids : At(t, "scan") \/ At(t, "mark") => uthreads_mtx = t

\* No slot is marked twice: the slot that a creator is about to mark is free
\* still.  Other creators are kept out by uthreads_mtx; the reaper, which does
\* not lock it, only makes slots free, and what uthread_startonrunq does to a
\* wrong slot is a PANIC.
MarkIsExclusive ==
  \A t \in Ids : At(t, "mark") => i[t] \in Free

\* uthread_create returns EAGAIN for want of a slot only if every slot was
\* taken when it locked uthreads_mtx, though its start is from before.
EagainIsHonest ==
  [][\A t \in Creators : At(t, "scan") /\ pc'[t] = "program" =>
       freeAtLock[t] = {}]_allocVars

\* uthread_alloc comes to an end.
AllocEnds ==
  \A t \in Creators : (pc[t] = "lock") ~> (panic \/ pc[t] \in {"return", "program"})

\* uthread_alloc "find[s] a free uthread_t, returns the id": two creators are
\* never given the same id.
DistinctIds ==
  \A t, u \in Ids :
    {pc[t], pc[u]} \subseteq {"stack", "start"} /\ tid[t] = tid[u] => t = u

=============================================================================
