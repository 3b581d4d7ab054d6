------------------------- MODULE UthreadAllocProofs -------------------------
(***************************************************************************)
(* uthread_alloc marks no slot twice, and gives up only when no slot was   *)
(* free, for any number of slots and of creators.                          *)
(***************************************************************************)
EXTENDS UthreadAlloc, TLAPS

\* The slots that t has looked at since it locked uthreads_mtx: before the
\* wrap those from start on, and then those from end on and from 0 on.
Seen(t) ==
  {s \in Ids : IF start[t] > 0 THEN start[t] <= s /\ s < i[t]
                               ELSE end[t] <= s \/ s < i[t]}

\* Where the search of t is.  No slot that was free at the locking has been
\* taken since, and none was among those that t has passed over.
Searching(t) ==
  /\ start[t] <= i[t] /\ i[t] <= end[t]
  /\ start[t] > 0 => end[t] = UTH_MAX_UTHREADS
  /\ freeAtLock[t] \subseteq Free
  /\ freeAtLock[t] \cap Seen(t) = {}

\* A slot that is not in use has no caller in it, so that it wakes up in the
\* program; who has returned from uthread_alloc has the id of some slot.
CallersOK ==
  \A t \in Ids :
    /\ ut_state[t] # "ACTIVE" => pc[t] = "program"
    /\ pc[t] = "lock" => end[t] = UTH_MAX_UTHREADS
    /\ pc[t] \in {"stack", "start"} => tid[t] \in Ids
    /\ At(t, "scan") => Searching(t)

AInv == AllocTypeOK /\ MarkIsExclusive /\ CallersOK

-----------------------------------------------------------------------------

\* The bounds of the slots, and that -1 is none.
LEMMA IdsBounds ==
  /\ UTH_MAX_UTHREADS \in Nat /\ UTH_MAX_UTHREADS > 1
  /\ \A s \in Ids : s \in Int /\ 0 <= s /\ s < UTH_MAX_UTHREADS
  /\ \A s \in Int : 0 <= s /\ s < UTH_MAX_UTHREADS => s \in Ids
  /\ 0 \in Ids /\ -1 \notin Ids /\ Creators \subseteq Ids
BY AllocAssumption DEF Ids, ReaperId

\* AInv holds when create_first_thr is done.
LEMMA InitAInv == AllocInit => AInv
<1> SUFFICES ASSUME AllocInit PROVE AInv
  OBVIOUS
<1>1. 0 \in Ids /\ ReaperId \in Ids /\ 0 \in 0..UTH_MAX_UTHREADS
  BY AllocAssumption DEF Ids, ReaperId
<1>2. \A t \in Ids : pc[t] = "program" /\ tid[t] = -1
  BY DEF AllocInit
<1>3. ut_state \in [Ids -> States]
  BY DEF AllocInit, States
<1>4. AllocTypeOK
  BY <1>1, <1>2, <1>3 DEF AllocInit, AllocTypeOK, At, Pcs
<1> QED BY <1>2, <1>4 DEF AInv, MarkIsExclusive, CallersOK, At

\* A step that leaves the search of t alone and takes no free slot.
LEMMA SearchKept ==
  ASSUME NEW t \in Ids, Searching(t), Free \subseteq Free',
         start'[t] = start[t], end'[t] = end[t], i'[t] = i[t],
         freeAtLock'[t] = freeAtLock[t]
  PROVE  Searching(t)'
BY DEF Searching, Seen

\* uthread_alloc up to the locking.
LEMMA CallStep ==
  ASSUME AInv, NEW t \in Creators, AllocCall(t)
  PROVE  AInv'
<1> USE IdsBounds
<1>1. t \in Ids /\ At(t, "program") /\ pc' = [pc EXCEPT ![t] = "lock"]
      /\ PrevID \in Ids /\ Free' = Free
  BY DEF AllocCall, Goes, AInv, AllocTypeOK, Free
<1>2. AllocTypeOK'
  BY <1>1 DEF AInv, AllocTypeOK, AllocCall, At, Pcs
<1>3. MarkIsExclusive'
  BY <1>1 DEF AInv, AllocTypeOK, MarkIsExclusive, AllocCall, At
<1>4. CallersOK'
  <2> SUFFICES ASSUME NEW u \in Ids
               PROVE  /\ ut_state'[u] # "ACTIVE" => pc'[u] = "program"
                      /\ pc'[u] = "lock" => end'[u] = UTH_MAX_UTHREADS
                      /\ pc'[u] \in {"stack", "start"} => tid'[u] \in Ids
                      /\ At(u, "scan")' => Searching(u)'
    BY DEF CallersOK
  <2>1. At(u, "scan")' => Searching(u)'
    <3>1. At(u, "scan")' => u # t /\ At(u, "scan") /\ Searching(u)
      BY <1>1 DEF AInv, AllocTypeOK, CallersOK, AllocCall, At
    <3> QED BY <1>1, <3>1, SearchKept DEF AllocCall, AInv, AllocTypeOK
  <2> QED BY <1>1, <2>1 DEF AInv, AllocTypeOK, CallersOK, AllocCall, At
<1> QED BY <1>2, <1>3, <1>4 DEF AInv

\* Locking uthreads_mtx: nobody else searches or marks.
LEMMA LockStep ==
  ASSUME AInv, NEW t \in Creators, AllocLock(t)
  PROVE  AInv'
<1> USE IdsBounds
<1>1. /\ t \in Ids /\ At(t, "lock") /\ pc' = [pc EXCEPT ![t] = "scan"]
      /\ Free' = Free /\ start[t] \in Ids /\ end[t] = UTH_MAX_UTHREADS
  BY DEF AllocLock, Goes, AInv, AllocTypeOK, CallersOK, Free, At
<1>2. \A u \in Ids : ~At(u, "scan") /\ ~At(u, "mark")
  BY <1>1 DEF AInv, AllocTypeOK, AllocLock
<1>3. AllocTypeOK'
  <2>1. freeAtLock' \in [Ids -> SUBSET Ids] /\ uthreads_mtx' = t
    BY <1>1 DEF AInv, AllocTypeOK, AllocLock, Free
  <2>2. i' \in [Ids -> 0..UTH_MAX_UTHREADS]
    <3>1. start[t] \in 0..UTH_MAX_UTHREADS
      BY <1>1
    <3> QED BY <1>1, <3>1 DEF AInv, AllocTypeOK, AllocLock
  <2>3. \A u \in Ids : At(u, "scan")' \/ At(u, "mark")' => u = t
    BY <1>1, <1>2 DEF AInv, AllocTypeOK, AllocLock, At
  <2> QED BY <1>1, <2>1, <2>2, <2>3 DEF AInv, AllocTypeOK, AllocLock, Pcs
<1>4. MarkIsExclusive'
  BY <1>1, <1>2 DEF AInv, AllocTypeOK, MarkIsExclusive, AllocLock, At
<1>5. Searching(t)'
  <2>1. /\ start'[t] = start[t] /\ i'[t] = start[t] /\ end'[t] = end[t]
        /\ freeAtLock'[t] = Free
    BY <1>1 DEF AllocLock, AInv, AllocTypeOK
  <2>2. Seen(t)' = {}
    BY <1>1, <2>1 DEF Seen
  <2> QED BY <1>1, <2>1, <2>2 DEF Searching
<1>6. CallersOK'
  BY <1>1, <1>2, <1>5 DEF AInv, AllocTypeOK, CallersOK, AllocLock, At
<1> QED BY <1>3, <1>4, <1>6 DEF AInv

\* One turn of the loop: a slot that is passed over is not free, and was not
\* at the locking.
LEMMA ScanStep ==
  ASSUME AInv, NEW t \in Creators, AllocScan(t)
  PROVE  AInv'
<1> USE IdsBounds
<1>1. /\ t \in Ids /\ At(t, "scan") /\ Searching(t) /\ Free' = Free
      /\ i[t] \in 0..UTH_MAX_UTHREADS /\ end[t] \in 0..UTH_MAX_UTHREADS
      /\ start[t] \in Ids /\ i[t] < end[t]
  BY DEF AllocScan, AInv, AllocTypeOK, CallersOK, Free
<1>2. \A u \in Ids : u # t => ~At(u, "scan") /\ ~At(u, "mark")
  BY <1>1 DEF AInv, AllocTypeOK
<1>3. CASE i[t] \in Free
  <2>1. pc' = [pc EXCEPT ![t] = "mark"] /\ i' = i
    BY <1>3 DEF AllocScan, Goes
  <2>2. AllocTypeOK'
    BY <1>1, <2>1 DEF AInv, AllocTypeOK, AllocScan, At, Pcs
  <2>3. MarkIsExclusive'
    BY <1>1, <1>2, <1>3, <2>1 DEF AInv, AllocTypeOK, MarkIsExclusive, AllocScan, At
  <2>4. CallersOK'
    BY <1>1, <1>2, <2>1 DEF AInv, AllocTypeOK, CallersOK, AllocScan, At
  <2> QED BY <2>2, <2>3, <2>4 DEF AInv
<1>4. CASE i[t] \notin Free
  <2>1. i' = [i EXCEPT ![t] = @ + 1] /\ pc' = pc
    BY <1>4 DEF AllocScan
  <2>2. i'[t] = i[t] + 1 /\ i' \in [Ids -> 0..UTH_MAX_UTHREADS]
    BY <1>1, <2>1 DEF AInv, AllocTypeOK
  <2>3. AllocTypeOK'
    BY <2>1, <2>2 DEF AInv, AllocTypeOK, AllocScan, At
  <2>4. MarkIsExclusive'
    BY <1>1, <1>2, <2>1 DEF AInv, AllocTypeOK, MarkIsExclusive, AllocScan, At
  <2>5. Searching(t)'
    <3>1. /\ start'[t] = start[t] /\ end'[t] = end[t]
          /\ freeAtLock'[t] = freeAtLock[t]
      BY DEF AllocScan
    <3>2. \A s \in Seen(t)' : s \in Seen(t) \/ s = i[t]
      BY <1>1, <2>2, <3>1 DEF Seen
    <3> QED BY <1>1, <1>4, <2>2, <3>1, <3>2 DEF Searching
  <2>6. CallersOK'
    BY <1>1, <1>2, <2>1, <2>5 DEF AInv, AllocTypeOK, CallersOK, AllocScan, At
  <2> QED BY <2>3, <2>4, <2>6 DEF AInv
<1> QED BY <1>3, <1>4

\* The local variables that a call leaves behind have their types, and those of
\* the other callers are untouched.
LEMMA ForgetsStep ==
  ASSUME AllocTypeOK, NEW t \in Ids, Forgets(t)
  PROVE  /\ start' \in [Ids -> Ids] /\ end' \in [Ids -> 0..UTH_MAX_UTHREADS]
         /\ i' \in [Ids -> 0..UTH_MAX_UTHREADS]
         /\ freeAtLock' \in [Ids -> SUBSET Ids]
         /\ \A u \in Ids \ {t} :
              /\ start'[u] = start[u] /\ end'[u] = end[u] /\ i'[u] = i[u]
              /\ freeAtLock'[u] = freeAtLock[u]
<1>1. 0 \in Ids /\ 0 \in 0..UTH_MAX_UTHREADS
  BY IdsBounds
<1> QED BY <1>1 DEF AllocTypeOK, Forgets

\* Taking the slot found: its uthread is in no call.
LEMMA MarkStep ==
  ASSUME AInv, NEW t \in Creators, AllocMark(t)
  PROVE  AInv'
<1> USE IdsBounds
<1>1. /\ t \in Ids /\ At(t, "mark") /\ i[t] \in Ids /\ ut_state[i[t]] = "NO_STATE"
      /\ pc' = [pc EXCEPT ![t] = "return"]
      /\ ut_state' = [ut_state EXCEPT ![i[t]] = "TRANSITION"]
  BY DEF AllocMark, Goes, AInv, AllocTypeOK, MarkIsExclusive, Free
<1>2. \A u \in Ids : ~At(u, "scan")' /\ ~At(u, "mark")'
  BY <1>1 DEF AInv, AllocTypeOK, At
<1>3. AllocTypeOK'
  <2>1. ut_state' \in [Ids -> States] /\ pc' \in [Ids -> Pcs] /\ PrevID' \in Ids
    BY <1>1 DEF AInv, AllocTypeOK, AllocMark, States, Pcs
  <2> QED BY <1>1, <1>2, <2>1, ForgetsStep DEF AInv, AllocTypeOK, AllocMark
<1>4. MarkIsExclusive'
  BY <1>2 DEF MarkIsExclusive
<1>5. t # i[t] /\ pc[i[t]] = "program"
  BY <1>1 DEF AInv, CallersOK, At
<1>6. \A u \in Ids : /\ ut_state'[u] # "ACTIVE" => ut_state[u] # "ACTIVE" \/ u = i[t]
                    /\ u # t => pc'[u] = pc[u]
  BY <1>1 DEF AInv, AllocTypeOK
<1>7. pc'[t] = "return" /\ tid' = tid /\ \A u \in Ids \ {t} : end'[u] = end[u]
  BY <1>1, ForgetsStep DEF AInv, AllocTypeOK, AllocMark
<1>8. CallersOK'
  BY <1>1, <1>2, <1>5, <1>6, <1>7 DEF AInv, CallersOK, At
<1> QED BY <1>3, <1>4, <1>8 DEF AInv

\* The second pass: what was passed over stays passed over.
LEMMA WrapStep ==
  ASSUME AInv, NEW t \in Creators, AllocWrap(t)
  PROVE  AInv'
<1> USE IdsBounds
<1>1. /\ t \in Ids /\ At(t, "scan") /\ Searching(t) /\ Free' = Free
      /\ i[t] \in 0..UTH_MAX_UTHREADS /\ end[t] \in 0..UTH_MAX_UTHREADS
      /\ start[t] \in Ids /\ start[t] > 0 /\ i[t] >= end[t] /\ pc' = pc
  BY DEF AllocWrap, AInv, AllocTypeOK, CallersOK, Free
<1>2. \A u \in Ids : u # t => ~At(u, "scan") /\ ~At(u, "mark")
  BY <1>1 DEF AInv, AllocTypeOK
<1>3. /\ start'[t] = 0 /\ end'[t] = start[t] /\ i'[t] = 0
      /\ start' \in [Ids -> Ids] /\ end' \in [Ids -> 0..UTH_MAX_UTHREADS]
      /\ i' \in [Ids -> 0..UTH_MAX_UTHREADS]
  BY <1>1 DEF AllocWrap, AInv, AllocTypeOK
<1>4. AllocTypeOK'
  BY <1>1, <1>3 DEF AInv, AllocTypeOK, AllocWrap, At
<1>5. MarkIsExclusive'
  BY <1>1, <1>2 DEF AInv, AllocTypeOK, MarkIsExclusive, AllocWrap, At
<1>6. Searching(t)'
  <2>1. freeAtLock'[t] = freeAtLock[t]
    BY DEF AllocWrap
  <2>2. \A s \in Seen(t)' : s \in Seen(t)
    BY <1>1, <1>3 DEF Seen, Searching
  <2> QED BY <1>1, <1>3, <2>1, <2>2 DEF Searching
<1>7. CallersOK'
  BY <1>1, <1>2, <1>6 DEF AInv, AllocTypeOK, CallersOK, AllocWrap, At
<1> QED BY <1>4, <1>5, <1>7 DEF AInv

\* The steps of a caller after it has given up uthreads_mtx, or as it does:
\* no state changes, and no search but the one that ends.
LEMMA ReturnStep ==
  ASSUME AInv, NEW t \in Creators,
         \/ AllocFail(t) \/ AllocReturn(t) \/ CreateNoStack(t) \/ CreateSetUp(t)
  PROVE  AInv'
<1> USE IdsBounds
<1>1. /\ t \in Ids /\ ut_state[t] = "ACTIVE" /\ ut_state' = ut_state /\ Free' = Free
      /\ PrevID' = PrevID /\ panic' = panic
  BY DEF AllocFail, AllocReturn, CreateNoStack, CreateSetUp, At, Free, localVars
<1>2. /\ start' \in [Ids -> Ids] /\ end' \in [Ids -> 0..UTH_MAX_UTHREADS]
       /\ i' \in [Ids -> 0..UTH_MAX_UTHREADS]
       /\ freeAtLock' \in [Ids -> SUBSET Ids]
       /\ \A u \in Ids \ {t} :
            /\ start'[u] = start[u] /\ end'[u] = end[u] /\ i'[u] = i[u]
            /\ freeAtLock'[u] = freeAtLock[u]
  <2>1. CASE AllocFail(t)
    BY <1>1, <2>1, ForgetsStep DEF AllocFail, AInv
  <2>2. CASE AllocReturn(t) \/ CreateNoStack(t) \/ CreateSetUp(t)
    BY <2>2 DEF AllocReturn, CreateNoStack, CreateSetUp, localVars, AInv, AllocTypeOK
  <2> QED BY <2>1, <2>2
<1>3. /\ pc' \in [Ids -> Pcs] /\ \A u \in Ids \ {t} : pc'[u] = pc[u]
      /\ pc'[t] \in {"program", "stack", "start"}
  BY <1>1 DEF AInv, AllocTypeOK, AllocFail, AllocReturn, CreateNoStack,
              CreateSetUp, Goes, Pcs
<1>4. /\ tid' \in [Ids -> Ids \cup {-1}] /\ \A u \in Ids \ {t} : tid'[u] = tid[u]
      /\ pc'[t] \in {"stack", "start"} => tid'[t] \in Ids
  BY <1>1 DEF AInv, AllocTypeOK, CallersOK, AllocFail, AllocReturn, CreateNoStack,
              CreateSetUp, Goes, At, localVars
<1>5. \/ uthreads_mtx' = uthreads_mtx
      \/ uthreads_mtx' = -1 /\ \A u \in Ids \ {t} : ~At(u, "scan") /\ ~At(u, "mark")
  BY <1>1 DEF AInv, AllocTypeOK, AllocFail, AllocReturn, CreateNoStack, CreateSetUp
<1>6. uthreads_mtx' \in Ids \cup {-1}
  BY <1>5 DEF AInv, AllocTypeOK
<1>7. \A u \in Ids : \A where \in {"scan", "mark"} :
         At(u, where)' => u # t /\ At(u, where)
  BY <1>1, <1>3 DEF At
<1>8. AllocTypeOK'
  BY <1>1, <1>2, <1>3, <1>4, <1>5, <1>6, <1>7 DEF AInv, AllocTypeOK
<1>9. MarkIsExclusive'
  BY <1>1, <1>2, <1>7 DEF AInv, MarkIsExclusive
<1>10. CallersOK'
  BY <1>1, <1>2, <1>3, <1>4, <1>7, SearchKept DEF AInv, CallersOK
<1> QED BY <1>8, <1>9, <1>10 DEF AInv

\* The steps that change the state of one slot and do not take a free one:
\* uthread_startonrunq, uthread_exit and uthread_destroy.
LEMMA StateStep ==
  ASSUME AInv,
         \/ \E t \in Creators : CreateStart(t)
         \/ \E s \in Ids : Exit(s) \/ Reclaim(s)
  PROVE  AInv'
<1> USE IdsBounds
<1>1. /\ start' = start /\ end' = end /\ i' = i /\ freeAtLock' = freeAtLock
      /\ PrevID' = PrevID /\ uthreads_mtx' = uthreads_mtx
      /\ tid' \in [Ids -> Ids \cup {-1}]
      /\ \A u \in Ids : pc'[u] # "program" => tid'[u] = tid[u]
  BY DEF CreateStart, Exit, Reclaim, Goes, localVars, AInv, AllocTypeOK
<1>2. panic' \in BOOLEAN
  BY DEF AInv, AllocTypeOK, CreateStart, Exit, Reclaim
<1>3. pc' \in [Ids -> Pcs] /\ \A u \in Ids : pc'[u] \in {pc[u], "program"}
  BY DEF AInv, AllocTypeOK, CreateStart, Exit, Reclaim, Goes, Pcs
<1>4. /\ ut_state' \in [Ids -> States]
      /\ \A u \in Ids : /\ ut_state[u] = "NO_STATE" => ut_state'[u] = "NO_STATE"
                        /\ ut_state[u] # "ACTIVE" => pc'[u] = "program"
                        /\ ut_state'[u] # "ACTIVE" => pc'[u] = "program"
  <2>1. CASE \E t \in Creators : CreateStart(t)
    <3> PICK t \in Creators : CreateStart(t)
      BY <2>1
    <3>1. /\ t \in Ids /\ tid[t] \in Ids /\ pc' = [pc EXCEPT ![t] = "program"]
          /\ ut_state' \in {ut_state, [ut_state EXCEPT ![tid[t]] = "ACTIVE"]}
          /\ ut_state[tid[t]] = "NO_STATE" => ut_state' = ut_state
      BY DEF CreateStart, Goes, At, AInv, CallersOK
    <3>2. \A u \in Ids : pc'[u] \in {pc[u], "program"}
      BY <1>3
    <3>3. \A u \in Ids : ut_state'[u] = ut_state[u] \/ ut_state'[u] = "ACTIVE"
      BY <3>1 DEF AInv, AllocTypeOK
    <3>4. \A u \in Ids : ut_state[u] = "NO_STATE" => ut_state'[u] = "NO_STATE"
      BY <3>1 DEF AInv, AllocTypeOK
    <3>5. ut_state' \in [Ids -> States]
      BY <3>1 DEF AInv, AllocTypeOK, States
    <3> QED BY <3>2, <3>3, <3>4, <3>5 DEF AInv, CallersOK
  <2>2. CASE \E s \in Ids : Exit(s) \/ Reclaim(s)
    <3> PICK s \in Ids : Exit(s) \/ Reclaim(s)
      BY <2>2
    <3>1. /\ pc' = pc /\ pc[s] = "program" /\ ut_state[s] # "NO_STATE"
          /\ \/ ut_state' = [ut_state EXCEPT ![s] = "ZOMBIE"]
             \/ ut_state' = [ut_state EXCEPT ![s] = "NO_STATE"]
      BY DEF Exit, Reclaim, At, AInv, CallersOK
    <3> QED BY <3>1 DEF AInv, AllocTypeOK, CallersOK, States
  <2> QED BY <2>1, <2>2
<1>5. Free \subseteq Free'
  BY <1>4 DEF Free
<1>6. \A u \in Ids : \A where \in Pcs \ {"program"} : At(u, where)' => At(u, where)
  BY <1>3, <1>4 DEF At, Pcs, AInv, AllocTypeOK, CallersOK
<1>7. AllocTypeOK'
  BY <1>1, <1>2, <1>3, <1>4, <1>6 DEF AInv, AllocTypeOK, Pcs
<1>8. MarkIsExclusive'
  BY <1>1, <1>5, <1>6 DEF AInv, MarkIsExclusive, Pcs
<1>9. CallersOK'
  BY <1>1, <1>3, <1>4, <1>5, <1>6, SearchKept DEF AInv, CallersOK, Pcs
<1> QED BY <1>7, <1>8, <1>9 DEF AInv

\* Every step keeps AInv.
LEMMA NextAInv == AInv /\ [AllocNext]_allocVars => AInv'
<1> SUFFICES ASSUME AInv, [AllocNext]_allocVars PROVE AInv'
  OBVIOUS
<1>1. CASE UNCHANGED allocVars
  BY <1>1 DEF AInv, AllocTypeOK, MarkIsExclusive, CallersOK, Searching, Seen,
              At, Free, allocVars, localVars
<1>2. CASE \E t \in Creators :
             \/ AllocCall(t) \/ AllocLock(t) \/ Allocates(t) \/ AllocReturn(t)
             \/ CreateNoStack(t) \/ CreateSetUp(t)
  BY <1>2, CallStep, LockStep, ScanStep, MarkStep, WrapStep, ReturnStep
     DEF Allocates
<1>3. CASE (\E t \in Creators : CreateStart(t)) \/ (\E s \in Ids : Exit(s) \/ Reclaim(s))
  BY <1>3, StateStep
<1> QED BY <1>1, <1>2, <1>3 DEF AllocNext

\* The inductive invariant of the allocation holds in every reachable state.
THEOREM AllocInvariance == AllocSpec => []AInv
BY InitAInv, NextAInv, PTL DEF AllocSpec

\* The local variables of uthread_alloc stay within the array, and who is in
\* its loop holds uthreads_mtx.
THEOREM AllocTypeCorrect == AllocSpec => []AllocTypeOK
<1>1. AInv => AllocTypeOK
  BY DEF AInv
<1> QED BY <1>1, AllocInvariance, PTL

\* The slot that uthread_alloc is about to mark is free still.
THEOREM MarksAreExclusive == AllocSpec => []MarkIsExclusive
<1>1. AInv => MarkIsExclusive
  BY DEF AInv
<1> QED BY <1>1, AllocInvariance, PTL

\* uthread_create returns EAGAIN for want of a slot only if there was none
\* when it locked uthreads_mtx: the two passes have seen every slot.
THEOREM EagainsAreHonest == AllocSpec => EagainIsHonest
<1>1. ASSUME AInv, [AllocNext]_allocVars
      PROVE  [\A t \in Creators : At(t, "scan") /\ pc'[t] = "program" =>
               freeAtLock[t] = {}]_allocVars
  <2> SUFFICES ASSUME AllocNext, NEW t \in Creators,
                      At(t, "scan"), pc'[t] = "program"
               PROVE  freeAtLock[t] = {}
    BY <1>1
  <2> USE IdsBounds
  <2>1. t \in Ids /\ Searching(t) /\ freeAtLock[t] \in SUBSET Ids
        /\ start[t] \in Ids /\ i[t] \in Int /\ end[t] \in Int
    BY <1>1 DEF AInv, CallersOK, AllocTypeOK
  <2>2. AllocFail(t)
    <3>1. pc[t] = "scan" /\ pc'[t] = "program" /\ pc \in [Ids -> Pcs]
      BY <1>1 DEF AInv, AllocTypeOK, At
    <3>2. ~(\E s \in Ids : Exit(s) \/ Reclaim(s))
      BY <3>1 DEF Exit, Reclaim, localVars
    <3>3. \A u \in Creators : ~AllocCall(u) /\ ~AllocLock(u)
      BY <3>1 DEF AllocCall, AllocLock, At, Goes
    <3>4. \A u \in Creators :
            ~AllocScan(u) /\ ~AllocMark(u) /\ ~AllocWrap(u) /\ ~AllocReturn(u)
      BY <3>1 DEF AllocScan, AllocMark, AllocWrap, AllocReturn, At, Goes
    <3>5. \A u \in Creators :
            ~CreateNoStack(u) /\ ~CreateSetUp(u) /\ ~CreateStart(u)
      BY <3>1 DEF CreateNoStack, CreateSetUp, CreateStart, At, Goes
    <3>6. ~UNCHANGED allocVars
      BY <3>1 DEF allocVars, localVars
    <3>7. PICK u \in Creators : AllocFail(u)
      BY <3>2, <3>3, <3>4, <3>5, <3>6 DEF AllocNext, Allocates
    <3> QED BY <3>1, <3>7 DEF AllocFail, At, Goes
  <2>3. start[t] = 0 /\ i[t] >= end[t]
    BY <2>2 DEF AllocFail
  <2>4. Seen(t) = Ids
    BY <2>1, <2>3 DEF Seen
  <2> QED BY <2>1, <2>4 DEF Searching
<1> QED BY <1>1, AllocInvariance, PTL DEF AllocSpec, EagainIsHonest
=============================================================================
