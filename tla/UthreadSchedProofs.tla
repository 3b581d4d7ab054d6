------------------------- MODULE UthreadSchedProofs -------------------------
(***************************************************************************)
(* The safety properties of UthreadSched hold for any number of uthreads,  *)
(* LWPs, mutexes, condition variables and priorities.                      *)
(*                                                                         *)
(* None of the properties is inductive by itself: why a second LWP cannot  *)
(* resume a uthread that is still on its stack depends on the queue it is  *)
(* on, that on who holds the queue's POSIX mutex, and that on the requests *)
(* of the uthread_switch under way.  IInv says where a uthread is: on an   *)
(* LWP, on the run queue, on the queue of one object, in the hands of one  *)
(* waker, or nowhere.                                                      *)
(***************************************************************************)
EXTENDS UthreadSched, SequenceTheorems, FiniteSetTheorems, TLAPS

-----------------------------------------------------------------------------
(* Queues.                                                                 *)

\* Nothing is on the empty queue, and only on that.
LEMMA EmptyQueue ==
  /\ NoDup(<<>>)
  /\ \A t : ~Occurs(<<>>, t)
  /\ \A S : \A q \in Seq(S) : q # <<>> => \E t \in S : Occurs(q, t)
<1>1. \A S : \A q \in Seq(S) : q # <<>> => \E t \in S : Occurs(q, t)
  <2> SUFFICES ASSUME NEW S, NEW q \in Seq(S), q # <<>>
               PROVE  \E t \in S : Occurs(q, t)
    OBVIOUS
  <2>1. Len(q) \in Nat /\ Len(q) # 0 /\ q[1] \in S
    BY EmptySeq, LenProperties, ElementOfSeq
  <2> QED BY <2>1 DEF Occurs
<1> QED BY <1>1 DEF NoDup, Occurs

\* utqueue_enqueue adds one uthread and forgets none.
LEMMA EnqueueQueue ==
  ASSUME NEW S, NEW q \in Seq(S), NEW t \in S
  PROVE  /\ utqueue_enqueue(q, t) \in Seq(S)
         /\ utqueue_enqueue(q, t) # <<>>
         /\ \A u : Occurs(utqueue_enqueue(q, t), u) <=> Occurs(q, u) \/ u = t
         /\ NoDup(q) /\ ~Occurs(q, t) => NoDup(utqueue_enqueue(q, t))
<1> DEFINE r == utqueue_enqueue(q, t)
<1>1. /\ r \in Seq(S) /\ Len(r) = Len(q) + 1 /\ Len(q) \in Nat
      /\ \A i \in 1..Len(q) : r[i] = q[i]
      /\ r[Len(q) + 1] = t
  BY AppendProperties, LenProperties DEF utqueue_enqueue
<1>2. r # <<>>
  BY <1>1
<1>3. ASSUME NEW u PROVE Occurs(r, u) <=> Occurs(q, u) \/ u = t
  <2>1. Occurs(r, u) => Occurs(q, u) \/ u = t
    <3> SUFFICES ASSUME NEW i \in 1..Len(r), r[i] = u
                 PROVE  Occurs(q, u) \/ u = t
      BY DEF Occurs
    <3>1. i \in 1..Len(q) \/ i = Len(q) + 1
      BY <1>1
    <3> QED BY <1>1, <3>1 DEF Occurs
  <2>2. Occurs(q, u) => Occurs(r, u)
    <3> SUFFICES ASSUME NEW i \in 1..Len(q), q[i] = u
                 PROVE  Occurs(r, u)
      BY DEF Occurs
    <3>1. i \in 1..Len(r) /\ r[i] = u
      BY <1>1
    <3> QED BY <3>1 DEF Occurs
  <2>3. Occurs(r, t)
    <3>1. Len(r) \in 1..Len(r) /\ r[Len(r)] = t
      BY <1>1
    <3> QED BY <3>1 DEF Occurs
  <2> QED BY <2>1, <2>2, <2>3
<1>4. ASSUME NoDup(q), ~Occurs(q, t) PROVE NoDup(r)
  <2> SUFFICES ASSUME NEW i \in 1..Len(r), NEW j \in 1..Len(r), r[i] = r[j]
               PROVE  i = j
    BY DEF NoDup
  <2>1. i \in 1..Len(q) \/ i = Len(q) + 1
    BY <1>1
  <2>2. j \in 1..Len(q) \/ j = Len(q) + 1
    BY <1>1
  <2> QED BY <1>1, <1>4, <2>1, <2>2 DEF NoDup, Occurs
<1> HIDE DEF r
<1>5. /\ r \in Seq(S) /\ r # <<>>
      /\ \A u : Occurs(r, u) <=> Occurs(q, u) \/ u = t
      /\ NoDup(q) /\ ~Occurs(q, t) => NoDup(r)
  BY <1>1, <1>2, <1>3, <1>4
<1> QED BY <1>5 DEF r

\* utqueue_dequeue takes the head, and the head only.
LEMMA DequeueQueue ==
  ASSUME NEW S, NEW q \in Seq(S), q # <<>>
  PROVE  /\ Head(q) \in S /\ Occurs(q, Head(q))
         /\ Tail(q) \in Seq(S)
         /\ NoDup(q) =>
              /\ NoDup(Tail(q))
              /\ \A u : Occurs(Tail(q), u) <=> Occurs(q, u) /\ u # Head(q)
<1>1. /\ Head(q) \in S /\ Head(q) = q[1] /\ Tail(q) \in Seq(S)
      /\ Len(q) \in Nat /\ Len(q) # 0 /\ Len(Tail(q)) = Len(q) - 1
      /\ \A i \in 1..Len(Tail(q)) : Tail(q)[i] = q[i + 1]
  BY HeadTailProperties, EmptySeq, LenProperties
<1>2. Occurs(q, Head(q))
  <2>1. 1 \in 1..Len(q)
    BY <1>1
  <2> QED BY <1>1, <2>1 DEF Occurs
<1>3. ASSUME NoDup(q) PROVE NoDup(Tail(q))
  <2> SUFFICES ASSUME NEW i \in 1..Len(Tail(q)), NEW j \in 1..Len(Tail(q)),
                      Tail(q)[i] = Tail(q)[j]
               PROVE  i = j
    BY DEF NoDup
  <2>1. i + 1 \in 1..Len(q) /\ j + 1 \in 1..Len(q) /\ q[i + 1] = q[j + 1]
    BY <1>1
  <2>2. i + 1 = j + 1
    BY <1>3, <2>1 DEF NoDup
  <2> QED BY <2>2
<1>4. ASSUME NoDup(q), NEW u
      PROVE  Occurs(Tail(q), u) <=> Occurs(q, u) /\ u # Head(q)
  <2>1. ASSUME NEW i \in 1..Len(Tail(q)), Tail(q)[i] = u
        PROVE  Occurs(q, u) /\ u # Head(q)
    <3>1. i + 1 \in 1..Len(q) /\ 1 \in 1..Len(q) /\ i + 1 # 1 /\ q[i + 1] = u
      BY <1>1, <2>1
    <3> QED BY <1>1, <1>4, <3>1 DEF NoDup, Occurs
  <2>2. ASSUME NEW i \in 1..Len(q), q[i] = u, u # Head(q)
        PROVE  Occurs(Tail(q), u)
    <3>1. i - 1 \in 1..Len(Tail(q)) /\ Tail(q)[i - 1] = q[i]
      BY <1>1, <2>2
    <3> QED BY <2>2, <3>1 DEF Occurs
  <2> QED BY <2>1, <2>2 DEF Occurs
<1> QED BY <1>1, <1>2, <1>3, <1>4

\* utqueue_remove takes the given uthread, and that only.
LEMMA RemoveQueue ==
  ASSUME NEW S, NEW q \in Seq(S), NEW t \in S, NoDup(q), Occurs(q, t)
  PROVE  /\ utqueue_remove(q, t) \in Seq(S)
         /\ NoDup(utqueue_remove(q, t))
         /\ \A u : Occurs(utqueue_remove(q, t), u) <=> Occurs(q, u) /\ u # t
<1> DEFINE k == CHOOSE i \in 1..Len(q) : q[i] = t
           r == [j \in 1..(Len(q) - 1) |-> IF j < k THEN q[j] ELSE q[j + 1]]
<1>1. k \in 1..Len(q) /\ q[k] = t
  BY DEF Occurs
<1>2. Len(q) \in Nat
  BY LenProperties
<1>3. \A i \in 1..Len(q) : q[i] \in S
  BY ElementOfSeq
<1>4. r = utqueue_remove(q, t)
  BY DEF utqueue_remove
<1> HIDE DEF k
<1>5. Len(q) - 1 \in Nat
  BY <1>1, <1>2
<1>6. \A j \in 1..(Len(q) - 1) :
        r[j] \in S /\ r[j] = q[IF j < k THEN j ELSE j + 1]
             /\ (IF j < k THEN j ELSE j + 1) \in 1..Len(q)
  BY <1>1, <1>2, <1>3
<1>7. r \in Seq(S) /\ Len(r) = Len(q) - 1
  <2>1. r \in [1..(Len(q) - 1) -> S]
    BY <1>6
  <2> QED BY <1>5, <2>1, IsASeq
<1> HIDE DEF r
<1>8. NoDup(r)
  <2> SUFFICES ASSUME NEW i \in 1..(Len(q) - 1), NEW j \in 1..(Len(q) - 1),
                      r[i] = r[j]
               PROVE  i = j
    BY <1>7 DEF NoDup
  <2>1. (IF i < k THEN i ELSE i + 1) = (IF j < k THEN j ELSE j + 1)
    BY <1>6 DEF NoDup
  <2> QED BY <1>1, <1>2, <2>1
<1>9. ASSUME NEW u PROVE Occurs(r, u) <=> Occurs(q, u) /\ u # t
  <2>1. ASSUME NEW i \in 1..(Len(q) - 1), r[i] = u
        PROVE  Occurs(q, u) /\ u # t
    <3>1. (IF i < k THEN i ELSE i + 1) # k
      BY <1>1, <1>2
    <3> QED BY <1>1, <1>6, <2>1, <3>1 DEF NoDup, Occurs
  <2>2. ASSUME NEW i \in 1..Len(q), q[i] = u, u # t
        PROVE  Occurs(r, u)
    <3>1. CASE i < k
      <4>1. i \in 1..(Len(q) - 1)
        BY <1>1, <1>2, <3>1
      <4> QED BY <1>6, <1>7, <2>2, <3>1, <4>1 DEF Occurs
    <3>2. CASE i > k
      <4>1. i - 1 \in 1..(Len(q) - 1) /\ ~(i - 1 < k) /\ (i - 1) + 1 = i
        BY <1>1, <1>2, <3>2
      <4> QED BY <1>6, <1>7, <2>2, <4>1 DEF Occurs
    <3> QED BY <1>1, <1>2, <2>2, <3>1, <3>2
  <2> QED BY <1>7, <2>1, <2>2 DEF Occurs
<1> QED BY <1>4, <1>7, <1>8, <1>9

-----------------------------------------------------------------------------
(* The inductive invariant.                                                *)

\* runq_mtx is held from the switch to the dispatch; only then, and on its
\* stack, does an LWP have a current uthread, and no two have the same.
LwpInv ==
  /\ \A l \in Lwps :
       /\ runq_mtx = l <=> lpc[l] \in {"lwp_switch", "search"}
       /\ lpc[l] = "uthread" => ut_curthr[l] # NULL
       /\ lpc[l] \notin {"uthread", "lwp_switch"} => ut_curthr[l] = NULL
       /\ lpc[l] # "lwp_switch" \/ ut_curthr[l] = NULL => curlwp[l] = NoArgs
  /\ \A l1, l2 \in Lwps :
       ut_curthr[l1] = ut_curthr[l2] /\ ut_curthr[l1] # NULL => l1 = l2

\* Only a uthread on its stack is in a call, and a uthread on its stack has one
\* of the states that do not belong to a queue or a free slot.
CallInv ==
  /\ \A t \in Uthreads :
       /\ call[t] # "client" => \E l \in Lwps : OnStack(l, t)
       /\ call[t] # "switch" => args[t] = NoArgs
       /\ call[t] \in {"wake", "start"} => target[t] \in Uthreads
       /\ call[t] = "start" => ut_state[target[t]] = "TRANSITION"
       /\ ut_state[t] = "ON_CPU" => \E l \in Lwps : ut_curthr[l] = t
  /\ \A u1, u2 \in Uthreads :
       call[u1] = "start" /\ call[u2] = "start" /\ target[u1] = target[u2]
         => u1 = u2
  /\ \A l \in Lwps, t \in Uthreads :
       OnStack(l, t) =>
         /\ ut_state[t] \in {"ON_CPU", "WAIT", "ZOMBIE"}
         /\ ut_state[t] = "WAIT" => call[t] = "switch"

\* What a uthread in each state may ask of the LWP, and that the mutex to be
\* unlocked is the LWP's.  An exited uthread whose ut_pmut is unlocked already
\* asks for nothing; once it is off its stack the reaper may free its slot,
\* which uthread_create may take, before the LWP is done with it.
Asks(l, t, a) ==
  \/ /\ ut_state[t] = "ON_CPU"
     /\ a.saveonrq /\ a.queue = NULL /\ a.pmut = NULL
  \/ /\ ut_state[t] = "WAIT"
     /\ ~a.saveonrq
     /\ a.pmut \in Objs /\ pmut[a.pmut] = l
     /\ \/ a.queue = a.pmut /\ a.queue \in SyncObjs
        \/ a.queue = NULL /\ Occurs(waiters[a.pmut], t)
  \/ /\ ut_state[t] = "ZOMBIE"
     /\ ~a.saveonrq /\ a.queue = NULL
     /\ a.pmut = NULL \/ (a.pmut = t /\ pmut[t] = l)
     /\ waiters[t] = <<>>
  \/ /\ ut_state[t] \in {"NO_STATE", "TRANSITION"}
     /\ ~a.saveonrq /\ a.queue = NULL /\ a.pmut = NULL

AsksOf(l, t) ==
  /\ OnStack(l, t) /\ call[t] = "switch" => Asks(l, t, args[t])
  /\ lpc[l] = "lwp_switch" /\ ut_curthr[l] = t => Asks(l, t, curlwp[l])

AsksInv == \A l \in Lwps, t \in Uthreads : AsksOf(l, t)

\* A uthread on a waiter queue waits and is on that queue only; while it is
\* still on an LWP, it is there as a joiner whose switch will unlock the queue.
\* An exited uthread has waiters only while it runs uthread_exit.
QueueInv ==
  /\ \A o \in Objs : NoDup(waiters[o])
  /\ \A o \in Objs, t \in Uthreads :
       Occurs(waiters[o], t) => ut_state[t] = "WAIT"
  /\ \A o1, o2 \in Objs, t \in Uthreads :
       Occurs(waiters[o1], t) /\ Occurs(waiters[o2], t) => o1 = o2
  /\ \A o \in Objs, l \in Lwps, t \in Uthreads :
       Occurs(waiters[o], t) /\ ut_curthr[l] = t =>
         LET a == IF lpc[l] = "lwp_switch" THEN curlwp[l] ELSE args[t]
         IN  a.pmut = o /\ a.queue = NULL
  /\ \A t \in Uthreads :
       ut_state[t] = "ZOMBIE" /\ waiters[t] # <<>> =>
         \E l \in Lwps : OnStack(l, t)

\* A uthread about to be woken is nowhere else, and every waiting uthread is
\* somewhere.
WakeInv ==
  /\ \A u, t \in Uthreads :
       Wakes(u, t) =>
         /\ ut_state[t] = "WAIT"
         /\ \A l \in Lwps : ut_curthr[l] # t
         /\ \A o \in Objs : ~Occurs(waiters[o], t)
  /\ \A u1, u2, t \in Uthreads : Wakes(u1, t) /\ Wakes(u2, t) => u1 = u2
  /\ \A t \in Uthreads :
       ut_state[t] = "WAIT" =>
         \/ \E l \in Lwps : ut_curthr[l] = t
         \/ \E o \in Objs : Occurs(waiters[o], t)
         \/ \E u \in Uthreads : Wakes(u, t)

\* lwp_cnt and lwp_parked_cnt count the LWPs that have started and that are
\* inside lwp_park.
Started == {l \in Lwps : lpc[l] # "start"}
Parked == {l \in Lwps : lpc[l] \in {"parked", "woken"}}
CountInv ==
  /\ lwp_cnt = Cardinality(Started)
  /\ ~panic => lwp_parked_cnt = Cardinality(Parked)

PlaceInv == LwpInv /\ CallInv /\ AsksInv /\ QueueInv /\ WakeInv
IInv == TypeOK /\ PlaceInv /\ RunqCoherent /\ RunqSizeExact /\ CountInv

\* As long as no uthread unlocks its own ut_pmut once it has exited, which
\* make_reapable of the caller does, an exited uthread holds it until the LWP
\* has unlocked it, and so is not destroyed before.
ZombieInv ==
  \A l \in Lwps, t \in Uthreads :
    ut_curthr[l] = t /\ ut_state[t] = "ZOMBIE" =>
      /\ pmut[t] = l
      /\ OnStack(l, t) /\ call[t] = "switch" => args[t].pmut = t
      /\ lpc[l] = "lwp_switch" => curlwp[l].pmut = t

-----------------------------------------------------------------------------
(* The run queue and the counters.                                         *)

\* Waking a sleeping LWP is all that lwp_release does.
Released(pcs, pcs2) ==
  \A l \in Lwps : pcs2[l] = pcs[l] \/ (pcs[l] = "parked" /\ pcs2[l] = "woken")

\* Enqueueing a uthread leaves the other queues and the LWPs, but for one that
\* it may wake, as they are.
LEMMA RunqEnqueueEffect ==
  ASSUME NEW t \in Uthreads, NEW prio \in Prios, NEW pcs \in [Lwps -> LwpPcs],
         runq_table \in [Prios -> Seq(Uthreads)],
         RunqEnqueue(t, prio, pcs)
  PROVE  /\ runq_table' \in [Prios -> Seq(Uthreads)]
         /\ runq_size' = runq_size + 1
         /\ lpc' \in [Lwps -> LwpPcs]
         /\ Released(pcs, lpc')
         /\ \A p \in Prios, u \in Uthreads :
              Occurs(runq_table'[p], u) <=>
                Occurs(runq_table[p], u) \/ (p = prio /\ u = t)
         /\ \A p \in Prios :
              NoDup(runq_table[p]) /\ ~Occurs(runq_table[p], t)
                => NoDup(runq_table'[p])
<1>1. /\ runq_table' = [runq_table EXCEPT ![prio] = utqueue_enqueue(@, t)]
      /\ runq_size' = runq_size + 1
      /\ lpc' \in LwpReleased(pcs) \cup {pcs}
  BY DEF RunqEnqueue
<1>2. lpc' \in [Lwps -> LwpPcs] /\ Released(pcs, lpc')
  BY <1>1 DEF LwpReleased, Released, LwpPcs
<1>3. /\ utqueue_enqueue(runq_table[prio], t) \in Seq(Uthreads)
      /\ \A u : Occurs(utqueue_enqueue(runq_table[prio], t), u) <=>
                  Occurs(runq_table[prio], u) \/ u = t
      /\ NoDup(runq_table[prio]) /\ ~Occurs(runq_table[prio], t)
           => NoDup(utqueue_enqueue(runq_table[prio], t))
  BY EnqueueQueue
<1>4. runq_table' \in [Prios -> Seq(Uthreads)]
  BY <1>1, <1>3
<1>5. \A p \in Prios : runq_table'[p] = IF p = prio
                                        THEN utqueue_enqueue(runq_table[p], t)
                                        ELSE runq_table[p]
  BY <1>1
<1> QED BY <1>1, <1>2, <1>3, <1>4, <1>5

\* A step that makes no uthread runnable and none not runnable, and changes
\* the priority of none that is, leaves the run queue right.
LEMMA RunqUntouched ==
  ASSUME RunqCoherent, RunqSizeExact, UNCHANGED runqVars,
         \A t \in Uthreads :
           /\ ut_state'[t] = "RUNNABLE" <=> ut_state[t] = "RUNNABLE"
           /\ ut_state[t] = "RUNNABLE" => ut_prio'[t] = ut_prio[t]
  PROVE  RunqCoherent' /\ RunqSizeExact'
<1>1. RunqCoherent'
  BY DEF RunqCoherent, runqVars
<1>2. {t \in Uthreads : ut_state'[t] = "RUNNABLE"}
        = {t \in Uthreads : ut_state[t] = "RUNNABLE"}
  OBVIOUS
<1>3. RunqSizeExact'
  BY <1>2 DEF RunqSizeExact, runqVars
<1> QED BY <1>1, <1>3

\* A uthread that becomes runnable and is enqueued is queued once, at its
\* priority, and counted.
LEMMA RunqExtended ==
  ASSUME RunqCoherent, RunqSizeExact, TypeOK,
         NEW t \in Uthreads, NEW prio \in Prios, NEW pcs \in [Lwps -> LwpPcs],
         ut_state[t] # "RUNNABLE",
         RunqEnqueue(t, prio, pcs),
         ut_state' = [ut_state EXCEPT ![t] = "RUNNABLE"],
         ut_prio' = [ut_prio EXCEPT ![t] = prio]
  PROVE  RunqCoherent' /\ RunqSizeExact' /\ runq_size' \in Nat
<1>1. /\ runq_size' = runq_size + 1
      /\ \A p \in Prios, u \in Uthreads :
           Occurs(runq_table'[p], u) <=>
             Occurs(runq_table[p], u) \/ (p = prio /\ u = t)
      /\ \A p \in Prios :
           NoDup(runq_table[p]) /\ ~Occurs(runq_table[p], t)
             => NoDup(runq_table'[p])
  BY RunqEnqueueEffect DEF TypeOK
<1>2. \A u \in Uthreads :
        /\ ut_state'[u] = IF u = t THEN "RUNNABLE" ELSE ut_state[u]
        /\ ut_prio'[u] = IF u = t THEN prio ELSE ut_prio[u]
  BY DEF TypeOK
<1>3. RunqCoherent'
  BY <1>1, <1>2 DEF RunqCoherent
<1>4. RunqSizeExact'
  <2> DEFINE R == {u \in Uthreads : ut_state[u] = "RUNNABLE"}
  <2>1. {u \in Uthreads : ut_state'[u] = "RUNNABLE"} = R \cup {t} /\ t \notin R
    BY <1>2
  <2>2. IsFiniteSet(R)
    BY SchedAssumption, FS_Subset DEF SchedAssumption
  <2>3. Cardinality(R \cup {t}) = Cardinality(R) + 1
    BY <2>1, <2>2, FS_AddElement
  <2> QED BY <1>1, <2>1, <2>3 DEF RunqSizeExact
<1> QED BY <1>1, <1>3, <1>4 DEF TypeOK

\* Steps that neither start nor park an LWP keep the counters right.
LEMMA CountUntouched ==
  ASSUME CountInv, UNCHANGED <<lwp_cnt, lwp_parked_cnt, panic>>,
         \A l \in Lwps :
           /\ lpc'[l] = "start" <=> lpc[l] = "start"
           /\ lpc'[l] \in {"parked", "woken"} <=> lpc[l] \in {"parked", "woken"}
  PROVE  CountInv'
<1>1. Started' = Started /\ Parked' = Parked
  BY DEF Started, Parked
<1> QED BY <1>1 DEF CountInv

\* A pending request stays right if its uthread, its LWP and the mutexes that
\* LWP holds are left alone, and the uthread stays on the queue it is on.
LEMMA AsksKept ==
  ASSUME AsksInv, NEW k \in Lwps, NEW s \in Uthreads,
         ut_curthr'[k] = s =>
           /\ ut_curthr[k] = s /\ lpc'[k] = lpc[k] /\ curlwp'[k] = curlwp[k]
           /\ call'[s] = call[s] /\ args'[s] = args[s]
           /\ ut_state'[s] = ut_state[s]
           /\ \A m \in Objs : pmut[m] = k =>
                /\ pmut'[m] = k
                /\ Occurs(waiters[m], s) => Occurs(waiters'[m], s)
           /\ ut_state[s] = "ZOMBIE" /\ waiters[s] = <<>> => waiters'[s] = <<>>
  PROVE  AsksOf(k, s)'
<1>1. ASSUME ut_curthr'[k] = s, NEW a, Asks(k, s, a)
      PROVE  \/ /\ ut_state'[s] = "ON_CPU"
                /\ a.saveonrq /\ a.queue = NULL /\ a.pmut = NULL
             \/ /\ ut_state'[s] = "WAIT"
                /\ ~a.saveonrq
                /\ a.pmut \in Objs /\ pmut'[a.pmut] = k
                /\ \/ a.queue = a.pmut /\ a.queue \in SyncObjs
                   \/ a.queue = NULL /\ Occurs(waiters'[a.pmut], s)
             \/ /\ ut_state'[s] = "ZOMBIE"
                /\ ~a.saveonrq /\ a.queue = NULL
                /\ a.pmut = NULL \/ (a.pmut = s /\ pmut'[s] = k)
                /\ waiters'[s] = <<>>
             \/ /\ ut_state'[s] \in {"NO_STATE", "TRANSITION"}
                /\ ~a.saveonrq /\ a.queue = NULL /\ a.pmut = NULL
  BY <1>1 DEF Asks, Objs
<1>2. AsksOf(k, s)
  BY DEF AsksInv
<1>3. ASSUME OnStack(k, s)', call'[s] = "switch" PROVE Asks(k, s, args[s])'
  <2>1. ut_curthr'[k] = s /\ args'[s] = args[s] /\ Asks(k, s, args[s])
    BY <1>2, <1>3 DEF AsksOf, OnStack
  <2> QED BY <1>1, <2>1 DEF Asks
<1>4. ASSUME lpc'[k] = "lwp_switch", ut_curthr'[k] = s
      PROVE  Asks(k, s, curlwp[k])'
  <2>1. curlwp'[k] = curlwp[k] /\ Asks(k, s, curlwp[k])
    BY <1>2, <1>4 DEF AsksOf
  <2> QED BY <1>1, <1>4, <2>1 DEF Asks
<1> QED BY <1>3, <1>4 DEF AsksOf

\* The same uthreads are being woken; a uthread that changes otherwise is on an
\* LWP before and after the step.
LEMMA WakeKept ==
  ASSUME WakeInv,
         \A u \in Uthreads : call'[u] = "wake" <=> call[u] = "wake",
         \A u \in Uthreads : call[u] = "wake" => target'[u] = target[u],
         \A s \in Uthreads :
           \/ /\ ut_state'[s] = "WAIT" <=> ut_state[s] = "WAIT"
              /\ \A k \in Lwps : ut_curthr'[k] = s <=> ut_curthr[k] = s
              /\ \A o \in Objs : Occurs(waiters'[o], s) <=> Occurs(waiters[o], s)
           \/ \E k \in Lwps : ut_curthr[k] = s /\ ut_curthr'[k] = s
  PROVE  WakeInv'
<1>1. \A u, s \in Uthreads : Wakes(u, s)' <=> Wakes(u, s)
  BY DEF Wakes
<1>2. ASSUME NEW u \in Uthreads, NEW s \in Uthreads, Wakes(u, s)
      PROVE  /\ ut_state'[s] = "WAIT"
             /\ \A k \in Lwps : ut_curthr'[k] # s
             /\ \A o \in Objs : ~Occurs(waiters'[o], s)
  BY <1>2 DEF WakeInv
<1>3. ASSUME NEW s \in Uthreads, ut_state'[s] = "WAIT"
      PROVE  \/ \E k \in Lwps : ut_curthr'[k] = s
             \/ \E o \in Objs : Occurs(waiters'[o], s)
             \/ \E u \in Uthreads : Wakes(u, s)
  BY <1>3 DEF WakeInv
<1>4. \A u1, u2, s \in Uthreads : Wakes(u1, s) /\ Wakes(u2, s) => u1 = u2
  BY DEF WakeInv
<1> QED BY <1>1, <1>2, <1>3, <1>4 DEF WakeInv

\* The queues are left alone, and so are the uthreads on them; an exited uthread
\* with waiters is on its stack.
LEMMA QueueKept ==
  ASSUME QueueInv, UNCHANGED waiters,
         \A o \in Objs, s \in Uthreads :
           Occurs(waiters[o], s) =>
             /\ ut_state'[s] = "WAIT"
             /\ \A k \in Lwps :
                  ut_curthr'[k] = s =>
                    /\ ut_curthr[k] = s /\ lpc'[k] = lpc[k]
                    /\ curlwp'[k] = curlwp[k] /\ args'[s] = args[s],
         \A z \in Uthreads :
           ut_state'[z] = "ZOMBIE" /\ waiters[z] # <<>> =>
             \E k \in Lwps : lpc'[k] = "uthread" /\ ut_curthr'[k] = z
  PROVE  QueueInv'
<1>1. \A z \in Uthreads :
        (ut_state[z] = "ZOMBIE" /\ waiters[z] # <<>> =>
           \E k \in Lwps : OnStack(k, z))'
  BY DEF OnStack
<1>2. \A o \in Objs, k \in Lwps, s \in Uthreads :
        (Occurs(waiters[o], s) /\ ut_curthr[k] = s =>
           LET a == IF lpc[k] = "lwp_switch" THEN curlwp[k] ELSE args[s]
           IN  a.pmut = o /\ a.queue = NULL)'
  BY DEF QueueInv
<1>3. /\ \A o \in Objs : NoDup(waiters'[o])
      /\ \A o \in Objs, s \in Uthreads :
           Occurs(waiters'[o], s) => ut_state'[s] = "WAIT"
      /\ \A o1, o2 \in Objs, s \in Uthreads :
           Occurs(waiters'[o1], s) /\ Occurs(waiters'[o2], s) => o1 = o2
  BY DEF QueueInv
<1> QED BY <1>1, <1>2, <1>3 DEF QueueInv

\* Locking a free POSIX mutex disturbs no request: those name mutexes that are
\* held.
LEMMA LockPmutStep ==
  ASSUME IInv, NEW l \in Lwps, NEW t \in Uthreads, NEW o \in Objs,
         LockPmut(l, t, o)
  PROVE  IInv'
<1> USE DEF IInv, PlaceInv, Objs, threadVars, objVars, runqVars, lwpVars
<1>1. TypeOK'
  BY SchedAssumption DEF SchedAssumption, LockPmut, Runs, TypeOK, States,
     Calls, LwpPcs, SwitchArgs, NoArgs
<1>2. LwpInv'
  BY SchedAssumption DEF SchedAssumption, LockPmut, Runs, LwpInv, TypeOK
<1>3. CallInv'
  BY SchedAssumption DEF SchedAssumption, LockPmut, Runs, CallInv, LwpInv,
     OnStack, TypeOK
<1>4. AsksInv'
  <2> SUFFICES ASSUME NEW k \in Lwps, NEW s \in Uthreads
               PROVE  AsksOf(k, s)'
    BY DEF AsksInv
  <2> QED BY AsksKept, SchedAssumption DEF SchedAssumption, LockPmut, Runs, TypeOK,
     CallInv, OnStack, LwpInv
<1>5. QueueInv'
  BY SchedAssumption DEF SchedAssumption, LockPmut, Runs, QueueInv, LwpInv,
     CallInv, AsksInv, AsksOf, Asks, OnStack, TypeOK, NoArgs
<1>6. WakeInv'
  BY WakeKept, SchedAssumption DEF SchedAssumption, LockPmut, Runs, TypeOK
<1>7. RunqCoherent' /\ RunqSizeExact'
  BY RunqUntouched DEF LockPmut, Runs, TypeOK
<1>8. CountInv'
  BY CountUntouched DEF LockPmut, Runs, TypeOK
<1> QED BY <1>1, <1>2, <1>3, <1>4, <1>5, <1>6, <1>7, <1>8

\* An LWP that executes client code has no request pending, so that it may
\* unlock any of its mutexes.
Unlocks(l, t, os) ==
  /\ Runs(l, t, "client")
  /\ \A o \in os : pmut[o] = l
  /\ pmut' = [o \in Objs |-> IF o \in os THEN NULL ELSE pmut[o]]
  /\ UNCHANGED <<threadVars, waiters, runqVars, runq_mtx, lwpVars, panic>>

\* Those are the mutexes that no request names.
LEMMA UnlocksStep ==
  ASSUME IInv, NEW l \in Lwps, NEW t \in Uthreads, NEW os \in SUBSET Objs,
         Unlocks(l, t, os)
  PROVE  IInv'
<1> USE DEF IInv, PlaceInv, Objs, threadVars, objVars, runqVars, lwpVars
<1>1. TypeOK'
  BY SchedAssumption DEF SchedAssumption, Unlocks, Runs, TypeOK, States,
     Calls, LwpPcs, SwitchArgs, NoArgs
<1>2. LwpInv'
  BY SchedAssumption DEF SchedAssumption, Unlocks, Runs, LwpInv, TypeOK
<1>3. CallInv'
  BY SchedAssumption DEF SchedAssumption, Unlocks, Runs, CallInv, LwpInv,
     OnStack, TypeOK
<1>4. AsksInv'
  <2> SUFFICES ASSUME NEW k \in Lwps, NEW s \in Uthreads
               PROVE  AsksOf(k, s)'
    BY DEF AsksInv
  <2>1. CASE k = l
    BY <2>1, SchedAssumption DEF SchedAssumption, Unlocks, Runs, TypeOK,
       AsksOf, Asks, OnStack, LwpInv, CallInv, NoArgs, SwitchArgs
  <2>2. CASE k # l
    BY <2>2, AsksKept, SchedAssumption DEF SchedAssumption, Unlocks, Runs,
       TypeOK, LwpInv, CallInv
  <2> QED BY <2>1, <2>2
<1>5. QueueInv'
  BY SchedAssumption DEF SchedAssumption, Unlocks, Runs, QueueInv, LwpInv,
     CallInv, AsksInv, AsksOf, Asks, OnStack, TypeOK, NoArgs
<1>6. WakeInv'
  BY WakeKept, SchedAssumption DEF SchedAssumption, Unlocks, Runs, TypeOK
<1>7. RunqCoherent' /\ RunqSizeExact'
  BY RunqUntouched DEF Unlocks, Runs, TypeOK
<1>8. CountInv'
  BY CountUntouched DEF Unlocks, Runs, TypeOK
<1> QED BY <1>1, <1>2, <1>3, <1>4, <1>5, <1>6, <1>7, <1>8

\* pthread_mutex_unlock of one mutex.
LEMMA UnlockPmutStep ==
  ASSUME IInv, NEW l \in Lwps, NEW t \in Uthreads, NEW o \in Objs,
         UnlockPmut(l, t, o)
  PROVE  IInv'
<1>1. pmut' = [x \in Objs |-> IF x \in {o} THEN NULL ELSE pmut[x]]
  BY DEF UnlockPmut, IInv, TypeOK
<1>2. Unlocks(l, t, {o})
  BY <1>1 DEF UnlockPmut, Unlocks
<1> QED BY <1>2, UnlocksStep

\* A uthread that yields asks only for the run queue.
LEMMA YieldStep ==
  ASSUME IInv, NEW l \in Lwps, NEW t \in Uthreads,
         Yield(l, t)
  PROVE  IInv'
<1> USE DEF IInv, PlaceInv, Objs, threadVars, objVars, runqVars, lwpVars
<1>1. TypeOK'
  BY SchedAssumption DEF SchedAssumption, Yield, Runs, CallsSwitch, TypeOK,
     States, Calls, LwpPcs, SwitchArgs, NoArgs
<1>2. LwpInv'
  BY SchedAssumption DEF SchedAssumption, Yield, Runs, CallsSwitch, LwpInv,
     TypeOK
<1>3. CallInv'
  BY SchedAssumption DEF SchedAssumption, Yield, Runs, CallsSwitch, CallInv,
     LwpInv, OnStack, TypeOK
<1>4. AsksInv'
  <2> SUFFICES ASSUME NEW k \in Lwps, NEW s \in Uthreads
               PROVE  AsksOf(k, s)'
    BY DEF AsksInv
  <2>1. CASE k = l
    BY <2>1, SchedAssumption DEF SchedAssumption, Yield, Runs, CallsSwitch,
       TypeOK, AsksOf, Asks, OnStack, LwpInv, CallInv, NoArgs, SwitchArgs
  <2>2. CASE k # l
    BY <2>2, AsksKept, SchedAssumption DEF SchedAssumption, Yield, Runs,
       CallsSwitch, TypeOK, LwpInv, CallInv
  <2> QED BY <2>1, <2>2
<1>5. QueueInv'
  BY SchedAssumption DEF SchedAssumption, Yield, Runs, CallsSwitch, QueueInv,
     LwpInv, CallInv, AsksInv, AsksOf, Asks, OnStack, TypeOK, NoArgs
<1>6. WakeInv'
  BY WakeKept, SchedAssumption DEF SchedAssumption, Yield, Runs, CallsSwitch,
     TypeOK
<1>7. RunqCoherent' /\ RunqSizeExact'
  BY RunqUntouched DEF Yield, Runs, CallsSwitch, TypeOK
<1>8. CountInv'
  BY CountUntouched DEF Yield, Runs, CallsSwitch, TypeOK
<1> QED BY <1>1, <1>2, <1>3, <1>4, <1>5, <1>6, <1>7, <1>8

\* A sleeping LWP has no current uthread.
LEMMA SpuriousWakeupStep ==
  ASSUME IInv, NEW l \in Lwps,
         SpuriousWakeup(l)
  PROVE  IInv'
<1> USE DEF IInv, PlaceInv, Objs, threadVars, objVars, runqVars, lwpVars
<1>1. TypeOK'
  BY SchedAssumption DEF SchedAssumption, SpuriousWakeup, TypeOK, States,
     Calls, LwpPcs, SwitchArgs, NoArgs
<1>2. LwpInv'
  BY SchedAssumption DEF SchedAssumption, SpuriousWakeup, LwpInv, TypeOK
<1>3. CallInv'
  BY SchedAssumption DEF SchedAssumption, SpuriousWakeup, CallInv, LwpInv,
     OnStack, TypeOK
<1>4. AsksInv'
  <2> SUFFICES ASSUME NEW k \in Lwps, NEW s \in Uthreads
               PROVE  AsksOf(k, s)'
    BY DEF AsksInv
  <2>1. CASE k = l
    BY <2>1, SchedAssumption DEF SchedAssumption, SpuriousWakeup, TypeOK,
       AsksOf, Asks, OnStack, LwpInv, CallInv, NoArgs, SwitchArgs
  <2>2. CASE k # l
    BY <2>2, AsksKept, SchedAssumption DEF SchedAssumption, SpuriousWakeup,
       TypeOK, LwpInv, CallInv
  <2> QED BY <2>1, <2>2
<1>5. QueueInv'
  BY SchedAssumption DEF SchedAssumption, SpuriousWakeup, QueueInv, LwpInv,
     CallInv, AsksInv, AsksOf, Asks, OnStack, TypeOK, NoArgs
<1>6. WakeInv'
  BY WakeKept, SchedAssumption DEF SchedAssumption, SpuriousWakeup, TypeOK
<1>7. RunqCoherent' /\ RunqSizeExact'
  BY RunqUntouched DEF SpuriousWakeup, TypeOK
<1>8. CountInv'
  BY CountUntouched DEF SpuriousWakeup, TypeOK
<1> QED BY <1>1, <1>2, <1>3, <1>4, <1>5, <1>6, <1>7, <1>8

\* The current uthread of an LWP is not runnable; off its stack it has made its
\* request, and only then, under runq_mtx, may its slot be freed and used again.
LEMMA CurrentUthread ==
  ASSUME LwpInv, CallInv, AsksInv, NEW l \in Lwps, NEW t \in Uthreads,
         ut_curthr[l] = t
  PROVE  /\ lpc[l] \in {"uthread", "lwp_switch"}
         /\ lpc[l] = "lwp_switch" => Asks(l, t, curlwp[l]) /\ runq_mtx = l
         /\ ut_state[t] # "RUNNABLE"
         /\ runq_mtx = NULL => ut_state[t] \in {"ON_CPU", "WAIT", "ZOMBIE"}
<1>1. t # NULL /\ l # NULL
  BY SchedAssumption DEF SchedAssumption
<1>2. lpc[l] \in {"uthread", "lwp_switch"}
  BY <1>1 DEF LwpInv
<1>3. CASE lpc[l] = "uthread"
  BY <1>2, <1>3 DEF CallInv, OnStack
<1>4. CASE lpc[l] = "lwp_switch"
  <2>1. Asks(l, t, curlwp[l]) /\ runq_mtx = l
    BY <1>4 DEF AsksInv, AsksOf, LwpInv
  <2> QED BY <1>1, <1>2, <2>1 DEF Asks
<1> QED BY <1>2, <1>3, <1>4

\* A zombie whose ut_pmut is free has no waiter; off its stack, it is at most
\* the current uthread of an LWP that has nothing to do for it.
LEMMA DestroyStep ==
  ASSUME IInv, NEW l \in Lwps, NEW t \in Uthreads, NEW zombie \in Uthreads,
         Destroy(l, t, zombie), \A k \in Lwps : ~OnStack(k, zombie)
  PROVE  IInv'
<1> USE DEF IInv, PlaceInv, Objs, threadVars, objVars, runqVars, lwpVars
<1>a. ASSUME NEW k \in Lwps, ut_curthr[k] = zombie
      PROVE  /\ lpc[k] = "lwp_switch"
             /\ ~curlwp[k].saveonrq /\ curlwp[k].queue = NULL
             /\ curlwp[k].pmut = NULL
  <2>1. ut_state[zombie] = "ZOMBIE" /\ pmut[zombie] = NULL /\ k # NULL
    BY SchedAssumption DEF SchedAssumption, Destroy
  <2>2. lpc[k] = "lwp_switch" /\ Asks(k, zombie, curlwp[k])
    BY <1>a, CurrentUthread DEF OnStack
  <2> QED BY <2>1, <2>2 DEF Asks
<1>b. waiters[zombie] = <<>>
  BY DEF Destroy, QueueInv
<1>c. waiters' = waiters
  BY <1>b DEF Destroy, TypeOK
<1>1. TypeOK'
  BY <1>a, <1>c, SchedAssumption DEF SchedAssumption, Destroy, Runs, TypeOK,
     States, Calls, LwpPcs, SwitchArgs, NoArgs
<1>2. LwpInv'
  BY <1>a, <1>c, SchedAssumption DEF SchedAssumption, Destroy, Runs, LwpInv,
     TypeOK
<1>3. CallInv'
  BY <1>a, <1>c, SchedAssumption DEF SchedAssumption, Destroy, Runs, CallInv,
     LwpInv, OnStack, TypeOK
<1>4. AsksInv'
  <2> SUFFICES ASSUME NEW k \in Lwps, NEW s \in Uthreads
               PROVE  AsksOf(k, s)'
    BY DEF AsksInv
  <2>1. s # zombie => ut_state'[s] = ut_state[s]
    BY DEF Destroy, TypeOK
  <2>2. UNCHANGED <<pmut, waiters, lpc, ut_curthr, curlwp, call, args>>
    BY <1>c DEF Destroy
  <2>3. CASE s # zombie \/ ut_curthr[k] # s
    BY <2>1, <2>2, <2>3, AsksKept
  <2>4. CASE s = zombie /\ ut_curthr[k] = s
    <3>1. ut_state'[s] = "NO_STATE"
      BY <2>4 DEF Destroy, TypeOK
    <3> QED BY <1>a, <2>2, <2>4, <3>1 DEF AsksOf, Asks, OnStack
  <2> QED BY <2>3, <2>4
<1>d. /\ ut_state[zombie] = "ZOMBIE" /\ ut_state'[zombie] = "NO_STATE"
      /\ \A s \in Uthreads \ {zombie} : ut_state'[s] = ut_state[s]
      /\ UNCHANGED <<call, target, args, lpc, ut_curthr, curlwp>>
  BY DEF Destroy, TypeOK
<1>5. QueueInv'
  <2>1. \A o \in Objs, s \in Uthreads : Occurs(waiters[o], s) => ut_state'[s] = "WAIT"
    BY <1>d DEF QueueInv
  <2>2. ASSUME NEW z \in Uthreads, ut_state'[z] = "ZOMBIE", waiters[z] # <<>>
        PROVE  \E k \in Lwps : lpc'[k] = "uthread" /\ ut_curthr'[k] = z
    BY <1>d, <2>2 DEF QueueInv, OnStack
  <2>3. QueueInv
    OBVIOUS
  <2> HIDE DEF IInv, PlaceInv, QueueInv
  <2> QED BY <1>c, <1>d, <2>1, <2>2, <2>3, QueueKept
<1>6. WakeInv'
  <2>1. WakeInv /\ \A s \in Uthreads : ut_state'[s] = "WAIT" <=> ut_state[s] = "WAIT"
    BY <1>d
  <2> HIDE DEF IInv, PlaceInv
  <2> QED BY <1>c, <1>d, <2>1, WakeKept
<1>7. RunqCoherent' /\ RunqSizeExact'
  BY <1>a, <1>c, RunqUntouched DEF Destroy, Runs, TypeOK
<1>8. CountInv'
  BY <1>a, <1>c, CountUntouched DEF Destroy, Runs, TypeOK
<1> QED BY <1>1, <1>2, <1>3, <1>4, <1>5, <1>6, <1>7, <1>8

\* The zombie holds its ut_pmut.
LEMMA BecomeZombieStep ==
  ASSUME IInv, NEW l \in Lwps, NEW t \in Uthreads,
         BecomeZombie(l, t)
  PROVE  IInv'
<1> USE DEF IInv, PlaceInv, Objs, threadVars, objVars, runqVars, lwpVars
<1>1. TypeOK'
  BY SchedAssumption DEF SchedAssumption, BecomeZombie, Runs, TypeOK, States,
     Calls, LwpPcs, SwitchArgs, NoArgs
<1>2. LwpInv'
  BY SchedAssumption DEF SchedAssumption, BecomeZombie, Runs, LwpInv, TypeOK
<1>3. CallInv'
  BY SchedAssumption DEF SchedAssumption, BecomeZombie, Runs, CallInv, LwpInv,
     OnStack, TypeOK
<1>4. AsksInv'
  <2> SUFFICES ASSUME NEW k \in Lwps, NEW s \in Uthreads
               PROVE  AsksOf(k, s)'
    BY DEF AsksInv
  <2>1. CASE k = l
    BY <2>1, SchedAssumption DEF SchedAssumption, BecomeZombie, Runs, TypeOK,
       AsksOf, Asks, OnStack, LwpInv, CallInv, NoArgs, SwitchArgs
  <2>2. CASE k # l
    BY <2>2, AsksKept, SchedAssumption DEF SchedAssumption, BecomeZombie,
       Runs, TypeOK, LwpInv, CallInv
  <2> QED BY <2>1, <2>2
<1>5. QueueInv'
  BY SchedAssumption DEF SchedAssumption, BecomeZombie, Runs, QueueInv,
     LwpInv, CallInv, AsksInv, AsksOf, Asks, OnStack, TypeOK, NoArgs
<1>6. WakeInv'
  BY WakeKept, SchedAssumption DEF SchedAssumption, BecomeZombie, Runs, TypeOK
<1>7. RunqCoherent' /\ RunqSizeExact'
  BY RunqUntouched DEF BecomeZombie, Runs, TypeOK
<1>8. CountInv'
  BY CountUntouched DEF BecomeZombie, Runs, TypeOK
<1> QED BY <1>1, <1>2, <1>3, <1>4, <1>5, <1>6, <1>7, <1>8

\* The zombie hands over its ut_pmut, and nobody waits for it any more.
LEMMA LeaveForGoodStep ==
  ASSUME IInv, NEW l \in Lwps, NEW t \in Uthreads,
         LeaveForGood(l, t), pmut[t] = l
  PROVE  IInv'
<1> USE DEF IInv, PlaceInv, Objs, threadVars, objVars, runqVars, lwpVars
<1>1. TypeOK'
  BY SchedAssumption DEF SchedAssumption, LeaveForGood, Runs, CallsSwitch,
     TypeOK, States, Calls, LwpPcs, SwitchArgs, NoArgs
<1>2. LwpInv'
  BY SchedAssumption DEF SchedAssumption, LeaveForGood, Runs, CallsSwitch,
     LwpInv, TypeOK
<1>3. CallInv'
  BY SchedAssumption DEF SchedAssumption, LeaveForGood, Runs, CallsSwitch,
     CallInv, LwpInv, OnStack, TypeOK
<1>4. AsksInv'
  <2> SUFFICES ASSUME NEW k \in Lwps, NEW s \in Uthreads
               PROVE  AsksOf(k, s)'
    BY DEF AsksInv
  <2>1. CASE k = l
    BY <2>1, SchedAssumption DEF SchedAssumption, LeaveForGood, Runs,
       CallsSwitch, TypeOK, AsksOf, Asks, OnStack, LwpInv, CallInv, NoArgs,
       SwitchArgs
  <2>2. CASE k # l
    BY <2>2, AsksKept, SchedAssumption DEF SchedAssumption, LeaveForGood,
       Runs, CallsSwitch, TypeOK, LwpInv, CallInv
  <2> QED BY <2>1, <2>2
<1>5. QueueInv'
  BY SchedAssumption DEF SchedAssumption, LeaveForGood, Runs, CallsSwitch,
     QueueInv, LwpInv, CallInv, AsksInv, AsksOf, Asks, OnStack, TypeOK, NoArgs
<1>6. WakeInv'
  BY WakeKept, SchedAssumption DEF SchedAssumption, LeaveForGood, Runs,
     CallsSwitch, TypeOK
<1>7. RunqCoherent' /\ RunqSizeExact'
  BY RunqUntouched DEF LeaveForGood, Runs, CallsSwitch, TypeOK
<1>8. CountInv'
  BY CountUntouched DEF LeaveForGood, Runs, CallsSwitch, TypeOK
<1> QED BY <1>1, <1>2, <1>3, <1>4, <1>5, <1>6, <1>7, <1>8

\* The switch of make_reapable, where a uthread that reaps itself leaves its
\* stack after it has unlocked its ut_pmut: it hands over nothing.
LeaveBare(l, t) ==
  /\ Runs(l, t, "client")
  /\ ut_state[t] = "ZOMBIE"
  /\ waiters[t] = <<>>
  /\ CallsSwitch(t, NULL, FALSE, NULL)
  /\ UNCHANGED <<ut_state, ut_prio, target, objVars, runqVars, runq_mtx,
                 lwpVars, panic>>

\* That request asks for nothing.
LEMMA LeaveBareStep ==
  ASSUME IInv, NEW l \in Lwps, NEW t \in Uthreads,
         LeaveBare(l, t)
  PROVE  IInv'
<1> USE DEF IInv, PlaceInv, Objs, threadVars, objVars, runqVars, lwpVars
<1>1. TypeOK'
  BY SchedAssumption DEF SchedAssumption, LeaveBare, Runs, CallsSwitch,
     TypeOK, States, Calls, LwpPcs, SwitchArgs, NoArgs
<1>2. LwpInv'
  BY SchedAssumption DEF SchedAssumption, LeaveBare, Runs, CallsSwitch,
     LwpInv, TypeOK
<1>3. CallInv'
  BY SchedAssumption DEF SchedAssumption, LeaveBare, Runs, CallsSwitch,
     CallInv, LwpInv, OnStack, TypeOK
<1>4. AsksInv'
  <2> SUFFICES ASSUME NEW k \in Lwps, NEW s \in Uthreads
               PROVE  AsksOf(k, s)'
    BY DEF AsksInv
  <2>1. CASE k = l
    BY <2>1, SchedAssumption DEF SchedAssumption, LeaveBare, Runs,
       CallsSwitch, TypeOK, AsksOf, Asks, OnStack, LwpInv, CallInv, NoArgs,
       SwitchArgs
  <2>2. CASE k # l
    BY <2>2, AsksKept, SchedAssumption DEF SchedAssumption, LeaveBare,
       Runs, CallsSwitch, TypeOK, LwpInv, CallInv
  <2> QED BY <2>1, <2>2
<1>5. QueueInv'
  BY SchedAssumption DEF SchedAssumption, LeaveBare, Runs, CallsSwitch,
     QueueInv, LwpInv, CallInv, AsksInv, AsksOf, Asks, OnStack, TypeOK, NoArgs
<1>6. WakeInv'
  BY WakeKept, SchedAssumption DEF SchedAssumption, LeaveBare, Runs,
     CallsSwitch, TypeOK
<1>7. RunqCoherent' /\ RunqSizeExact'
  BY RunqUntouched DEF LeaveBare, Runs, CallsSwitch, TypeOK
<1>8. CountInv'
  BY CountUntouched DEF LeaveBare, Runs, CallsSwitch, TypeOK
<1> QED BY <1>1, <1>2, <1>3, <1>4, <1>5, <1>6, <1>7, <1>8

\* A slot being set up is on no stack and no queue.
LEMMA AllocateStep ==
  ASSUME IInv, NEW l \in Lwps, NEW t \in Uthreads, NEW slot \in Uthreads,
         Allocate(l, t, slot)
  PROVE  IInv'
<1> USE DEF IInv, PlaceInv, Objs, threadVars, objVars, runqVars, lwpVars
<1>1. TypeOK'
  BY SchedAssumption DEF SchedAssumption, Allocate, Runs, TypeOK, States,
     Calls, LwpPcs, SwitchArgs, NoArgs
<1>2. LwpInv'
  BY SchedAssumption DEF SchedAssumption, Allocate, Runs, LwpInv, TypeOK
<1>3. CallInv'
  BY SchedAssumption DEF SchedAssumption, Allocate, Runs, CallInv, LwpInv,
     OnStack, TypeOK
<1>4. AsksInv'
  <2> SUFFICES ASSUME NEW k \in Lwps, NEW s \in Uthreads
               PROVE  AsksOf(k, s)'
    BY DEF AsksInv
  <2>1. ut_state[slot] = "NO_STATE" /\ call[t] = "client" /\ Runs(l, t, "client")
    BY DEF Allocate, Runs
  <2>2. CASE s = slot /\ ut_curthr[k] = s
    <3>1. ~OnStack(k, s) /\ (lpc[k] = "lwp_switch" => Asks(k, s, curlwp[k]))
      BY <2>1, <2>2, CurrentUthread DEF CallInv
    <3>2. /\ ut_state[s] = "NO_STATE" /\ ut_state'[s] = "TRANSITION"
          /\ UNCHANGED <<pmut, waiters, lpc, ut_curthr, curlwp>>
      BY <2>1, <2>2 DEF Allocate, TypeOK
    <3> QED BY <3>1, <3>2 DEF AsksOf, Asks, OnStack
  <2>3. CASE s = t
    BY <2>1, <2>3, SchedAssumption DEF SchedAssumption, Allocate, Runs, AsksOf,
       OnStack, LwpInv, TypeOK
  <2>4. CASE s # t /\ (s # slot \/ ut_curthr[k] # s)
    BY <2>4, AsksKept DEF Allocate, TypeOK
  <2> QED BY <2>2, <2>3, <2>4
<1>5. QueueInv'
  BY SchedAssumption DEF SchedAssumption, Allocate, Runs, QueueInv, LwpInv,
     CallInv, AsksInv, AsksOf, Asks, OnStack, TypeOK, NoArgs
<1>6. WakeInv'
  BY WakeKept, SchedAssumption DEF SchedAssumption, Allocate, Runs, TypeOK
<1>7. RunqCoherent' /\ RunqSizeExact'
  BY RunqUntouched DEF Allocate, Runs, TypeOK
<1>8. CountInv'
  BY CountUntouched DEF Allocate, Runs, TypeOK
<1> QED BY <1>1, <1>2, <1>3, <1>4, <1>5, <1>6, <1>7, <1>8

\* The uthread asks for the queue whose POSIX mutex its LWP holds.
LEMMA WaitOnStep ==
  ASSUME IInv, NEW l \in Lwps, NEW t \in Uthreads, NEW o \in SyncObjs,
         WaitOn(l, t, o)
  PROVE  IInv'
<1> USE DEF IInv, PlaceInv, Objs, threadVars, objVars, runqVars, lwpVars
<1>1. TypeOK'
  BY SchedAssumption DEF SchedAssumption, WaitOn, Runs, CallsSwitch, MayLock,
     TypeOK, States, Calls, LwpPcs, SwitchArgs, NoArgs
<1>2. LwpInv'
  BY SchedAssumption DEF SchedAssumption, WaitOn, Runs, CallsSwitch, MayLock,
     LwpInv, TypeOK
<1>3. CallInv'
  BY SchedAssumption DEF SchedAssumption, WaitOn, Runs, CallsSwitch, MayLock,
     CallInv, LwpInv, OnStack, TypeOK
<1>4. AsksInv'
  <2> SUFFICES ASSUME NEW k \in Lwps, NEW s \in Uthreads
               PROVE  AsksOf(k, s)'
    BY DEF AsksInv
  <2>1. CASE k = l
    BY <2>1, SchedAssumption DEF SchedAssumption, WaitOn, Runs, CallsSwitch,
       MayLock, TypeOK, AsksOf, Asks, OnStack, LwpInv, CallInv, NoArgs,
       SwitchArgs
  <2>2. CASE k # l
    BY <2>2, AsksKept, SchedAssumption DEF SchedAssumption, WaitOn, Runs,
       CallsSwitch, MayLock, TypeOK, LwpInv, CallInv
  <2> QED BY <2>1, <2>2
<1>5. QueueInv'
  BY SchedAssumption DEF SchedAssumption, WaitOn, Runs, CallsSwitch, MayLock,
     QueueInv, LwpInv, CallInv, AsksInv, AsksOf, Asks, OnStack, TypeOK, NoArgs
<1>6. WakeInv'
  BY WakeKept, SchedAssumption DEF SchedAssumption, WaitOn, Runs, CallsSwitch,
     MayLock, TypeOK
<1>7. RunqCoherent' /\ RunqSizeExact'
  BY RunqUntouched DEF WaitOn, Runs, CallsSwitch, MayLock, TypeOK
<1>8. CountInv'
  BY CountUntouched DEF WaitOn, Runs, CallsSwitch, MayLock, TypeOK
<1> QED BY <1>1, <1>2, <1>3, <1>4, <1>5, <1>6, <1>7, <1>8

\* The requests move from the call to the LWP.
LEMMA UthreadSwitchStep ==
  ASSUME IInv, NEW l \in Lwps, NEW t \in Uthreads,
         UthreadSwitch(l, t)
  PROVE  IInv'
<1> USE DEF IInv, PlaceInv, Objs, threadVars, objVars, runqVars, lwpVars
<1>a. /\ lpc[l] = "uthread" /\ ut_curthr[l] = t /\ call[t] = "switch"
      /\ lpc'[l] = "lwp_switch"
      /\ curlwp'[l].pmut = args[t].pmut /\ curlwp'[l].queue = args[t].queue
      /\ \A k \in Lwps : k # l => lpc'[k] = lpc[k] /\ curlwp'[k] = curlwp[k]
      /\ \A s \in Uthreads :
           /\ call'[s] = IF s = t THEN "client" ELSE call[s]
           /\ args'[s] = IF s = t THEN NoArgs ELSE args[s]
      /\ UNCHANGED <<ut_state, target, ut_curthr, pmut, waiters>>
  BY DEF UthreadSwitch, Runs, TypeOK
<1>b. t # NULL /\ \A k \in Lwps : ut_curthr[k] = t => k = l
  BY <1>a, SchedAssumption DEF SchedAssumption, LwpInv
<1>c. \A k \in Lwps, s \in Uthreads : OnStack(k, s)' <=> OnStack(k, s) /\ s # t
  BY <1>a, <1>b DEF OnStack
<1>1. TypeOK'
  BY SchedAssumption DEF SchedAssumption, UthreadSwitch, Runs, TypeOK, States,
     Calls, LwpPcs, SwitchArgs, NoArgs
<1>2. LwpInv'
  BY SchedAssumption DEF SchedAssumption, UthreadSwitch, Runs, LwpInv, TypeOK
<1>3. CallInv'
  BY <1>a, <1>c DEF CallInv
<1>4. AsksInv'
  <2> SUFFICES ASSUME NEW k \in Lwps, NEW s \in Uthreads
               PROVE  AsksOf(k, s)'
    BY DEF AsksInv
  <2>1. CASE k = l
    <3>1. /\ lpc'[k] = "lwp_switch" /\ ut_curthr'[k] = t
          /\ curlwp'[k].queue = args[t].queue
          /\ curlwp'[k].saveonrq = (args[t].saveonrq /\ ut_state[t] # "ZOMBIE")
          /\ curlwp'[k].pmut = args[t].pmut
          /\ UNCHANGED <<ut_state, pmut, waiters>>
      BY <2>1 DEF UthreadSwitch, Runs, TypeOK
    <3>2. Asks(k, t, args[t])
      BY <2>1 DEF UthreadSwitch, Runs, AsksInv, AsksOf, OnStack
    <3>3. Asks(k, t, curlwp[k])'
      BY <3>1, <3>2 DEF Asks
    <3> QED BY <3>1, <3>3 DEF AsksOf, OnStack
  <2>2. CASE k # l
    BY <2>2, AsksKept, SchedAssumption DEF SchedAssumption, UthreadSwitch,
       Runs, TypeOK, LwpInv, CallInv
  <2> QED BY <2>1, <2>2
<1>5. QueueInv'
  <2>1. ASSUME NEW o \in Objs, NEW k \in Lwps, NEW s \in Uthreads,
               Occurs(waiters'[o], s), ut_curthr'[k] = s
        PROVE  LET a == IF lpc'[k] = "lwp_switch" THEN curlwp'[k] ELSE args'[s]
               IN  a.pmut = o /\ a.queue = NULL
    <3>1. CASE s = t
      <4>1. args[t].pmut = o /\ args[t].queue = NULL /\ k = l
        BY <2>1, <3>1, <1>a, <1>b DEF QueueInv
      <4> QED BY <4>1, <1>a
    <3>2. CASE s # t
      BY <2>1, <3>2, <1>a DEF QueueInv
    <3> QED BY <3>1, <3>2
  <2>2. ASSUME NEW z \in Uthreads, ut_state'[z] = "ZOMBIE", waiters'[z] # <<>>
        PROVE  \E k \in Lwps : OnStack(k, z)'
    <3>1. ut_state[z] = "ZOMBIE" /\ waiters[z] # <<>>
      BY <2>2, <1>a
    <3>2. z # t
      <4>1. Asks(l, t, args[t])
        BY <1>a DEF AsksInv, AsksOf, OnStack
      <4> QED BY <4>1, <3>1 DEF Asks
    <3> QED BY <3>1, <3>2, <1>c DEF QueueInv
  <2> QED BY <2>1, <2>2, <1>a DEF QueueInv
<1>6. WakeInv'
  BY WakeKept, SchedAssumption DEF SchedAssumption, UthreadSwitch, Runs,
     TypeOK
<1>7. RunqCoherent' /\ RunqSizeExact'
  BY RunqUntouched DEF UthreadSwitch, Runs, TypeOK
<1>8. CountInv'
  BY CountUntouched DEF UthreadSwitch, Runs, TypeOK
<1> QED BY <1>1, <1>2, <1>3, <1>4, <1>5, <1>6, <1>7, <1>8

\* The counter of LWPs grows with the set of LWPs that have started.
LEMMA LwpStartStep ==
  ASSUME IInv, NEW l \in Lwps,
         LwpStart(l)
  PROVE  IInv'
<1> USE DEF IInv, PlaceInv, Objs, threadVars, objVars, runqVars, lwpVars
<1>1. TypeOK'
  BY SchedAssumption DEF SchedAssumption, LwpStart, TypeOK, States, Calls,
     LwpPcs, SwitchArgs, NoArgs
<1>2. LwpInv'
  BY SchedAssumption DEF SchedAssumption, LwpStart, LwpInv, TypeOK
<1>3. CallInv'
  BY SchedAssumption DEF SchedAssumption, LwpStart, CallInv, LwpInv, OnStack,
     TypeOK
<1>4. AsksInv'
  <2> SUFFICES ASSUME NEW k \in Lwps, NEW s \in Uthreads
               PROVE  AsksOf(k, s)'
    BY DEF AsksInv
  <2>1. CASE k = l
    <3>1. ut_curthr'[k] = NULL
      BY <2>1 DEF LwpStart, LwpInv
    <3>2. s # NULL
      BY SchedAssumption DEF SchedAssumption
    <3> QED BY <3>1, <3>2 DEF AsksOf, OnStack
  <2>2. CASE k # l
    BY <2>2, AsksKept DEF LwpStart, TypeOK
  <2> QED BY <2>1, <2>2
<1>5. QueueInv'
  <2>1. /\ UNCHANGED <<waiters, ut_state, ut_curthr, curlwp, args>>
        /\ \A k \in Lwps : k # l => lpc'[k] = lpc[k]
        /\ ut_curthr[l] = NULL
    BY DEF LwpStart, LwpInv, TypeOK
  <2>2. \A s \in Uthreads : s # NULL
    BY SchedAssumption DEF SchedAssumption
  <2>3. \A k \in Lwps, s \in Uthreads : ut_curthr[k] = s => lpc'[k] = lpc[k]
    BY <2>1, <2>2
  <2> QED BY <2>1, <2>3, QueueKept DEF QueueInv, OnStack
<1>6. WakeInv'
  BY WakeKept, SchedAssumption DEF SchedAssumption, LwpStart, TypeOK
<1>7. RunqCoherent' /\ RunqSizeExact'
  BY RunqUntouched DEF LwpStart, TypeOK
<1>8. CountInv'
  <2>1. Started' = Started \cup {l} /\ l \notin Started /\ Parked' = Parked
    BY DEF LwpStart, Started, Parked, TypeOK
  <2>2. IsFiniteSet(Started)
    BY SchedAssumption, FS_Subset DEF SchedAssumption, Started
  <2>3. Cardinality(Started') = Cardinality(Started) + 1
    BY <2>1, <2>2, FS_AddElement
  <2> QED BY <2>1, <2>3 DEF CountInv, LwpStart
<1> QED BY <1>1, <1>2, <1>3, <1>4, <1>5, <1>6, <1>7, <1>8

\* An LWP that falls asleep is counted, and the last one is not let asleep.
LEMMA LwpParkStep ==
  ASSUME IInv, NEW l \in Lwps,
         ~panic, LwpPark(l)
  PROVE  IInv'
<1> USE DEF IInv, PlaceInv, Objs, threadVars, objVars, runqVars, lwpVars
<1>1. TypeOK'
  BY SchedAssumption DEF SchedAssumption, LwpPark, TypeOK, States, Calls,
     LwpPcs, SwitchArgs, NoArgs
<1>2. LwpInv'
  BY SchedAssumption DEF SchedAssumption, LwpPark, LwpInv, TypeOK
<1>3. CallInv'
  BY SchedAssumption DEF SchedAssumption, LwpPark, CallInv, LwpInv, OnStack,
     TypeOK
<1>4. AsksInv'
  <2> SUFFICES ASSUME NEW k \in Lwps, NEW s \in Uthreads
               PROVE  AsksOf(k, s)'
    BY DEF AsksInv
  <2>1. CASE k = l
    BY <2>1, SchedAssumption DEF SchedAssumption, LwpPark, TypeOK, AsksOf,
       Asks, OnStack, LwpInv, CallInv, NoArgs, SwitchArgs
  <2>2. CASE k # l
    BY <2>2, AsksKept, SchedAssumption DEF SchedAssumption, LwpPark, TypeOK,
       LwpInv, CallInv
  <2> QED BY <2>1, <2>2
<1>5. QueueInv'
  BY SchedAssumption DEF SchedAssumption, LwpPark, QueueInv, LwpInv, CallInv,
     AsksInv, AsksOf, Asks, OnStack, TypeOK, NoArgs
<1>6. WakeInv'
  BY WakeKept, SchedAssumption DEF SchedAssumption, LwpPark, TypeOK
<1>7. RunqCoherent' /\ RunqSizeExact'
  BY RunqUntouched DEF LwpPark, TypeOK
<1>8. CountInv'
  <2>1. CASE panic' \/ runq_size # 0
    BY <2>1 DEF LwpPark, CountInv, Started, Parked, TypeOK
  <2>2. CASE ~panic' /\ runq_size = 0
    <3>1. Parked' = Parked \cup {l} /\ l \notin Parked /\ Started' = Started
      BY <2>2 DEF LwpPark, Started, Parked, TypeOK
    <3>2. IsFiniteSet(Parked)
      BY SchedAssumption, FS_Subset DEF SchedAssumption, Parked
    <3>3. Cardinality(Parked') = Cardinality(Parked) + 1
      BY <3>1, <3>2, FS_AddElement
    <3> QED BY <2>2, <3>1, <3>3 DEF LwpPark, CountInv
  <2> QED BY <2>1, <2>2
<1> QED BY <1>1, <1>2, <1>3, <1>4, <1>5, <1>6, <1>7, <1>8

\* An LWP that returns from lwp_park is counted out.
LEMMA LwpUnparkStep ==
  ASSUME IInv, NEW l \in Lwps,
         ~panic, LwpUnpark(l)
  PROVE  IInv'
<1> USE DEF IInv, PlaceInv, Objs, threadVars, objVars, runqVars, lwpVars
<1>a. /\ IsFiniteSet(Parked) /\ l \in Parked
      /\ lwp_parked_cnt = Cardinality(Parked)
      /\ Cardinality(Parked \ {l}) = Cardinality(Parked) - 1
      /\ Cardinality(Parked \ {l}) \in Nat
  <2>1. IsFiniteSet(Parked) /\ l \in Parked
    BY SchedAssumption, FS_Subset DEF SchedAssumption, Parked, LwpUnpark
  <2>2. IsFiniteSet(Parked \ {l})
    BY <2>1, FS_RemoveElement
  <2> QED BY <2>1, <2>2, FS_RemoveElement, FS_CardinalityType DEF CountInv
<1>1. TypeOK'
  BY <1>a, SchedAssumption DEF SchedAssumption, LwpUnpark, TypeOK, LwpPcs
<1>2. LwpInv'
  BY SchedAssumption DEF SchedAssumption, LwpUnpark, LwpInv, TypeOK
<1>3. CallInv'
  BY SchedAssumption DEF SchedAssumption, LwpUnpark, CallInv, LwpInv, OnStack,
     TypeOK
<1>4. AsksInv'
  <2> SUFFICES ASSUME NEW k \in Lwps, NEW s \in Uthreads
               PROVE  AsksOf(k, s)'
    BY DEF AsksInv
  <2>1. CASE k = l
    BY <2>1, SchedAssumption DEF SchedAssumption, LwpUnpark, TypeOK, AsksOf,
       Asks, OnStack, LwpInv, CallInv, NoArgs, SwitchArgs
  <2>2. CASE k # l
    BY <2>2, AsksKept, SchedAssumption DEF SchedAssumption, LwpUnpark, TypeOK,
       LwpInv, CallInv
  <2> QED BY <2>1, <2>2
<1>5. QueueInv'
  BY SchedAssumption DEF SchedAssumption, LwpUnpark, QueueInv, LwpInv,
     CallInv, AsksInv, AsksOf, Asks, OnStack, TypeOK, NoArgs
<1>6. WakeInv'
  BY WakeKept, SchedAssumption DEF SchedAssumption, LwpUnpark, TypeOK
<1>7. RunqCoherent' /\ RunqSizeExact'
  BY RunqUntouched DEF LwpUnpark, TypeOK
<1>8. CountInv'
  <2>1. CASE runq_size = 0
    BY <2>1, CountUntouched DEF LwpUnpark, TypeOK
  <2>2. CASE runq_size # 0
    <3>1. Parked' = Parked \ {l} /\ Started' = Started
      BY <2>2 DEF LwpUnpark, Started, Parked, TypeOK
    <3> QED BY <1>a, <2>2, <3>1 DEF LwpUnpark, CountInv
  <2> QED BY <2>1, <2>2
<1> QED BY <1>1, <1>2, <1>3, <1>4, <1>5, <1>6, <1>7, <1>8

\* The uthread to be woken waits and is nowhere: it becomes runnable and is
\* put on the run queue.
LEMMA UthreadWakeStep ==
  ASSUME IInv, NEW l \in Lwps, NEW t \in Uthreads,
         UthreadWake(l, t)
  PROVE  IInv'
<1> USE DEF IInv, PlaceInv, Objs, threadVars, objVars, runqVars, lwpVars
<1> DEFINE w == target[t]
<1>a. /\ w \in Uthreads /\ Wakes(t, w) /\ ut_state[w] = "WAIT"
      /\ \A k \in Lwps : ut_curthr[k] # w
      /\ \A o \in Objs : ~Occurs(waiters[o], w)
      /\ \A u \in Uthreads : Wakes(u, w) => u = t
  BY DEF UthreadWake, Runs, CallInv, WakeInv, Wakes
<1>b. /\ RunqEnqueue(w, ut_prio[w], lpc)
      /\ ut_state' = [ut_state EXCEPT ![w] = "RUNNABLE"]
  BY <1>a DEF UthreadWake
<1>c. /\ runq_table' \in [Prios -> Seq(Uthreads)]
      /\ lpc' \in [Lwps -> LwpPcs] /\ Released(lpc, lpc')
      /\ ut_prio' = [ut_prio EXCEPT ![w] = ut_prio[w]] /\ ut_prio[w] \in Prios
  <2>1. /\ ut_prio' = ut_prio /\ ut_prio \in [Uthreads -> Prios]
        /\ lpc \in [Lwps -> LwpPcs] /\ runq_table \in [Prios -> Seq(Uthreads)]
    BY DEF TypeOK, UthreadWake
  <2>2. ut_prio' = [ut_prio EXCEPT ![w] = ut_prio[w]] /\ ut_prio[w] \in Prios
    BY <1>a, <2>1
  <2> QED BY <1>a, <1>b, <2>1, <2>2, RunqEnqueueEffect
<1>d. /\ RunqCoherent' /\ RunqSizeExact' /\ runq_size' \in Nat
  BY <1>a, <1>b, <1>c, RunqExtended DEF TypeOK
<1>e. /\ UNCHANGED <<pmut, waiters, ut_curthr, curlwp, args>>
      /\ \A r \in Uthreads : r # w => ut_state'[r] = ut_state[r]
      /\ \A r \in Uthreads : r # t => call'[r] = call[r]
      /\ ut_state'[w] = "RUNNABLE" /\ lpc[l] = "uthread"
      /\ ut_curthr[l] = t /\ call'[t] = "client"
  BY <1>a, <1>b DEF UthreadWake, Runs, TypeOK
<1>f. ASSUME NEW j \in Lwps, NEW r \in Uthreads, ut_curthr[j] = r
      PROVE  lpc[j] \in {"uthread", "lwp_switch"} /\ lpc'[j] = lpc[j]
  <2>1. r # NULL
    BY SchedAssumption DEF SchedAssumption
  <2>2. lpc[j] \in {"uthread", "lwp_switch"}
    BY <1>f, <2>1 DEF LwpInv
  <2> QED BY <1>c, <2>2 DEF Released
<1>g. /\ \A j \in Lwps, r \in Uthreads : ut_curthr[j] = r => r # w
      /\ \A o \in Objs, r \in Uthreads : Occurs(waiters[o], r) => r # w
  BY <1>a DEF CallInv, QueueInv
<1>1. TypeOK'
  <2>1. t \in Uthreads /\ "client" \in Calls /\ "RUNNABLE" \in States
    BY DEF Calls, States
  <2>2. /\ ut_state' \in [Uthreads -> States] /\ ut_prio' \in [Uthreads -> Prios]
        /\ panic' \in BOOLEAN
    BY <1>a, <1>b, <1>c, <2>1 DEF UthreadWake, TypeOK
  <2>3. /\ call' \in [Uthreads -> Calls]
        /\ target' \in [Uthreads -> Uthreads \cup {NULL}]
        /\ lwp_cnt' \in Nat /\ lwp_parked_cnt' \in Nat
        /\ runq_mtx' \in Lwps \cup {NULL}
    BY <2>1 DEF UthreadWake, TypeOK
  <2> QED BY <1>c, <1>d, <1>e, <2>2, <2>3 DEF TypeOK
<1>2. LwpInv'
  BY <1>c DEF UthreadWake, Released, LwpInv
<1>3. CallInv'
  <2>1. /\ \A s \in Uthreads : ut_state'[s] = IF s = w THEN "RUNNABLE"
                                                     ELSE ut_state[s]
        /\ \A s \in Uthreads : call'[s] = IF s = t THEN "client" ELSE call[s]
        /\ \A s \in Uthreads : s # t => target'[s] = target[s]
        /\ UNCHANGED <<args, pmut, ut_curthr>>
        /\ call[t] = "wake"
    BY <1>b DEF UthreadWake, Runs, TypeOK
  <2>2. \A k \in Lwps, s \in Uthreads : OnStack(k, s)' <=> OnStack(k, s)
    BY <1>c, <2>1 DEF OnStack, Released, LwpInv
  <2>3. args[t] = NoArgs
    BY <2>1 DEF CallInv
  <2>4. ASSUME NEW s \in Uthreads
        PROVE  /\ call'[s] # "client" => \E k \in Lwps : OnStack(k, s)'
               /\ call'[s] # "switch" => args'[s] = NoArgs
               /\ call'[s] \in {"wake", "start"} => target'[s] \in Uthreads
               /\ call'[s] = "start" => ut_state'[target'[s]] = "TRANSITION"
               /\ ut_state'[s] = "ON_CPU" => \E k \in Lwps : ut_curthr'[k] = s
    BY <1>a, <2>1, <2>2, <2>3 DEF CallInv
  <2>5. ASSUME NEW k \in Lwps, NEW s \in Uthreads, OnStack(k, s)'
        PROVE  /\ ut_state'[s] \in {"ON_CPU", "WAIT", "ZOMBIE"}
               /\ ut_state'[s] = "WAIT" => call'[s] = "switch"
    <3>1. OnStack(k, s) /\ s # w
      BY <1>a, <2>2, <2>5 DEF OnStack
    <3>2. call'[s] = "switch" \/ call[s] # "switch"
      BY <1>a, <2>1
    <3> QED BY <2>1, <3>1, <3>2 DEF CallInv
  <2>6. ASSUME NEW u1 \in Uthreads, NEW u2 \in Uthreads, call'[u1] = "start",
               call'[u2] = "start", target'[u1] = target'[u2]
        PROVE  u1 = u2
    BY <2>1, <2>6 DEF CallInv
  <2> QED BY <2>4, <2>5, <2>6 DEF CallInv
<1>4. AsksInv'
  <2> SUFFICES ASSUME NEW k \in Lwps, NEW s \in Uthreads
               PROVE  AsksOf(k, s)'
    BY DEF AsksInv
  <2>1. CASE s = t
    <3>1. ut_curthr'[k] = s => k = l
      BY <1>e, <2>1, SchedAssumption DEF SchedAssumption, LwpInv
    <3>2. lpc'[l] = "uthread"
      BY <1>e, <1>f
    <3> QED BY <1>e, <2>1, <3>1, <3>2 DEF AsksOf, OnStack
  <2>2. CASE s # t
    BY <1>e, <1>f, <1>g, <2>2, AsksKept
  <2> QED BY <2>1, <2>2
<1>5. QueueInv'
  BY <1>e, <1>f, <1>g, QueueKept DEF QueueInv, OnStack
<1>6. WakeInv'
  <2>1. \A u, s \in Uthreads : Wakes(u, s)' <=> Wakes(u, s) /\ u # t
    BY DEF UthreadWake, Wakes, TypeOK
  <2>2. \A s \in Uthreads : ut_state'[s] = "WAIT" <=> ut_state[s] = "WAIT" /\ s # w
    BY <1>b DEF TypeOK
  <2>3. UNCHANGED <<ut_curthr, waiters>>
    BY DEF UthreadWake
  <2>4. \A s \in Uthreads : Wakes(t, s) => s = w
    BY DEF Wakes
  <2> QED BY <1>a, <2>1, <2>2, <2>3, <2>4 DEF WakeInv
<1>7. RunqCoherent' /\ RunqSizeExact'
  BY <1>d
<1>8. CountInv'
  BY <1>c, CountUntouched DEF UthreadWake, Released
<1> QED BY <1>1, <1>2, <1>3, <1>4, <1>5, <1>6, <1>7, <1>8

\* The slot is in transition: Allocate gives every creator one of its own.
LEMMA UthreadStartOnRunqStep ==
  ASSUME IInv, NEW l \in Lwps, NEW t \in Uthreads, NEW prio \in Prios,
         UthreadStartOnRunq(l, t, prio)
  PROVE  IInv'
<1> USE DEF IInv, PlaceInv, Objs, threadVars, objVars, runqVars, lwpVars
<1> DEFINE w == target[t]
<1>a. w \in Uthreads /\ call[t] = "start" /\ ut_state[w] = "TRANSITION"
  BY DEF UthreadStartOnRunq, Runs, CallInv
<1>b. /\ RunqEnqueue(w, prio, lpc)
      /\ ut_state' = [ut_state EXCEPT ![w] = "RUNNABLE"]
      /\ ut_prio' = [ut_prio EXCEPT ![w] = prio]
      /\ UNCHANGED panic
  BY <1>a DEF UthreadStartOnRunq
<1>c. /\ runq_table' \in [Prios -> Seq(Uthreads)]
      /\ lpc' \in [Lwps -> LwpPcs] /\ Released(lpc, lpc')
  BY <1>a, <1>b, RunqEnqueueEffect DEF TypeOK
<1>d. /\ RunqCoherent' /\ RunqSizeExact' /\ runq_size' \in Nat
  BY <1>a, <1>b, RunqExtended DEF TypeOK
<1>e. /\ UNCHANGED <<pmut, waiters, ut_curthr, curlwp, args>>
      /\ \A r \in Uthreads : r # w => ut_state'[r] = ut_state[r]
      /\ \A r \in Uthreads : r # t => call'[r] = call[r]
      /\ ut_state'[w] = "RUNNABLE" /\ lpc[l] = "uthread"
      /\ ut_curthr[l] = t /\ call'[t] = "client"
  BY <1>a, <1>b DEF UthreadStartOnRunq, Runs, TypeOK
<1>f. ASSUME NEW j \in Lwps, NEW r \in Uthreads, ut_curthr[j] = r
      PROVE  lpc[j] \in {"uthread", "lwp_switch"} /\ lpc'[j] = lpc[j]
  <2>1. r # NULL
    BY SchedAssumption DEF SchedAssumption
  <2>2. lpc[j] \in {"uthread", "lwp_switch"}
    BY <1>f, <2>1 DEF LwpInv
  <2> QED BY <1>c, <2>2 DEF Released
<1>g. /\ \A j \in Lwps, r \in Uthreads : ut_curthr[j] = r => r # w
      /\ \A o \in Objs, r \in Uthreads : Occurs(waiters[o], r) => r # w
  <2>1. \A j \in Lwps, r \in Uthreads : ut_curthr[j] = r => r # w
    BY <1>a, CurrentUthread DEF UthreadStartOnRunq
  <2>2. \A o \in Objs, r \in Uthreads : Occurs(waiters[o], r) => r # w
    BY <1>a DEF QueueInv
  <2> QED BY <2>1, <2>2
<1>1. TypeOK'
  <2>1. t \in Uthreads /\ "client" \in Calls /\ "RUNNABLE" \in States
    BY DEF Calls, States
  <2>2. /\ ut_state' \in [Uthreads -> States] /\ ut_prio' \in [Uthreads -> Prios]
        /\ panic' \in BOOLEAN
    BY <1>a, <1>b, <2>1 DEF UthreadStartOnRunq, TypeOK
  <2>3. /\ call' \in [Uthreads -> Calls]
        /\ target' \in [Uthreads -> Uthreads \cup {NULL}]
        /\ lwp_cnt' \in Nat /\ lwp_parked_cnt' \in Nat
        /\ runq_mtx' \in Lwps \cup {NULL}
    BY <2>1 DEF UthreadStartOnRunq, TypeOK
  <2> QED BY <1>c, <1>d, <1>e, <2>2, <2>3 DEF TypeOK
<1>2. LwpInv'
  BY <1>c DEF UthreadStartOnRunq, Released, LwpInv
<1>3. CallInv'
  <2>1. /\ \A s \in Uthreads : ut_state'[s] = IF s = w THEN "RUNNABLE"
                                                     ELSE ut_state[s]
        /\ \A s \in Uthreads : call'[s] = IF s = t THEN "client" ELSE call[s]
        /\ \A s \in Uthreads : s # t => target'[s] = target[s]
        /\ UNCHANGED <<args, pmut, ut_curthr>>
        /\ call[t] = "start"
    BY <1>b DEF UthreadStartOnRunq, Runs, TypeOK
  <2>2. \A k \in Lwps, s \in Uthreads : OnStack(k, s)' <=> OnStack(k, s)
    BY <1>c, <2>1 DEF OnStack, Released, LwpInv
  <2>3. args[t] = NoArgs
    BY <2>1 DEF CallInv
  <2> QED BY <1>a, <2>1, <2>2, <2>3 DEF CallInv
<1>4. AsksInv'
  <2> SUFFICES ASSUME NEW k \in Lwps, NEW s \in Uthreads
               PROVE  AsksOf(k, s)'
    BY DEF AsksInv
  <2>1. CASE s = t
    <3>1. ut_curthr'[k] = s => k = l
      BY <1>e, <2>1, SchedAssumption DEF SchedAssumption, LwpInv
    <3>2. lpc'[l] = "uthread"
      BY <1>e, <1>f
    <3> QED BY <1>e, <2>1, <3>1, <3>2 DEF AsksOf, OnStack
  <2>2. CASE s # t
    BY <1>e, <1>f, <1>g, <2>2, AsksKept
  <2> QED BY <2>1, <2>2
<1>5. QueueInv'
  BY <1>e, <1>f, <1>g, QueueKept DEF QueueInv, OnStack
<1>6. WakeInv'
  BY <1>a, <1>b, <1>c, <1>d, WakeKept, SchedAssumption DEF SchedAssumption,
     UthreadStartOnRunq, Runs, TypeOK
<1>7. RunqCoherent' /\ RunqSizeExact'
  BY <1>d
<1>8. CountInv'
  BY <1>b, <1>c, CountUntouched DEF UthreadStartOnRunq, Released
<1> QED BY <1>1, <1>2, <1>3, <1>4, <1>5, <1>6, <1>7, <1>8

\* A runnable uthread moves to the queue of its new priority.
LEMMA UthreadSetprioStep ==
  ASSUME IInv, NEW l \in Lwps, NEW t \in Uthreads, NEW id \in Uthreads, NEW prio \in Prios,
         UthreadSetprio(l, t, id, prio)
  PROVE  IInv'
<1> USE DEF IInv, PlaceInv, Objs, threadVars, objVars, runqVars, lwpVars
<1>a. /\ RunqCoherent' /\ runq_table' \in [Prios -> Seq(Uthreads)]
  <2>1. CASE ut_state[id] # "RUNNABLE"
    BY <2>1 DEF UthreadSetprio, RunqCoherent, TypeOK
  <2>2. CASE ut_state[id] = "RUNNABLE"
    <3> DEFINE old == ut_prio[id]
               r == utqueue_remove(runq_table[old], id)
    <3>1. /\ old \in Prios /\ old # prio
          /\ NoDup(runq_table[old]) /\ Occurs(runq_table[old], id)
          /\ ~Occurs(runq_table[prio], id)
      BY <2>2 DEF UthreadSetprio, RunqCoherent, TypeOK
    <3>2. /\ r \in Seq(Uthreads) /\ NoDup(r)
          /\ \A u : Occurs(r, u) <=> Occurs(runq_table[old], u) /\ u # id
      BY <3>1, RemoveQueue DEF TypeOK
    <3> DEFINE e == utqueue_enqueue(runq_table[prio], id)
    <3>3. /\ e \in Seq(Uthreads) /\ NoDup(e)
          /\ \A u : Occurs(e, u) <=> Occurs(runq_table[prio], u) \/ u = id
      BY <3>1, EnqueueQueue DEF TypeOK, RunqCoherent
    <3>4. runq_table' = [p \in Prios |-> IF p = old THEN r
                                         ELSE IF p = prio THEN e
                                         ELSE runq_table[p]]
      BY <2>2, <3>1 DEF UthreadSetprio, RunqRequeue
    <3> HIDE DEF r, e
    <3>5. \A u \in Uthreads : ut_prio'[u] = IF u = id THEN prio ELSE ut_prio[u]
      BY DEF UthreadSetprio, TypeOK
    <3>6. UNCHANGED ut_state
      BY DEF UthreadSetprio
    <3>7. ASSUME NEW p \in Prios
          PROVE  /\ NoDup(runq_table'[p])
                 /\ \A u \in Uthreads :
                      Occurs(runq_table'[p], u) <=>
                        ut_state'[u] = "RUNNABLE" /\ ut_prio'[u] = p
      <4>1. CASE p = old
        BY <2>2, <3>1, <3>2, <3>4, <3>5, <3>6, <4>1 DEF RunqCoherent
      <4>2. CASE p = prio
        BY <2>2, <3>1, <3>3, <3>4, <3>5, <3>6, <4>2 DEF RunqCoherent
      <4>3. CASE p # old /\ p # prio
        BY <2>2, <3>1, <3>4, <3>5, <3>6, <4>3 DEF RunqCoherent
      <4> QED BY <4>1, <4>2, <4>3
    <3>8. runq_table' \in [Prios -> Seq(Uthreads)]
      BY <3>2, <3>3, <3>4 DEF TypeOK
    <3> QED BY <3>7, <3>8 DEF RunqCoherent
  <2> QED BY <2>1, <2>2
<1>1. TypeOK'
  <2>1. /\ call' \in [Uthreads -> Calls] /\ args' \in [Uthreads -> SwitchArgs]
    <3>1. [queue |-> NULL, saveonrq |-> TRUE, pmut |-> NULL] \in SwitchArgs
      BY DEF SwitchArgs
    <3>2. CASE UNCHANGED <<call, args>>
      BY <3>2 DEF TypeOK
    <3>3. CASE CallsSwitch(t, NULL, TRUE, NULL)
      BY <3>1, <3>3 DEF CallsSwitch, TypeOK, Calls
    <3> QED BY <3>2, <3>3 DEF UthreadSetprio
  <2> QED BY <1>a, <2>1 DEF UthreadSetprio, TypeOK
<1>2. LwpInv'
  BY <1>a, SchedAssumption DEF SchedAssumption, UthreadSetprio, Runs,
     CallsSwitch, LwpInv, TypeOK
<1>3. CallInv'
  <2>1. /\ \A s \in Uthreads : s # t => call'[s] = call[s] /\ args'[s] = args[s]
        /\ UNCHANGED <<ut_state, target, pmut, lpc, ut_curthr>>
        /\ call'[t] \in {"client", "switch"}
        /\ call'[t] = "client" => args'[t] = args[t]
        /\ lpc[l] = "uthread" /\ ut_curthr[l] = t /\ call[t] = "client"
        /\ ut_state[t] = "ON_CPU"
    BY DEF UthreadSetprio, Runs, CallsSwitch, TypeOK
  <2> QED BY <2>1 DEF CallInv, OnStack
<1>4. AsksInv'
  <2> SUFFICES ASSUME NEW k \in Lwps, NEW s \in Uthreads
               PROVE  AsksOf(k, s)'
    BY DEF AsksInv
  <2>1. CASE k = l
    BY <2>1, SchedAssumption DEF SchedAssumption, UthreadSetprio, Runs,
       CallsSwitch, TypeOK, AsksOf, Asks, OnStack, LwpInv, CallInv, NoArgs,
       SwitchArgs
  <2>2. CASE k # l
    BY <2>2, AsksKept, SchedAssumption DEF SchedAssumption, UthreadSetprio,
       Runs, CallsSwitch, TypeOK, LwpInv, CallInv
  <2> QED BY <2>1, <2>2
<1>b. /\ UNCHANGED <<ut_state, target, waiters, lpc, ut_curthr, curlwp>>
      /\ ut_state[t] = "ON_CPU"
      /\ call[t] = "client" /\ call'[t] \in {"client", "switch"}
      /\ \A s \in Uthreads : s # t => call'[s] = call[s] /\ args'[s] = args[s]
  BY DEF UthreadSetprio, Runs, CallsSwitch, TypeOK
<1>5. QueueInv'
  <2>1. \A o \in Objs, s \in Uthreads :
          Occurs(waiters[o], s) => ut_state'[s] = "WAIT" /\ args'[s] = args[s]
    BY <1>b DEF QueueInv
  <2>2. ASSUME NEW z \in Uthreads, ut_state'[z] = "ZOMBIE", waiters[z] # <<>>
        PROVE  \E k \in Lwps : lpc'[k] = "uthread" /\ ut_curthr'[k] = z
    BY <1>b, <2>2 DEF QueueInv, OnStack
  <2>3. QueueInv
    OBVIOUS
  <2> HIDE DEF IInv, PlaceInv, QueueInv
  <2> QED BY <1>b, <2>1, <2>2, <2>3, QueueKept
<1>6. WakeInv'
  <2>1. /\ WakeInv
        /\ \A s \in Uthreads : call'[s] = "wake" <=> call[s] = "wake"
    BY <1>b
  <2> HIDE DEF IInv, PlaceInv
  <2> QED BY <1>b, <2>1, WakeKept
<1>7. RunqCoherent' /\ RunqSizeExact'
  BY <1>a DEF UthreadSetprio, RunqSizeExact, TypeOK
<1>8. CountInv'
  BY <1>a, CountUntouched DEF UthreadSetprio, Runs, CallsSwitch, TypeOK
<1> QED BY <1>1, <1>2, <1>3, <1>4, <1>5, <1>6, <1>7, <1>8

\* The joiner is on the queue of the uthread it joins, whose ut_pmut its LWP
\* holds until the switch.
LEMMA WaitForExitStep ==
  ASSUME IInv, NEW l \in Lwps, NEW t \in Uthreads, NEW thr \in Uthreads,
         WaitForExit(l, t, thr)
  PROVE  IInv'
<1> USE DEF IInv, PlaceInv, Objs, threadVars, objVars, runqVars, lwpVars
<1>a. /\ waiters' \in [Objs -> Seq(Uthreads)]
      /\ \A o \in Objs : NoDup(waiters'[o])
      /\ \A o \in Objs, u \in Uthreads :
           Occurs(waiters'[o], u) <=> Occurs(waiters[o], u) \/ (o = thr /\ u = t)
      /\ \A o \in Objs : o # thr => waiters'[o] = waiters[o]
  <2>1. waiters[thr] = <<>> /\ waiters[thr] \in Seq(Uthreads)
    BY DEF WaitForExit, TypeOK
  <2>2. /\ utqueue_enqueue(waiters[thr], t) \in Seq(Uthreads)
        /\ NoDup(utqueue_enqueue(waiters[thr], t))
        /\ \A u : Occurs(utqueue_enqueue(waiters[thr], t), u) <=>
                    Occurs(waiters[thr], u) \/ u = t
    <3>1. NoDup(waiters[thr]) /\ ~Occurs(waiters[thr], t)
      BY <2>1, EmptyQueue
    <3> QED BY <2>1, <3>1, EnqueueQueue
  <2>3. \A o \in Objs : waiters'[o] = IF o = thr
                                      THEN utqueue_enqueue(waiters[o], t)
                                      ELSE waiters[o]
    BY DEF WaitForExit, TypeOK
  <2>4. waiters' \in [Objs -> Seq(Uthreads)]
    BY <2>2 DEF WaitForExit, TypeOK
  <2> QED BY <2>2, <2>3, <2>4 DEF QueueInv
<1>b. /\ ut_curthr[l] = t /\ lpc[l] = "uthread" /\ call[t] = "client"
      /\ ut_state[t] = "ON_CPU" /\ Active(thr)
      /\ ut_state' = [ut_state EXCEPT ![t] = "WAIT"]
      /\ pmut' = [pmut EXCEPT ![thr] = l] /\ pmut[thr] \in {NULL, l}
      /\ call' = [call EXCEPT ![t] = "switch"]
      /\ args' = [args EXCEPT ![t] = [queue |-> NULL, saveonrq |-> FALSE,
                                      pmut |-> thr]]
      /\ UNCHANGED <<ut_prio, target, runqVars, runq_mtx, lwpVars, panic>>
  BY DEF WaitForExit, Runs, CallsSwitch, MayLock
<1>1. TypeOK'
  BY <1>a, <1>b, SchedAssumption DEF SchedAssumption, TypeOK, States, Calls,
     SwitchArgs
<1>2. LwpInv'
  BY <1>b DEF LwpInv, TypeOK
<1>3. CallInv'
  BY <1>b, SchedAssumption DEF SchedAssumption, CallInv, LwpInv, OnStack,
     TypeOK
<1>4. AsksInv'
  <2> SUFFICES ASSUME NEW k \in Lwps, NEW s \in Uthreads
               PROVE  AsksOf(k, s)'
    BY DEF AsksInv
  <2>1. CASE k = l
    BY <1>a, <1>b, <2>1 DEF AsksOf, Asks, OnStack, TypeOK
  <2>2. CASE k # l
    <3>1. ut_curthr[k] # t /\ (ut_curthr[k] = s => s # t)
      BY <1>b, <2>2, SchedAssumption DEF SchedAssumption, LwpInv
    <3>2. \A m \in Objs : pmut[m] = k => pmut'[m] = k
      BY <1>b, <2>2, SchedAssumption DEF SchedAssumption, TypeOK
    <3>3. ut_state[s] = "ZOMBIE" => s # thr
      BY <1>b DEF Active
    <3>4. ut_state[s] = "ZOMBIE" => waiters'[s] = waiters[s]
      BY <1>a, <3>3
    <3> QED BY <1>a, <1>b, <3>1, <3>2, <3>4, AsksKept DEF TypeOK
  <2> QED BY <2>1, <2>2
<1>5. QueueInv'
  <2>1. \A o \in Objs : ~Occurs(waiters[o], t)
    BY <1>b DEF QueueInv
  <2>2. \A s \in Uthreads : ut_state'[s] = IF s = t THEN "WAIT" ELSE ut_state[s]
    BY <1>b DEF TypeOK
  <2>3. \A o \in Objs, k \in Lwps, s \in Uthreads :
          (Occurs(waiters[o], s) /\ ut_curthr[k] = s =>
             LET a == IF lpc[k] = "lwp_switch" THEN curlwp[k] ELSE args[s]
             IN  a.pmut = o /\ a.queue = NULL)'
    <3> SUFFICES ASSUME NEW o \in Objs, NEW k \in Lwps, NEW s \in Uthreads,
                        Occurs(waiters'[o], s), ut_curthr[k] = s
                 PROVE  LET a == IF lpc[k] = "lwp_switch" THEN curlwp[k]
                                                          ELSE args'[s]
                        IN  a.pmut = o /\ a.queue = NULL
      BY <1>b
    <3>1. CASE s = t
      <4>1. k = l /\ o = thr
        BY <1>a, <1>b, <2>1, <3>1, SchedAssumption DEF SchedAssumption, LwpInv
      <4> QED BY <1>b, <3>1, <4>1 DEF TypeOK
    <3>2. CASE s # t
      BY <1>a, <1>b, <3>2 DEF QueueInv, TypeOK
    <3> QED BY <3>1, <3>2
  <2>4. \A z \in Uthreads :
          (ut_state[z] = "ZOMBIE" /\ waiters[z] # <<>> =>
             \E k \in Lwps : OnStack(k, z))'
    <3> SUFFICES ASSUME NEW z \in Uthreads, ut_state'[z] = "ZOMBIE",
                        waiters'[z] # <<>>
                 PROVE  \E k \in Lwps : OnStack(k, z)
      BY <1>b DEF OnStack, lwpVars
    <3>1. z # t /\ ut_state[z] = "ZOMBIE"
      BY <2>2
    <3>2. z # thr
      BY <1>b, <3>1 DEF Active
    <3>3. waiters[z] # <<>>
      BY <1>a, <3>2
    <3> QED BY <3>1, <3>3 DEF QueueInv
  <2>5. /\ \A o \in Objs, s \in Uthreads :
             Occurs(waiters'[o], s) => ut_state'[s] = "WAIT"
        /\ \A o1, o2 \in Objs, s \in Uthreads :
             Occurs(waiters'[o1], s) /\ Occurs(waiters'[o2], s) => o1 = o2
    <3>1. \A o \in Objs, s \in Uthreads :
            Occurs(waiters'[o], s) =>
              (Occurs(waiters[o], s) /\ s # t) \/ (o = thr /\ s = t)
      BY <1>a, <2>1
    <3> QED BY <2>2, <3>1 DEF QueueInv
  <2> QED BY <1>a, <2>3, <2>4, <2>5 DEF QueueInv
<1>6. WakeInv'
  BY <1>a, <1>b, WakeKept DEF TypeOK
<1>7. RunqCoherent' /\ RunqSizeExact'
  BY <1>b, RunqUntouched DEF TypeOK
<1>8. CountInv'
  BY <1>b, CountUntouched DEF TypeOK
<1> QED BY <1>1, <1>2, <1>3, <1>4, <1>5, <1>6, <1>7, <1>8

\* The uthread picked is on the run queue and nowhere else.
LEMMA LwpDispatchStep ==
  ASSUME IInv, NEW l \in Lwps,
         LwpDispatch(l)
  PROVE  IInv'
<1> USE DEF IInv, PlaceInv, Objs, threadVars, objVars, runqVars, lwpVars
<1>a. PICK p \in Prios :
        /\ runq_table[p] # <<>>
        /\ runq_table' = [runq_table EXCEPT ![p] = Tail(@)]
        /\ runq_size' = runq_size - 1
        /\ ut_curthr' = [ut_curthr EXCEPT ![l] = Head(runq_table[p])]
        /\ ut_state' = [ut_state EXCEPT ![Head(runq_table[p])] = "ON_CPU"]
  BY DEF LwpDispatch, FirstNonEmpty
<1> DEFINE n == Head(runq_table[p])
<1>b. /\ n \in Uthreads /\ Tail(runq_table[p]) \in Seq(Uthreads)
      /\ Occurs(runq_table[p], n)
      /\ NoDup(Tail(runq_table[p]))
      /\ \A u : Occurs(Tail(runq_table[p]), u) <=>
                  Occurs(runq_table[p], u) /\ u # n
  BY <1>a, DequeueQueue DEF TypeOK, RunqCoherent
<1>c. ut_state[n] = "RUNNABLE" /\ ut_prio[n] = p
  BY <1>b DEF RunqCoherent
<1>d. /\ \A k \in Lwps : ut_curthr[k] # n
      /\ \A o \in Objs : ~Occurs(waiters[o], n)
      /\ \A u \in Uthreads : ~Wakes(u, n)
      /\ call[n] = "client"
  <2>1. \A k \in Lwps : ut_curthr[k] # n
    BY <1>b, <1>c, CurrentUthread
  <2>2. \A o \in Objs : ~Occurs(waiters[o], n)
    BY <1>b, <1>c DEF QueueInv
  <2>3. \A u \in Uthreads : ~Wakes(u, n)
    BY <1>b, <1>c DEF WakeInv
  <2>4. call[n] = "client"
    BY <1>b, <2>1 DEF CallInv, OnStack
  <2> QED BY <2>1, <2>2, <2>3, <2>4
<1>e. /\ \A s \in Uthreads : ut_state'[s] = IF s = n THEN "ON_CPU"
                                                     ELSE ut_state[s]
      /\ \A k \in Lwps : ut_curthr'[k] = IF k = l THEN n ELSE ut_curthr[k]
      /\ \A k \in Lwps : lpc'[k] = IF k = l THEN "uthread" ELSE lpc[k]
      /\ lpc[l] = "search" /\ runq_mtx' = NULL
      /\ UNCHANGED <<ut_prio, call, target, args, pmut, waiters, curlwp,
                     lwp_cnt, lwp_parked_cnt, panic>>
  BY <1>a, <1>b DEF LwpDispatch, TypeOK
<1>f. ut_curthr[l] = NULL /\ runq_mtx = l /\ n # NULL /\ l # NULL
  BY <1>b, <1>e, SchedAssumption DEF SchedAssumption, LwpInv
<1>g. \A k \in Lwps, s \in Uthreads : s # n =>
        /\ ut_curthr'[k] = s <=> ut_curthr[k] = s
        /\ ut_curthr[k] = s => lpc'[k] = lpc[k]
        /\ OnStack(k, s)' <=> OnStack(k, s)
  BY <1>e, <1>f, SchedAssumption DEF SchedAssumption, OnStack
<1> HIDE DEF n
<1>1. TypeOK'
  <2>1. runq_size' \in Nat
    <3> DEFINE R == {u \in Uthreads : ut_state[u] = "RUNNABLE"}
    <3>1. n \in R /\ IsFiniteSet(R) /\ runq_size = Cardinality(R)
      BY <1>b, <1>c, SchedAssumption, FS_Subset
         DEF SchedAssumption, RunqSizeExact
    <3>2. IsFiniteSet(R \ {n}) /\ Cardinality(R \ {n}) = Cardinality(R) - 1
      BY <3>1, FS_RemoveElement
    <3>3. Cardinality(R \ {n}) \in Nat
      BY <3>2, FS_CardinalityType
    <3> QED BY <1>a, <3>1, <3>2, <3>3
  <2>2. runq_table' \in [Prios -> Seq(Uthreads)]
    BY <1>a, <1>b DEF TypeOK
  <2>3. /\ ut_state' \in [Uthreads -> States]
        /\ ut_curthr' \in [Lwps -> Uthreads \cup {NULL}]
        /\ lpc' \in [Lwps -> LwpPcs]
    BY <1>a, <1>b DEF LwpDispatch, TypeOK, States, LwpPcs, n
  <2> QED BY <1>e, <2>1, <2>2, <2>3 DEF TypeOK
<1>2. LwpInv'
  <2>1. ASSUME NEW k \in Lwps
        PROVE  /\ runq_mtx' = k <=> lpc'[k] \in {"lwp_switch", "search"}
               /\ lpc'[k] = "uthread" => ut_curthr'[k] # NULL
               /\ lpc'[k] \notin {"uthread", "lwp_switch"} => ut_curthr'[k] = NULL
               /\ lpc'[k] # "lwp_switch" \/ ut_curthr'[k] = NULL
                    => curlwp'[k] = NoArgs
    <3>1. k # NULL
      BY SchedAssumption DEF SchedAssumption
    <3> QED BY <1>e, <1>f, <3>1 DEF LwpInv
  <2>2. \A k1, k2 \in Lwps :
          ut_curthr'[k1] = ut_curthr'[k2] /\ ut_curthr'[k1] # NULL => k1 = k2
    BY <1>d, <1>e DEF LwpInv
  <2> QED BY <2>1, <2>2 DEF LwpInv
<1>3. CallInv'
  <2>1. ASSUME NEW s \in Uthreads
        PROVE  /\ call[s] # "client" => \E k \in Lwps : OnStack(k, s)'
               /\ ut_state'[s] = "ON_CPU" => \E k \in Lwps : ut_curthr'[k] = s
               /\ call[s] = "start" => ut_state'[target[s]] = "TRANSITION"
    <3>1. CASE s = n
      BY <1>d, <1>e, <3>1
    <3>2. CASE s # n
      BY <1>b, <1>c, <1>e, <1>g, <3>2 DEF CallInv
    <3> QED BY <3>1, <3>2
  <2>2. ASSUME NEW k \in Lwps, NEW s \in Uthreads
        PROVE  OnStack(k, s)' =>
                 /\ ut_state'[s] \in {"ON_CPU", "WAIT", "ZOMBIE"}
                 /\ ut_state'[s] = "WAIT" => call[s] = "switch"
    <3>1. CASE s = n
      BY <1>e, <3>1
    <3>2. CASE s # n
      BY <1>e, <1>g, <3>2 DEF CallInv
    <3> QED BY <3>1, <3>2
  <2> QED BY <1>e, <2>1, <2>2 DEF CallInv
<1>4. AsksInv'
  <2> SUFFICES ASSUME NEW k \in Lwps, NEW s \in Uthreads
               PROVE  AsksOf(k, s)'
    BY DEF AsksInv
  <2>1. CASE s = n
    BY <1>d, <1>e, <1>f, <2>1, SchedAssumption
       DEF SchedAssumption, AsksOf, OnStack, LwpInv
  <2>2. CASE s # n
    BY <1>e, <1>g, <2>2, AsksKept
  <2> QED BY <2>1, <2>2
<1>5. QueueInv'
  BY <1>b, <1>d, <1>e, <1>g, QueueKept DEF QueueInv, OnStack
<1>6. WakeInv'
  <2>1. \A u, s \in Uthreads : Wakes(u, s)' <=> Wakes(u, s)
    BY <1>e DEF Wakes
  <2>2. ASSUME NEW s \in Uthreads, ut_state'[s] = "WAIT"
        PROVE  s # n /\ ut_state[s] = "WAIT"
    BY <1>e, <2>2
  <2>3. ASSUME NEW u \in Uthreads, NEW s \in Uthreads, Wakes(u, s)
        PROVE  /\ ut_state'[s] = "WAIT"
               /\ \A k \in Lwps : ut_curthr'[k] # s
               /\ \A o \in Objs : ~Occurs(waiters'[o], s)
    <3>1. s # n
      BY <1>d, <2>3
    <3> QED BY <1>e, <1>g, <2>3, <3>1 DEF WakeInv
  <2>4. ASSUME NEW s \in Uthreads, ut_state'[s] = "WAIT"
        PROVE  \/ \E k \in Lwps : ut_curthr'[k] = s
               \/ \E o \in Objs : Occurs(waiters'[o], s)
               \/ \E u \in Uthreads : Wakes(u, s)
    BY <1>e, <1>g, <2>2, <2>4 DEF WakeInv
  <2> QED BY <2>1, <2>3, <2>4 DEF WakeInv
<1>7. RunqCoherent' /\ RunqSizeExact'
  <2>1. RunqCoherent'
    <3>1. \A q \in Prios : runq_table'[q] = IF q = p THEN Tail(runq_table[p])
                                                     ELSE runq_table[q]
      BY <1>a DEF TypeOK
    <3> QED BY <1>b, <1>c, <1>e, <3>1 DEF RunqCoherent
  <2>2. RunqSizeExact'
    <3> DEFINE R == {u \in Uthreads : ut_state[u] = "RUNNABLE"}
    <3>1. {u \in Uthreads : ut_state'[u] = "RUNNABLE"} = R \ {n} /\ n \in R
      BY <1>b, <1>c, <1>e
    <3>2. IsFiniteSet(R)
      BY SchedAssumption, FS_Subset DEF SchedAssumption
    <3>3. Cardinality(R \ {n}) = Cardinality(R) - 1
      BY <3>1, <3>2, FS_RemoveElement
    <3> QED BY <1>a, <3>1, <3>3 DEF RunqSizeExact
  <2> QED BY <2>1, <2>2
<1>8. CountInv'
  BY <1>e, CountUntouched
<1> QED BY <1>1, <1>2, <1>3, <1>4, <1>5, <1>6, <1>7, <1>8

\* The waiter that is taken off the queue has left its stack, since the queue's
\* POSIX mutex was free or the taker's.
LEMMA TakeWaiterStep ==
  ASSUME IInv, NEW l \in Lwps, NEW t \in Uthreads, NEW o \in Objs,
         NEW keep \in BOOLEAN,
         TakeWaiter(l, t, o, keep)
  PROVE  IInv'
<1> USE DEF IInv, PlaceInv, Objs, threadVars, objVars, runqVars, lwpVars
<1> DEFINE h == Head(waiters[o])
<1>a. /\ lpc[l] = "uthread" /\ ut_curthr[l] = t /\ call[t] = "client"
      /\ pmut[o] \in {NULL, l} /\ waiters[o] # <<>>
      /\ o \in Uthreads => o = t /\ ut_state[t] = "ZOMBIE" /\ keep
      /\ pmut' = [pmut EXCEPT ![o] = IF keep THEN l ELSE NULL]
      /\ waiters' = [waiters EXCEPT ![o] = Tail(@)]
      /\ call' = [call EXCEPT ![t] = "wake"]
      /\ target' = [target EXCEPT ![t] = h]
      /\ UNCHANGED <<ut_state, ut_prio, args, runqVars, runq_mtx, lwpVars,
                     panic>>
  BY DEF TakeWaiter, Runs, MayLock
<1>b. /\ h \in Uthreads /\ Occurs(waiters[o], h)
      /\ Tail(waiters[o]) \in Seq(Uthreads) /\ NoDup(Tail(waiters[o]))
      /\ \A u : Occurs(Tail(waiters[o]), u) <=> Occurs(waiters[o], u) /\ u # h
  BY <1>a, DequeueQueue DEF TypeOK, QueueInv
<1> HIDE DEF h
<1>c. /\ waiters' \in [Objs -> Seq(Uthreads)]
      /\ \A q \in Objs : NoDup(waiters'[q])
      /\ \A q \in Objs, u \in Uthreads :
           Occurs(waiters'[q], u) <=> Occurs(waiters[q], u) /\ ~(q = o /\ u = h)
      /\ \A q \in Objs : q # o => waiters'[q] = waiters[q]
  BY <1>a, <1>b DEF TypeOK, QueueInv
<1>d. ut_state[h] = "WAIT"
  BY <1>b DEF QueueInv
<1>e. \A k \in Lwps : ut_curthr[k] # h
  <2> SUFFICES ASSUME NEW k \in Lwps, ut_curthr[k] = h
               PROVE  FALSE
    OBVIOUS
  <2>1. lpc[k] \in {"uthread", "lwp_switch"} /\ k # NULL
    BY <1>b, SchedAssumption DEF SchedAssumption, LwpInv
  <2>2. CASE lpc[k] = "lwp_switch"
    <3>1. Asks(k, h, curlwp[k]) /\ curlwp[k].pmut = o
      BY <1>b, <2>2 DEF AsksInv, AsksOf, QueueInv
    <3>2. pmut[o] = k
      BY <1>d, <3>1 DEF Asks
    <3> QED BY <1>a, <2>1, <2>2, <3>2
  <2>3. CASE lpc[k] = "uthread"
    <3>1. call[h] = "switch" /\ args[h].pmut = o
      BY <1>b, <1>d, <2>3 DEF CallInv, OnStack, QueueInv
    <3>2. pmut[o] = k
      BY <1>b, <1>d, <2>3, <3>1 DEF AsksInv, AsksOf, OnStack, Asks
    <3>3. k = l /\ h = t
      BY <1>a, <2>1, <3>2
    <3> QED BY <1>a, <3>1, <3>3
  <2> QED BY <2>1, <2>2, <2>3
<1>f. /\ \A u \in Uthreads : ~Wakes(u, h)
      /\ \A q \in Objs : ~Occurs(waiters'[q], h)
  BY <1>b, <1>c DEF WakeInv, QueueInv
<1>g. /\ \A s \in Uthreads : call'[s] = IF s = t THEN "wake" ELSE call[s]
      /\ \A s \in Uthreads : target'[s] = IF s = t THEN h ELSE target[s]
      /\ \A q \in Objs : q # o => pmut'[q] = pmut[q]
      /\ pmut'[o] \in {l, NULL} /\ (keep => pmut'[o] = l)
      /\ UNCHANGED <<ut_state, lpc, ut_curthr, curlwp, args, runq_mtx>>
  BY <1>a DEF TypeOK
<1>1. TypeOK'
  BY <1>a, <1>b, <1>c DEF TypeOK, Calls
<1>2. LwpInv'
  BY <1>g DEF LwpInv
<1>3. CallInv'
  BY <1>a, <1>b, <1>g, SchedAssumption
     DEF SchedAssumption, CallInv, LwpInv, OnStack
<1>4. AsksInv'
  <2> SUFFICES ASSUME NEW k \in Lwps, NEW s \in Uthreads
               PROVE  AsksOf(k, s)'
    BY DEF AsksInv
  <2>1. CASE k = l
    BY <1>a, <1>g, <2>1, SchedAssumption
       DEF SchedAssumption, AsksOf, OnStack, LwpInv
  <2>2. CASE k # l
    <3>1. ut_curthr[k] = s => s # t /\ s # h
      BY <1>a, <1>e, <2>2, SchedAssumption DEF SchedAssumption, LwpInv
    <3>2. \A m \in Objs : pmut[m] = k => m # o /\ pmut'[m] = k
      BY <1>a, <1>g, <2>2, SchedAssumption DEF SchedAssumption
    <3>3. s # t => waiters'[s] = waiters[s]
      BY <1>a, <1>c
    <3> QED BY <1>c, <1>g, <3>1, <3>2, <3>3, AsksKept
  <2> QED BY <2>1, <2>2
<1>5. QueueInv'
  <2>1. \A z \in Uthreads :
          (ut_state[z] = "ZOMBIE" /\ waiters[z] # <<>> =>
             \E k \in Lwps : OnStack(k, z))'
    <3> SUFFICES ASSUME NEW z \in Uthreads, ut_state[z] = "ZOMBIE",
                        waiters'[z] # <<>>
                 PROVE  \E k \in Lwps : OnStack(k, z)
      BY <1>g DEF OnStack
    <3>1. waiters[z] # <<>>
      BY <1>a, <1>c
    <3> QED BY <3>1 DEF QueueInv
  <2>2. \A q \in Objs, k \in Lwps, s \in Uthreads :
          (Occurs(waiters[q], s) /\ ut_curthr[k] = s =>
             LET a == IF lpc[k] = "lwp_switch" THEN curlwp[k] ELSE args[s]
             IN  a.pmut = q /\ a.queue = NULL)'
    <3> SUFFICES ASSUME NEW q \in Objs, NEW k \in Lwps, NEW s \in Uthreads,
                        Occurs(waiters'[q], s), ut_curthr'[k] = s
                 PROVE  LET a == IF lpc'[k] = "lwp_switch" THEN curlwp'[k]
                                                           ELSE args'[s]
                        IN  a.pmut = q /\ a.queue = NULL
      OBVIOUS
    <3>1. Occurs(waiters[q], s) /\ ut_curthr[k] = s
      BY <1>c, <1>g
    <3> QED BY <1>g, <3>1 DEF QueueInv
  <2>3. /\ \A q \in Objs, s \in Uthreads :
             Occurs(waiters'[q], s) => ut_state'[s] = "WAIT"
        /\ \A o1, o2 \in Objs, s \in Uthreads :
             Occurs(waiters'[o1], s) /\ Occurs(waiters'[o2], s) => o1 = o2
    BY <1>c, <1>g DEF QueueInv
  <2> QED BY <1>c, <2>1, <2>2, <2>3 DEF QueueInv
<1>6. WakeInv'
  <2>1. \A u, s \in Uthreads :
          Wakes(u, s)' <=> IF u = t THEN s = h ELSE Wakes(u, s)
    BY <1>g DEF Wakes
  <2>2. \A s \in Uthreads : ~Wakes(t, s)
    BY <1>a DEF Wakes
  <2>3. ASSUME NEW u \in Uthreads, NEW s \in Uthreads, Wakes(u, s)'
        PROVE  /\ ut_state'[s] = "WAIT"
               /\ \A k \in Lwps : ut_curthr'[k] # s
               /\ \A q \in Objs : ~Occurs(waiters'[q], s)
    BY <1>c, <1>d, <1>e, <1>f, <1>g, <2>1, <2>3 DEF WakeInv
  <2>4. ASSUME NEW s \in Uthreads, ut_state'[s] = "WAIT"
        PROVE  \/ \E k \in Lwps : ut_curthr'[k] = s
               \/ \E q \in Objs : Occurs(waiters'[q], s)
               \/ \E u \in Uthreads : Wakes(u, s)'
    <3>1. CASE s = h
      BY <1>a, <2>1, <3>1
    <3>2. CASE s # h
      <4>1. ut_state[s] = "WAIT"
        BY <1>g, <2>4
      <4>2. \A q \in Objs : Occurs(waiters'[q], s) <=> Occurs(waiters[q], s)
        BY <1>c, <3>2
      <4>3. \A u \in Uthreads : Wakes(u, s) => Wakes(u, s)'
        BY <2>1, <2>2
      <4> QED BY <1>g, <4>1, <4>2, <4>3 DEF WakeInv
    <3> QED BY <3>1, <3>2
  <2>5. \A u1, u2, s \in Uthreads : Wakes(u1, s)' /\ Wakes(u2, s)' => u1 = u2
    BY <1>f, <2>1 DEF WakeInv
  <2> QED BY <2>3, <2>4, <2>5 DEF WakeInv
<1>7. RunqCoherent' /\ RunqSizeExact'
  BY <1>a, RunqUntouched
<1>8. CountInv'
  BY <1>a, CountUntouched
<1> QED BY <1>1, <1>2, <1>3, <1>4, <1>5, <1>6, <1>7, <1>8

\* Each request is served as its uthread's state allows: a running uthread goes
\* to the run queue, a waiting one to its waiter queue, an exited one nowhere;
\* then the mutex is unlocked.
LEMMA LwpSwitchStep ==
  ASSUME IInv, NEW l \in Lwps,
         LwpSwitch(l)
  PROVE  IInv'
<1> USE DEF IInv, PlaceInv, Objs, threadVars, objVars, runqVars, lwpVars
<1> DEFINE t == ut_curthr[l]
           a == curlwp[l]
           pcs == [lpc EXCEPT ![l] = "search"]
<1>a. /\ lpc[l] = "lwp_switch" /\ runq_mtx = l /\ l # NULL
      /\ t # NULL => t \in Uthreads /\ Asks(l, t, a)
      /\ t = NULL => a.queue = NULL /\ ~a.saveonrq /\ a.pmut = NULL
      /\ pcs \in [Lwps -> LwpPcs]
  BY SchedAssumption DEF SchedAssumption, LwpSwitch, LwpInv, AsksInv, AsksOf,
     TypeOK, NoArgs, LwpPcs
\* what becomes of the uthread and of the mutex
<1>b. /\ a.saveonrq /\ t # NULL /\ ut_state[t] # "ZOMBIE" <=>
           t # NULL /\ ut_state[t] = "ON_CPU"
      /\ a.queue # NULL =>
           t # NULL /\ ut_state[t] = "WAIT" /\ a.pmut = a.queue /\ a.queue \in SyncObjs
      /\ a.pmut # NULL => a.pmut \in Objs /\ pmut[a.pmut] = l
      /\ t # NULL /\ ut_state[t] = "WAIT" =>
           a.pmut # NULL /\ (a.queue = NULL => Occurs(waiters[a.pmut], t))
  BY <1>a, SchedAssumption DEF SchedAssumption, Asks
<1>c. /\ ut_curthr' = [ut_curthr EXCEPT ![l] = NULL]
      /\ curlwp' = [curlwp EXCEPT ![l] = NoArgs]
      /\ pmut' = IF a.pmut # NULL THEN [pmut EXCEPT ![a.pmut] = NULL] ELSE pmut
      /\ UNCHANGED <<ut_prio, call, target, args, runq_mtx, lwp_cnt,
                     lwp_parked_cnt, panic>>
  BY DEF LwpSwitch
<1>d. /\ waiters' \in [Objs -> Seq(Uthreads)]
      /\ \A o \in Objs : NoDup(waiters'[o])
      /\ \A o \in Objs, s \in Uthreads :
           Occurs(waiters'[o], s) <=>
             \/ Occurs(waiters[o], s)
             \/ t # NULL /\ s = t /\ ut_state[t] = "WAIT" /\ o = a.pmut
      /\ \A z \in Uthreads : ut_state[z] = "ZOMBIE" =>
           (waiters'[z] # <<>> => waiters[z] # <<>>)
  <2>1. CASE a.queue = NULL
    <3>1. waiters' = waiters
      BY <2>1 DEF LwpSwitch
    <3> QED BY <1>a, <1>b, <2>1, <3>1 DEF TypeOK, QueueInv
  <2>2. CASE a.queue # NULL
    <3> DEFINE q == a.queue
               e == utqueue_enqueue(waiters[q], t)
    <3>1. /\ q \in Objs /\ q \in SyncObjs /\ t \in Uthreads
          /\ a.pmut = q /\ ut_state[t] = "WAIT"
          /\ waiters' = [waiters EXCEPT ![q] = e]
      BY <1>a, <1>b, <2>2 DEF LwpSwitch
    <3>2. ~Occurs(waiters[q], t)
      BY <1>a, <2>2, <3>1 DEF QueueInv
    <3>3. /\ e \in Seq(Uthreads) /\ NoDup(e)
          /\ \A u : Occurs(e, u) <=> Occurs(waiters[q], u) \/ u = t
      <4>1. waiters[q] \in Seq(Uthreads) /\ NoDup(waiters[q])
        BY <3>1 DEF TypeOK, QueueInv
      <4> HIDE DEF q, t
      <4> QED BY <3>1, <3>2, <4>1, EnqueueQueue
    <3>4. waiters' \in [Objs -> Seq(Uthreads)]
      BY <3>1, <3>3 DEF TypeOK
    <3>5. \A o \in Objs : waiters'[o] = IF o = q THEN e ELSE waiters[o]
      BY <3>1 DEF TypeOK
    <3> HIDE DEF e
    <3>6. \A z \in Uthreads : ut_state[z] = "ZOMBIE" =>
            (waiters'[z] # <<>> => waiters[z] # <<>>)
      BY <3>1, <3>5, SchedAssumption DEF SchedAssumption
    <3>7. t # NULL
      BY <1>b, <2>2
    <3>8. \A o \in Objs : NoDup(waiters'[o])
      BY <3>3, <3>5 DEF QueueInv
    <3>9. \A o \in Objs, s \in Uthreads :
            Occurs(waiters'[o], s) <=> Occurs(waiters[o], s) \/ (s = t /\ o = q)
      BY <3>3, <3>5
    <3> QED BY <3>1, <3>4, <3>6, <3>7, <3>8, <3>9
  <2> QED BY <2>1, <2>2
<1>e. /\ RunqCoherent' /\ RunqSizeExact'
      /\ runq_table' \in [Prios -> Seq(Uthreads)] /\ runq_size' \in Nat
      /\ lpc' \in [Lwps -> LwpPcs] /\ Released(pcs, lpc')
      /\ ut_state' \in [Uthreads -> States]
      /\ \A s \in Uthreads :
           ut_state'[s] = IF t # NULL /\ s = t /\ ut_state[t] = "ON_CPU"
                          THEN "RUNNABLE" ELSE ut_state[s]
  <2>1. CASE t # NULL /\ ut_state[t] = "ON_CPU"
    <3>1. /\ t \in Uthreads
          /\ ut_state' = [ut_state EXCEPT ![t] = "RUNNABLE"]
          /\ RunqEnqueue(t, ut_prio[t], pcs)
          /\ ut_prio[t] \in Prios
      BY <1>a, <1>b, <2>1 DEF LwpSwitch, TypeOK
    <3>2. ut_prio' = [ut_prio EXCEPT ![t] = ut_prio[t]]
      BY <1>c, <3>1 DEF TypeOK
    <3> HIDE DEF t, pcs
    <3>3. RunqCoherent' /\ RunqSizeExact' /\ runq_size' \in Nat
      BY <1>a, <2>1, <3>1, <3>2, RunqExtended
    <3>4. /\ runq_table' \in [Prios -> Seq(Uthreads)]
          /\ lpc' \in [Lwps -> LwpPcs] /\ Released(pcs, lpc')
      BY <1>a, <3>1, RunqEnqueueEffect DEF TypeOK
    <3> QED BY <2>1, <3>1, <3>3, <3>4 DEF TypeOK, States
  <2>2. CASE ~(t # NULL /\ ut_state[t] = "ON_CPU")
    <3>1. lpc' = pcs /\ UNCHANGED <<ut_state, runq_table, runq_size, ut_prio>>
      BY <1>b, <2>2 DEF LwpSwitch
    <3>2. RunqCoherent' /\ RunqSizeExact'
      BY <3>1, RunqUntouched
    <3> QED BY <1>a, <2>2, <3>1, <3>2 DEF TypeOK, Released
  <2> QED BY <2>1, <2>2
<1>f. /\ lpc'[l] = "search" /\ ut_curthr'[l] = NULL /\ curlwp'[l] = NoArgs
      /\ \A k \in Lwps : k # l =>
           /\ ut_curthr'[k] = ut_curthr[k] /\ curlwp'[k] = curlwp[k]
           /\ \/ lpc'[k] = lpc[k]
              \/ lpc[k] = "parked" /\ lpc'[k] = "woken"
  BY <1>c, <1>e DEF Released, TypeOK
<1>g. /\ pmut' \in [Objs -> Lwps \cup {NULL}]
      /\ \A o \in Objs : pmut'[o] = IF o = a.pmut THEN NULL ELSE pmut[o]
  BY <1>b, <1>c, SchedAssumption DEF SchedAssumption, TypeOK
<1>h. /\ t = NULL \/ t \in Uthreads
      /\ \A k \in Lwps, s \in Uthreads :
           /\ ut_curthr'[k] = s <=> k # l /\ ut_curthr[k] = s
           /\ k # l /\ ut_curthr[k] = s => s # t /\ lpc'[k] = lpc[k]
           /\ ut_curthr[l] = s <=> s = t
           /\ OnStack(k, s)' <=> OnStack(k, s)
  <2>1. \A s \in Uthreads : s # NULL
    BY SchedAssumption DEF SchedAssumption
  <2>2. ASSUME NEW k \in Lwps, NEW s \in Uthreads, k # l, ut_curthr[k] = s
        PROVE  s # t /\ lpc'[k] = lpc[k]
    BY <1>f, <2>1, <2>2 DEF LwpInv
  <2> QED BY <1>a, <1>f, <2>1, <2>2 DEF OnStack
<1> HIDE DEF t, a, pcs
<1>1. TypeOK'
  <2>1. /\ ut_curthr' \in [Lwps -> Uthreads \cup {NULL}]
        /\ curlwp' \in [Lwps -> SwitchArgs]
    BY <1>c DEF TypeOK, NoArgs, SwitchArgs
  <2> QED BY <1>c, <1>d, <1>e, <1>g, <2>1 DEF TypeOK
<1>2. LwpInv'
  <2>1. ASSUME NEW k \in Lwps
        PROVE  /\ runq_mtx' = k <=> lpc'[k] \in {"lwp_switch", "search"}
               /\ lpc'[k] = "uthread" => ut_curthr'[k] # NULL
               /\ lpc'[k] \notin {"uthread", "lwp_switch"} => ut_curthr'[k] = NULL
               /\ lpc'[k] # "lwp_switch" \/ ut_curthr'[k] = NULL
                    => curlwp'[k] = NoArgs
    BY <1>a, <1>c, <1>f DEF LwpInv
  <2>2. \A k1, k2 \in Lwps :
          ut_curthr'[k1] = ut_curthr'[k2] /\ ut_curthr'[k1] # NULL => k1 = k2
    BY <1>f DEF LwpInv
  <2> QED BY <2>1, <2>2 DEF LwpInv
<1>3. CallInv'
  <2>1. ASSUME NEW s \in Uthreads
        PROVE  /\ call[s] # "client" => \E k \in Lwps : OnStack(k, s)'
               /\ call[s] = "start" => ut_state'[target[s]] = "TRANSITION"
               /\ ut_state'[s] = "ON_CPU" => \E k \in Lwps : ut_curthr'[k] = s
    <3>1. call[s] # "client" => \E k \in Lwps : OnStack(k, s)'
      BY <1>h DEF CallInv
    <3>2. call[s] = "start" => ut_state'[target[s]] = "TRANSITION"
      BY <1>e DEF CallInv
    <3>3. ut_state'[s] = "ON_CPU" => \E k \in Lwps : ut_curthr'[k] = s
      <4> SUFFICES ASSUME ut_state'[s] = "ON_CPU"
                   PROVE  \E k \in Lwps : ut_curthr'[k] = s
        OBVIOUS
      <4>1. ut_state[s] = "ON_CPU" /\ (t # NULL => s # t)
        BY <1>e
      <4>2. PICK k \in Lwps : ut_curthr[k] = s
        BY <4>1 DEF CallInv
      <4>3. k # l
        BY <1>h, <4>1, <4>2, SchedAssumption DEF SchedAssumption
      <4> QED BY <1>h, <4>2, <4>3
    <3> QED BY <3>1, <3>2, <3>3
  <2>2. ASSUME NEW k \in Lwps, NEW s \in Uthreads
        PROVE  OnStack(k, s)' =>
                 /\ ut_state'[s] \in {"ON_CPU", "WAIT", "ZOMBIE"}
                 /\ ut_state'[s] = "WAIT" => call[s] = "switch"
    <3>1. OnStack(k, s)' => OnStack(k, s) /\ k # l /\ s # t
      BY <1>a, <1>h DEF OnStack
    <3> QED BY <1>e, <3>1 DEF CallInv
  <2> QED BY <1>c, <2>1, <2>2 DEF CallInv
<1>4. AsksInv'
  <2> SUFFICES ASSUME NEW k \in Lwps, NEW s \in Uthreads
               PROVE  AsksOf(k, s)'
    BY DEF AsksInv
  <2>1. CASE k = l
    BY <1>f, <2>1 DEF AsksOf, OnStack
  <2>2. CASE k # l
    <3>1. \A m \in Objs : pmut[m] = k => pmut'[m] = k
      BY <1>b, <1>g, <2>2, SchedAssumption DEF SchedAssumption
    <3>2. ut_curthr[k] = s =>
            s # t /\ lpc'[k] = lpc[k] /\ ut_state'[s] = ut_state[s]
      BY <1>e, <1>h, <2>2
    <3>3. /\ \A m \in Objs : Occurs(waiters[m], s) => Occurs(waiters'[m], s)
          /\ ut_state[s] = "ZOMBIE" /\ waiters[s] = <<>> => waiters'[s] = <<>>
      BY <1>d
    <3> QED BY <1>c, <1>f, <2>2, <3>1, <3>2, <3>3, AsksKept
  <2> QED BY <2>1, <2>2
<1>5. QueueInv'
  <2>1. /\ \A o \in Objs : NoDup(waiters'[o])
        /\ \A o \in Objs, s \in Uthreads :
             Occurs(waiters'[o], s) => ut_state'[s] = "WAIT"
    BY <1>d, <1>e DEF QueueInv
  <2>2. \A o1, o2 \in Objs, s \in Uthreads :
          Occurs(waiters'[o1], s) /\ Occurs(waiters'[o2], s) => o1 = o2
    <3>1. \A o \in Objs :
            t # NULL /\ ut_state[t] = "WAIT" /\ Occurs(waiters[o], t)
              => o = a.pmut
      BY <1>a, <1>h DEF QueueInv, a
    <3> SUFFICES ASSUME NEW o1 \in Objs, NEW o2 \in Objs, NEW s \in Uthreads,
                        Occurs(waiters'[o1], s), Occurs(waiters'[o2], s)
                 PROVE  o1 = o2
      OBVIOUS
    <3>2. CASE t # NULL /\ s = t /\ ut_state[t] = "WAIT"
      BY <1>d, <3>1, <3>2
    <3>3. CASE ~(t # NULL /\ s = t /\ ut_state[t] = "WAIT")
      BY <1>d, <3>3 DEF QueueInv
    <3> QED BY <3>2, <3>3
  <2>3. \A o \in Objs, k \in Lwps, s \in Uthreads :
          (Occurs(waiters[o], s) /\ ut_curthr[k] = s =>
             LET b == IF lpc[k] = "lwp_switch" THEN curlwp[k] ELSE args[s]
             IN  b.pmut = o /\ b.queue = NULL)'
    <3> SUFFICES ASSUME NEW o \in Objs, NEW k \in Lwps, NEW s \in Uthreads,
                        Occurs(waiters'[o], s), ut_curthr'[k] = s
                 PROVE  LET b == IF lpc'[k] = "lwp_switch" THEN curlwp'[k]
                                                           ELSE args'[s]
                        IN  b.pmut = o /\ b.queue = NULL
      OBVIOUS
    <3>1. /\ k # l /\ ut_curthr[k] = s /\ s # t /\ lpc'[k] = lpc[k]
          /\ curlwp'[k] = curlwp[k] /\ args'[s] = args[s]
      BY <1>c, <1>f, <1>h
    <3>2. Occurs(waiters[o], s)
      BY <1>d, <3>1
    <3> QED BY <3>1, <3>2 DEF QueueInv
  <2>4. \A z \in Uthreads :
          (ut_state[z] = "ZOMBIE" /\ waiters[z] # <<>> =>
             \E k \in Lwps : OnStack(k, z))'
    <3> SUFFICES ASSUME NEW z \in Uthreads, ut_state'[z] = "ZOMBIE",
                        waiters'[z] # <<>>
                 PROVE  \E k \in Lwps : OnStack(k, z)'
      OBVIOUS
    <3>1. ut_state[z] = "ZOMBIE" /\ waiters[z] # <<>>
      BY <1>d, <1>e
    <3> QED BY <1>h, <3>1 DEF QueueInv
  <2> QED BY <2>1, <2>2, <2>3, <2>4 DEF QueueInv
<1>6. WakeInv'
  <2>1. \A u, s \in Uthreads : Wakes(u, s)' <=> Wakes(u, s)
    BY <1>c DEF Wakes
  <2>2. ASSUME NEW u \in Uthreads, NEW s \in Uthreads, Wakes(u, s)
        PROVE  /\ ut_state'[s] = "WAIT"
               /\ \A k \in Lwps : ut_curthr'[k] # s
               /\ \A o \in Objs : ~Occurs(waiters'[o], s)
    <3>1. /\ ut_state[s] = "WAIT" /\ \A k \in Lwps : ut_curthr[k] # s
          /\ \A o \in Objs : ~Occurs(waiters[o], s)
      BY <2>2 DEF WakeInv
    <3>2. s # t
      BY <1>h, <3>1
    <3>3. ut_state'[s] = "WAIT"
      BY <1>e, <3>1, <3>2
    <3>4. \A k \in Lwps : ut_curthr'[k] # s
      BY <1>h, <3>1
    <3>5. \A o \in Objs : ~Occurs(waiters'[o], s)
      BY <1>d, <3>1, <3>2
    <3> QED BY <3>3, <3>4, <3>5
  <2>3. ASSUME NEW s \in Uthreads, ut_state'[s] = "WAIT"
        PROVE  \/ \E k \in Lwps : ut_curthr'[k] = s
               \/ \E o \in Objs : Occurs(waiters'[o], s)
               \/ \E u \in Uthreads : Wakes(u, s)
    <3>1. ut_state[s] = "WAIT"
      BY <1>e, <2>3
    <3>2. CASE s = t
      <4>1. t # NULL
        BY <3>2, SchedAssumption DEF SchedAssumption
      <4> QED BY <1>b, <1>d, <3>1, <3>2, <4>1
    <3>3. CASE s # t
      <4>1. \A k \in Lwps : ut_curthr'[k] = s <=> ut_curthr[k] = s
        BY <1>h, <3>3
      <4> QED BY <1>d, <3>1, <4>1 DEF WakeInv
    <3> QED BY <3>2, <3>3
  <2>4. \A u1, u2, s \in Uthreads : Wakes(u1, s) /\ Wakes(u2, s) => u1 = u2
    BY DEF WakeInv
  <2> QED BY <2>1, <2>2, <2>3, <2>4 DEF WakeInv
<1>8. CountInv'
  <2>1. \A k \in Lwps :
          /\ lpc'[k] = "start" <=> lpc[k] = "start"
          /\ lpc'[k] \in {"parked", "woken"} <=> lpc[k] \in {"parked", "woken"}
    BY <1>a, <1>f
  <2> QED BY <1>c, <2>1, CountUntouched
<1> QED BY <1>1, <1>2, <1>3, <1>4, <1>5, <1>6, <1>e, <1>8

-----------------------------------------------------------------------------
(* IInv is an invariant.                                                   *)

\* The run queue that create_first_thr has filled is right, and no uthread is
\* anywhere else.
LEMMA InitIInv == SchedInit => IInv
<1> SUFFICES ASSUME SchedInit
             PROVE  IInv
  OBVIOUS
<1> USE SchedAssumption DEF SchedAssumption
<1> DEFINE q == <<FirstThr, ReaperThr>>
<1>1. /\ q \in Seq(Uthreads) /\ NoDup(q)
      /\ \A t : Occurs(q, t) <=> t \in Created
  BY DEF NoDup, Occurs, Created
<1>2. /\ \A t \in Uthreads : ut_state[t] = IF t \in Created THEN "RUNNABLE"
                                                            ELSE "NO_STATE"
      /\ \A t \in Uthreads :
           ut_prio[t] = IF t \in Created THEN UTH_MAXPRIO ELSE 0
      /\ \A t \in Uthreads : call[t] = "client" /\ args[t] = NoArgs
      /\ \A o \in Objs : pmut[o] = NULL /\ waiters[o] = <<>>
      /\ \A l \in Lwps :
           /\ ut_curthr[l] = NULL /\ curlwp[l] = NoArgs
           /\ lpc[l] = IF l = FirstLwp THEN "lwp_switch" ELSE "start"
      /\ runq_mtx = FirstLwp
  BY DEF SchedInit
<1>3. \A p \in Prios : runq_table[p] = IF p = UTH_MAXPRIO THEN q ELSE <<>>
  BY DEF SchedInit
<1>4. UTH_MAXPRIO \in Prios /\ 0 \in Prios
  BY DEF Prios
<1> HIDE DEF q
<1>5. TypeOK
  <2>1. waiters \in [Objs -> Seq(Uthreads)] /\ pmut \in [Objs -> Lwps \cup {NULL}]
    BY DEF SchedInit
  <2>2. runq_table \in [Prios -> Seq(Uthreads)]
    <3>1. <<>> \in Seq(Uthreads)
      OBVIOUS
    <3> QED BY <1>1, <3>1 DEF SchedInit, q
  <2>3. /\ curlwp \in [Lwps -> SwitchArgs] /\ args \in [Uthreads -> SwitchArgs]
    BY DEF SchedInit, NoArgs, SwitchArgs
  <2>4. /\ ut_state \in [Uthreads -> States] /\ ut_prio \in [Uthreads -> Prios]
        /\ call \in [Uthreads -> Calls] /\ lpc \in [Lwps -> LwpPcs]
    BY <1>4 DEF SchedInit, States, Calls, LwpPcs
  <2> QED BY <2>1, <2>2, <2>3, <2>4 DEF SchedInit, TypeOK
<1>6. PlaceInv
  <2>1. \A l \in Lwps : l # NULL
    OBVIOUS
  <2>2. \A t \in Uthreads : t # NULL
    OBVIOUS
  <2>3. LwpInv
    BY <1>2 DEF LwpInv
  <2>4. CallInv
    BY <1>2, <2>2 DEF CallInv, OnStack
  <2>5. AsksInv
    BY <1>2, <2>2 DEF AsksInv, AsksOf, OnStack
  <2>6. QueueInv
    BY <1>2, EmptyQueue DEF QueueInv, Objs
  <2>7. WakeInv
    BY <1>2 DEF WakeInv, Wakes
  <2> QED BY <2>3, <2>4, <2>5, <2>6, <2>7 DEF PlaceInv
<1>7. RunqCoherent
  BY <1>1, <1>2, <1>3, <1>4, EmptyQueue DEF RunqCoherent, Created
<1>8. RunqSizeExact
  <2>1. {t \in Uthreads : ut_state[t] = "RUNNABLE"} = {FirstThr} \cup {ReaperThr}
    BY <1>2 DEF Created
  <2>2. Cardinality({FirstThr} \cup {ReaperThr}) = 2
    <3>1. IsFiniteSet({FirstThr}) /\ Cardinality({FirstThr}) = 1
      BY FS_Singleton
    <3>2. ReaperThr \notin {FirstThr}
      OBVIOUS
    <3>3. Cardinality({FirstThr} \cup {ReaperThr}) = Cardinality({FirstThr}) + 1
      BY <3>1, <3>2, FS_AddElement
    <3> QED BY <3>1, <3>3
  <2> QED BY <2>1, <2>2 DEF SchedInit, RunqSizeExact
<1>9. CountInv
  <2>1. Started = {FirstLwp} /\ Parked = {}
    BY <1>2 DEF Started, Parked
  <2> QED BY <2>1, FS_Singleton, FS_EmptySet DEF SchedInit, CountInv
<1> QED BY <1>5, <1>6, <1>7, <1>8, <1>9 DEF IInv

\* The steps in which no uthread leaves its stack for good and none is destroyed.
OrdinaryStep(l, t) ==
  \/ UthreadStep(l, t)
  \/ \E o \in Objs : LockPmut(l, t, o) \/ UnlockPmut(l, t, o)
  \/ \E o \in SyncObjs : WaitOn(l, t, o)
  \/ \E thr \in Uthreads : WaitForExit(l, t, thr)
  \/ \E o \in Objs, keep \in BOOLEAN : TakeWaiter(l, t, o, keep)
  \/ BecomeZombie(l, t)
  \/ \E slot \in Uthreads : Allocate(l, t, slot)
OrdinaryNext ==
  \/ Aborted
  \/ /\ ~panic
     /\ \/ \E l \in Lwps : LwpStep(l) \/ SpuriousWakeup(l)
        \/ \E l \in Lwps, t \in Uthreads : OrdinaryStep(l, t)

\* The others are those of uthread_exit and of uthread_destroy.
LEMMA SchedSteps ==
  ASSUME [SchedNext]_schedVars
  PROVE  \/ [OrdinaryNext]_schedVars
         \/ \E l \in Lwps, t \in Uthreads : LeaveForGood(l, t)
         \/ \E l \in Lwps, t, zombie \in Uthreads : Destroy(l, t, zombie)
BY DEF SchedNext, OrdinaryNext, OrdinaryStep, ClientStep

\* An ordinary step is a step of the scheduler.
LEMMA OrdinaryIsSched == [OrdinaryNext]_schedVars => [SchedNext]_schedVars
BY DEF SchedNext, OrdinaryNext, OrdinaryStep, ClientStep

\* Every ordinary step keeps IInv.
LEMMA OrdinaryIInv == IInv /\ [OrdinaryNext]_schedVars => IInv'
<1> SUFFICES ASSUME IInv, [OrdinaryNext]_schedVars
             PROVE  IInv'
  OBVIOUS
<1>1. CASE UNCHANGED schedVars
  <2>1. UNCHANGED <<ut_state, ut_prio, call, target, args, pmut, waiters,
                    runq_table, runq_size, runq_mtx, ut_curthr, curlwp, lpc,
                    lwp_cnt, lwp_parked_cnt, panic>>
    BY <1>1 DEF schedVars, threadVars, objVars, runqVars, lwpVars
  <2>2. TypeOK' /\ LwpInv' /\ CallInv'
    BY <2>1 DEF IInv, PlaceInv, TypeOK, LwpInv, CallInv, OnStack
  <2>3. AsksInv' /\ QueueInv' /\ WakeInv'
    BY <2>1 DEF IInv, PlaceInv, AsksInv, AsksOf, Asks, OnStack, QueueInv,
       WakeInv, Wakes
  <2>4. RunqCoherent' /\ RunqSizeExact' /\ CountInv'
    BY <2>1 DEF IInv, RunqCoherent, RunqSizeExact, CountInv, Started, Parked
  <2> QED BY <2>2, <2>3, <2>4 DEF IInv, PlaceInv
<1>2. ASSUME ~panic, NEW l \in Lwps, LwpStep(l)
      PROVE  IInv'
  BY <1>2, LwpStartStep, LwpSwitchStep, LwpDispatchStep, LwpParkStep,
     LwpUnparkStep DEF LwpStep
<1>3. ASSUME NEW l \in Lwps, SpuriousWakeup(l)
      PROVE  IInv'
  BY <1>3, SpuriousWakeupStep
<1>4. ASSUME NEW l \in Lwps, NEW t \in Uthreads, UthreadStep(l, t)
      PROVE  IInv'
  BY <1>4, YieldStep, UthreadSwitchStep, UthreadWakeStep,
     UthreadStartOnRunqStep, UthreadSetprioStep DEF UthreadStep
<1>5. ASSUME NEW l \in Lwps, NEW t \in Uthreads, OrdinaryStep(l, t)
      PROVE  IInv'
  BY <1>4, <1>5, LockPmutStep, UnlockPmutStep, WaitOnStep, WaitForExitStep,
     TakeWaiterStep, BecomeZombieStep, AllocateStep DEF OrdinaryStep
<1> QED BY <1>1, <1>2, <1>3, <1>5 DEF OrdinaryNext, Aborted

\* A zombie that goes on holding its ut_pmut.
LEMMA ZombieKept ==
  ASSUME ZombieInv,
         \A l \in Lwps, t \in Uthreads :
           ut_curthr'[l] = t /\ ut_state'[t] = "ZOMBIE" =>
             /\ ut_curthr[l] = t /\ ut_state[t] = "ZOMBIE"
             /\ pmut[t] = l => pmut'[t] = l
             /\ lpc'[l] = "uthread" /\ call'[t] = "switch" =>
                  lpc[l] = "uthread" /\ call[t] = "switch" /\ args'[t] = args[t]
             /\ lpc'[l] = "lwp_switch" =>
                  lpc[l] = "lwp_switch" /\ curlwp'[l] = curlwp[l]
  PROVE  ZombieInv'
BY DEF ZombieInv, OnStack

\* Of the steps of an LWP, lwp_switch unlocks what it was asked to; and the
\* uthread that is dispatched is none that has exited.
LEMMA LwpZombies ==
  ASSUME IInv, ZombieInv, NEW l \in Lwps, LwpStep(l) \/ SpuriousWakeup(l)
  PROVE  ZombieInv'
<1>0. TypeOK /\ LwpInv /\ CallInv /\ AsksInv /\ RunqCoherent
  BY DEF IInv, PlaceInv
<1> USE DEF threadVars, objVars, runqVars, lwpVars
<1>n. \A t \in Uthreads : t # NULL
  BY SchedAssumption DEF SchedAssumption
<1>1. CASE LwpStart(l) \/ LwpPark(l) \/ LwpUnpark(l) \/ SpuriousWakeup(l)
  <2>1. /\ UNCHANGED <<ut_state, call, args, pmut, ut_curthr, curlwp>>
        /\ lpc[l] \in {"start", "search", "woken", "parked"}
        /\ \A k \in Lwps \ {l} : lpc'[k] = lpc[k]
    BY <1>0, <1>1 DEF LwpStart, LwpPark, LwpUnpark, SpuriousWakeup, TypeOK
  <2>2. ut_curthr[l] = NULL
    BY <1>0, <2>1 DEF LwpInv
  <2> QED BY <1>n, <2>1, <2>2, ZombieKept
<1>2. CASE LwpDispatch(l)
  <2>1. PICK p \in Prios :
          /\ runq_table[p] # <<>>
          /\ ut_curthr' = [ut_curthr EXCEPT ![l] = Head(runq_table[p])]
          /\ ut_state' = [ut_state EXCEPT ![Head(runq_table[p])] = "ON_CPU"]
    BY <1>2 DEF LwpDispatch, FirstNonEmpty
  <2> DEFINE n == Head(runq_table[p])
  <2>2. n \in Uthreads
    BY <1>0, <2>1, DequeueQueue DEF TypeOK
  <2>3. /\ \A s \in Uthreads : ut_state'[s] = IF s = n THEN "ON_CPU" ELSE ut_state[s]
        /\ \A k \in Lwps : ut_curthr'[k] = IF k = l THEN n ELSE ut_curthr[k]
        /\ \A k \in Lwps \ {l} : lpc'[k] = lpc[k]
        /\ UNCHANGED <<call, args, pmut, curlwp>>
    BY <1>0, <1>2, <2>1, <2>2 DEF LwpDispatch, TypeOK
  <2> HIDE DEF n
  <2> QED BY <2>2, <2>3, ZombieKept
<1>3. CASE LwpSwitch(l)
  <2> DEFINE a == curlwp[l]
  <2>1. /\ \A k \in Lwps : ut_curthr'[k] = IF k = l THEN NULL ELSE ut_curthr[k]
        /\ UNCHANGED <<call, args>>
        /\ \A k \in Lwps \ {l} : curlwp'[k] = curlwp[k]
        /\ pmut' = IF a.pmut # NULL THEN [pmut EXCEPT ![a.pmut] = NULL] ELSE pmut
    BY <1>0, <1>3 DEF LwpSwitch, TypeOK
  <2>2. ASSUME NEW t \in Uthreads, ut_state'[t] = "ZOMBIE"
        PROVE  ut_state[t] = "ZOMBIE"
    BY <1>0, <1>3, <2>2 DEF LwpSwitch, TypeOK
  <2>3. a.pmut # NULL => a.pmut \in Objs /\ pmut[a.pmut] = l
    <3>1. ut_curthr[l] = NULL \/ (ut_curthr[l] \in Uthreads /\ Asks(l, ut_curthr[l], a))
      BY <1>0, <1>3, CurrentUthread DEF LwpSwitch, TypeOK
    <3>2. ut_curthr[l] = NULL => a.pmut = NULL
      BY <1>0 DEF LwpInv, NoArgs
    <3> QED BY <3>1, <3>2, SchedAssumption DEF Asks, Objs
  <2> HIDE DEF a
  <2>4. ASSUME NEW k \in Lwps, NEW t \in Uthreads, k # l, pmut[t] = k
        PROVE  pmut'[t] = k
    BY <1>0, <2>1, <2>3, <2>4 DEF TypeOK, Objs
  <2>5. ASSUME NEW k \in Lwps, k # l, ut_curthr[k] # NULL
        PROVE  lpc'[k] = lpc[k]
    <3>1. lpc[k] # "parked"
      BY <1>0, <2>5 DEF LwpInv
    <3>2. \/ lpc' = [lpc EXCEPT ![l] = "search"]
          \/ lpc' \in LwpReleased([lpc EXCEPT ![l] = "search"])
      BY <1>3 DEF LwpSwitch, RunqEnqueue
    <3> QED BY <1>0, <2>5, <3>1, <3>2 DEF LwpReleased, TypeOK
  <2> QED BY <1>n, <2>1, <2>2, <2>4, <2>5, ZombieKept
<1> QED BY <1>1, <1>2, <1>3 DEF LwpStep

\* A uthread that runs does not take the ut_pmut of a zombie.
LEMMA UthreadZombies ==
  ASSUME IInv, ZombieInv, NEW l \in Lwps, NEW t \in Uthreads,
         UthreadStep(l, t) \/ ClientStep(l, t)
  PROVE  ZombieInv'
<1>0. TypeOK /\ LwpInv /\ CallInv /\ AsksInv
  BY DEF IInv, PlaceInv
<1> USE DEF threadVars, objVars, runqVars, lwpVars, Runs
<1>l. /\ l # NULL /\ t # NULL /\ \A s \in Uthreads : s \in Objs /\ s \notin SyncObjs
      /\ \A k \in Lwps : k # NULL
  BY SchedAssumption DEF SchedAssumption, Objs
<1>1. CASE \/ Yield(l, t)
           \/ \E id \in Uthreads, prio \in Prios : UthreadSetprio(l, t, id, prio)
  <2>1. /\ UNCHANGED <<ut_state, pmut, ut_curthr, curlwp, lpc>>
        /\ ut_state[t] = "ON_CPU"
        /\ \A s \in Uthreads \ {t} : call'[s] = call[s] /\ args'[s] = args[s]
    BY <1>0, <1>1 DEF Yield, UthreadSetprio, CallsSwitch, TypeOK
  <2> QED BY <2>1, ZombieKept
<1>2. CASE UthreadSwitch(l, t)
  <2>1. /\ UNCHANGED <<ut_state, pmut, ut_curthr>>
        /\ ut_curthr[l] = t /\ lpc[l] = "uthread" /\ call[t] = "switch"
        /\ curlwp'[l].pmut = args[t].pmut /\ lpc'[l] = "lwp_switch"
        /\ \A k \in Lwps \ {l} : curlwp'[k] = curlwp[k] /\ lpc'[k] = lpc[k]
        /\ call'[t] = "client"
        /\ \A s \in Uthreads \ {t} : call'[s] = call[s] /\ args'[s] = args[s]
    BY <1>0, <1>2 DEF UthreadSwitch, TypeOK
  <2>2. \A k \in Lwps : ut_curthr[k] = t => k = l
    BY <1>0, <1>l, <2>1 DEF LwpInv
  <2> QED BY <1>l, <2>1, <2>2 DEF ZombieInv, OnStack
<1>3. CASE UthreadWake(l, t) \/ \E prio \in Prios : UthreadStartOnRunq(l, t, prio)
  <2>1. /\ UNCHANGED <<args, pmut, ut_curthr, curlwp>>
        /\ \A s \in Uthreads : ut_state'[s] = "ZOMBIE" => ut_state[s] = "ZOMBIE"
        /\ \A s \in Uthreads : call'[s] = "switch" => call[s] = "switch"
    BY <1>0, <1>3 DEF UthreadWake, UthreadStartOnRunq, TypeOK
  <2>2. lpc' \in LwpReleased(lpc) \cup {lpc}
    BY <1>3 DEF UthreadWake, UthreadStartOnRunq, RunqEnqueue
  <2>3. ASSUME NEW k \in Lwps, ut_curthr[k] # NULL
        PROVE  lpc'[k] = lpc[k]
    <3>1. lpc[k] # "parked"
      BY <1>0, <2>3 DEF LwpInv
    <3> QED BY <1>0, <2>2, <3>1 DEF LwpReleased, TypeOK
  <2> QED BY <1>l, <2>1, <2>3, ZombieKept, SchedAssumption DEF SchedAssumption
<1>4. ASSUME NEW o \in Objs,
             \/ LockPmut(l, t, o) \/ UnlockPmut(l, t, o)
             \/ o \in SyncObjs /\ WaitOn(l, t, o)
             \/ o \in Uthreads /\ WaitForExit(l, t, o)
             \/ \E keep \in BOOLEAN : TakeWaiter(l, t, o, keep)
      PROVE  ZombieInv'
  <2>1. /\ UNCHANGED <<ut_curthr, curlwp, lpc>>
        /\ \A s \in Uthreads : ut_state'[s] = "ZOMBIE" => ut_state[s] = "ZOMBIE"
        /\ \A s \in Uthreads \ {t} : call'[s] = call[s] /\ args'[s] = args[s]
        /\ call'[t] = "switch" /\ call[t] # "switch" => ut_state'[t] = "WAIT"
        /\ call[t] = "client"
    BY <1>0, <1>4 DEF LockPmut, UnlockPmut, WaitOn, WaitForExit, TakeWaiter, CallsSwitch,
                      TypeOK
  <2>2. ASSUME NEW k \in Lwps, NEW s \in Uthreads, ut_curthr[k] = s,
               ut_state[s] = "ZOMBIE", pmut[s] = k
        PROVE  pmut'[s] = k
    <3>1. \A x \in Objs \ {o} : pmut'[x] = pmut[x]
      BY <1>0, <1>4 DEF LockPmut, UnlockPmut, WaitOn, WaitForExit, TakeWaiter, TypeOK
    <3>2. ASSUME o = s PROVE pmut'[o] = pmut[o]
      <4>1. k = l => s = t
        BY <2>2 , <1>4 DEF LockPmut, UnlockPmut, WaitOn, WaitForExit, TakeWaiter
      <4> QED BY <1>0, <1>4, <1>l, <2>2, <3>2, <4>1
              DEF LockPmut, UnlockPmut, WaitOn, WaitForExit, TakeWaiter, TypeOK,
                  MayLock, Active
    <3> QED BY <1>l, <2>2, <3>1, <3>2
  <2> QED BY <2>1, <2>2, ZombieKept DEF ZombieInv
<1>5. CASE BecomeZombie(l, t)
  <2>1. /\ UNCHANGED <<call, args, ut_curthr, curlwp, lpc>>
        /\ \A s \in Uthreads \ {t} : ut_state'[s] = ut_state[s] /\ pmut'[s] = pmut[s]
        /\ pmut'[t] = l /\ call[t] = "client" /\ lpc[l] = "uthread" /\ ut_curthr[l] = t
    BY <1>0, <1>5, <1>l DEF BecomeZombie, TypeOK
  <2>2. \A k \in Lwps : ut_curthr[k] = t => k = l
    BY <1>0, <1>l, <2>1 DEF LwpInv
  <2> QED BY <1>l, <2>1, <2>2 DEF ZombieInv, OnStack
<1>6. CASE LeaveForGood(l, t)
  <2>1. /\ UNCHANGED <<ut_state, pmut, ut_curthr, curlwp, lpc>>
        /\ \A s \in Uthreads \ {t} : call'[s] = call[s] /\ args'[s] = args[s]
        /\ args'[t].pmut = t
    BY <1>0, <1>6 DEF LeaveForGood, CallsSwitch, TypeOK
  <2> QED BY <2>1 DEF ZombieInv, OnStack
<1>7. CASE \E z \in Uthreads : Destroy(l, t, z) \/ Allocate(l, t, z)
  <2>1. /\ UNCHANGED <<args, pmut, ut_curthr, curlwp, lpc>>
        /\ \A s \in Uthreads : ut_state'[s] = "ZOMBIE" => ut_state[s] = "ZOMBIE"
        /\ \A s \in Uthreads : call'[s] = "switch" => call[s] = "switch"
    BY <1>0, <1>7 DEF Destroy, Allocate, TypeOK
  <2> QED BY <2>1, ZombieKept
<1> QED BY <1>1, <1>2, <1>3, <1>4, <1>5, <1>6, <1>7 DEF UthreadStep, ClientStep, Objs

\* Every step keeps both; a zombie that hands over its ut_pmut holds it, and one
\* whose ut_pmut is free is on no stack.
LEMMA NextIInv == IInv /\ ZombieInv /\ [SchedNext]_schedVars => IInv' /\ ZombieInv'
<1> SUFFICES ASSUME IInv, ZombieInv, [SchedNext]_schedVars
             PROVE  IInv' /\ ZombieInv'
  OBVIOUS
<1>1. ASSUME NEW l \in Lwps, NEW t \in Uthreads, LeaveForGood(l, t)
      PROVE  IInv'
  BY <1>1, LeaveForGoodStep DEF LeaveForGood, Runs, ZombieInv
<1>2. ASSUME NEW l \in Lwps, NEW t \in Uthreads, NEW zombie \in Uthreads,
             Destroy(l, t, zombie)
      PROVE  IInv'
  <2>1. \A k \in Lwps : ~OnStack(k, zombie)
    BY <1>2, SchedAssumption DEF SchedAssumption, Destroy, ZombieInv, OnStack
  <2> QED BY <1>2, <2>1, DestroyStep
<1>3. ZombieInv'
  <2>1. CASE UNCHANGED schedVars
    BY <2>1, ZombieKept DEF schedVars, threadVars, objVars, lwpVars
  <2> QED BY <2>1, LwpZombies, UthreadZombies
          DEF SchedNext, Aborted
<1> QED BY <1>1, <1>2, <1>3, SchedSteps, OrdinaryIInv

\* At first no uthread has exited.
LEMMA InitZombies == SchedInit => ZombieInv
<1> SUFFICES ASSUME SchedInit
             PROVE  \A t \in Uthreads : ut_state[t] # "ZOMBIE"
  BY DEF ZombieInv
<1> QED BY DEF SchedInit

\* Where every uthread, LWP and POSIX mutex is, in every state the scheduler
\* reaches, through any interleaving of the LWPs; and a uthread that has exited
\* keeps its ut_pmut until it is off its stack.
THEOREM Invariance == SchedSpec => [](IInv /\ ZombieInv)
BY InitIInv, InitZombies, NextIInv, PTL DEF SchedSpec

-----------------------------------------------------------------------------
(* What follows from it.                                                   *)

\* The fields of uthread_t, the run queue, the locks and the data of the LWPs
\* have their types; runq_size never falls below 0.
THEOREM TypeCorrect == SchedSpec => []TypeOK
<1>1. IInv => TypeOK
  BY DEF IInv
<1> QED BY <1>1, Invariance, PTL

\* Who is in lwp_switch or on a stack is so alone.
LEMMA StacksFollow == IInv => StackExclusive
<1> SUFFICES ASSUME IInv, NEW t \in Uthreads
             PROVE  /\ \A l1, l2 \in Lwps :
                         OnStack(l1, t) /\ OnStack(l2, t) => l1 = l2
                    /\ ut_state[t] \in {"RUNNABLE", "NO_STATE", "TRANSITION"} =>
                         \A l \in Lwps : ~OnStack(l, t)
  BY DEF StackExclusive
<1>1. t # NULL
  BY SchedAssumption DEF SchedAssumption
<1> QED BY <1>1 DEF IInv, PlaceInv, LwpInv, CallInv, OnStack

\* No stack is executed by two LWPs, whatever lwp_switch, uthread_wake and
\* uthread_destroy do meanwhile.
THEOREM StacksExclusive == SchedSpec => []StackExclusive
BY StacksFollow, Invariance, PTL

\* uthread_runq_enqueue, uthread_runq_requeue and the scan of lwp_switch keep
\* the run queue and ut_state in agreement.
THEOREM RunqCorrect == SchedSpec => []RunqCoherent
<1>1. IInv => RunqCoherent
  BY DEF IInv
<1> QED BY <1>1, Invariance, PTL

\* What lwp_park tests before it sleeps is the number of runnable uthreads, at
\* every moment at which another LWP may look at it.
THEOREM RunqCounted == SchedSpec => []RunqSizeExact
<1>1. IInv => RunqSizeExact
  BY DEF IInv
<1> QED BY <1>1, Invariance, PTL

\* What an LWP is asked to unlock it has locked.
LEMMA HandedFollow == IInv => HandedMutexHeld
<1> SUFFICES ASSUME IInv, NEW l \in Lwps
             PROVE  LET t == ut_curthr[l]
                        a == IF lpc[l] = "lwp_switch" THEN curlwp[l]
                             ELSE IF OnStack(l, t) /\ call[t] = "switch"
                                  THEN args[t] ELSE NoArgs
                    IN  a.pmut # NULL => pmut[a.pmut] = l
  BY DEF HandedMutexHeld
<1> DEFINE t == ut_curthr[l]
<1>1. t = NULL \/ (t \in Uthreads /\ AsksOf(l, t))
  BY DEF IInv, TypeOK, PlaceInv, AsksInv
<1>2. t = NULL => lpc[l] # "uthread" /\ curlwp[l] = NoArgs
  BY DEF IInv, PlaceInv, LwpInv
<1>3. \A a : Asks(l, t, a) => (a.pmut # NULL => pmut[a.pmut] = l)
  BY DEF Asks
<1> QED BY <1>1, <1>2, <1>3 DEF AsksOf, OnStack, NoArgs

\* The mutex given to uthread_switch is the LWP's until lwp_switch unlocks it.
THEOREM HandedMutexesHeld == SchedSpec => []HandedMutexHeld
BY HandedFollow, Invariance, PTL

\* uthread_destroy, called under the zombie's ut_pmut, empties an empty queue.
THEOREM JoinersRemembered == SchedSpec => []NoJoinerForgotten
<1>1. IInv /\ ZombieInv => NoJoinerForgotten
  <2> SUFFICES ASSUME IInv, ZombieInv, NEW t \in Uthreads, ut_state[t] = "ZOMBIE",
                      pmut[t] = NULL, waiters[t] # <<>>
               PROVE  FALSE
    BY DEF NoJoinerForgotten
  <2>1. PICK l \in Lwps : OnStack(l, t)
    BY DEF IInv, PlaceInv, QueueInv
  <2>2. pmut[t] = l /\ l # NULL
    BY <2>1, SchedAssumption DEF SchedAssumption, ZombieInv, OnStack
  <2> QED BY <2>2
<1> QED BY <1>1, Invariance, PTL

\* A waiter is where QueueInv and WakeInv say, and nowhere else.
LEMMA WaitersFollow == IInv => WaiterAccounted
<1> SUFFICES ASSUME IInv
             PROVE  WaiterAccounted
  OBVIOUS
<1> USE DEF IInv, PlaceInv
<1>1. ASSUME NEW t \in Uthreads, NEW o \in Objs, ToBeQueued(t, o)
      PROVE  /\ ut_state[t] = "WAIT"
             /\ \E l \in Lwps :
                  /\ ut_curthr[l] = t
                  /\ (IF lpc[l] = "lwp_switch" THEN curlwp[l]
                                               ELSE args[t]).queue = o
  <2>1. o # NULL /\ t # NULL
    BY SchedAssumption DEF SchedAssumption, Objs
  <2>2. CASE call[t] = "switch" /\ args[t].queue = o
    <3>1. PICK l \in Lwps : OnStack(l, t)
      BY <2>2 DEF CallInv
    <3>2. Asks(l, t, args[t])
      BY <2>2, <3>1 DEF AsksInv, AsksOf
    <3> QED BY <2>1, <2>2, <3>1, <3>2 DEF Asks, OnStack
  <2>3. ASSUME NEW l \in Lwps, ut_curthr[l] = t, curlwp[l].queue = o
        PROVE  /\ ut_state[t] = "WAIT"
               /\ \E k \in Lwps :
                    /\ ut_curthr[k] = t
                    /\ (IF lpc[k] = "lwp_switch" THEN curlwp[k]
                                                 ELSE args[t]).queue = o
    <3>1. lpc[l] = "lwp_switch"
      BY <2>1, <2>3 DEF LwpInv, NoArgs
    <3>2. Asks(l, t, curlwp[l])
      BY <2>3, <3>1 DEF AsksInv, AsksOf
    <3> QED BY <2>1, <2>3, <3>1, <3>2 DEF Asks
  <2> QED BY <1>1, <2>2, <2>3 DEF ToBeQueued
<1>2. ASSUME NEW t \in Uthreads, NEW l \in Lwps, ut_curthr[l] = t,
             ut_state[t] = "WAIT"
      PROVE  \E o \in Objs : Awaits(t, o)
  <2>1. t # NULL
    BY SchedAssumption DEF SchedAssumption
  <2> DEFINE a == IF lpc[l] = "lwp_switch" THEN curlwp[l] ELSE args[t]
  <2>2. Asks(l, t, a) /\ (lpc[l] = "lwp_switch" \/ call[t] = "switch")
    BY <1>2, <2>1 DEF LwpInv, CallInv, AsksInv, AsksOf, OnStack
  <2>3. a.pmut \in Objs
    BY <1>2, <2>2 DEF Asks
  <2>4. a.queue = a.pmut \/ Occurs(waiters[a.pmut], t)
    BY <1>2, <2>2 DEF Asks
  <2> QED BY <1>2, <2>2, <2>3, <2>4 DEF Awaits, ToBeQueued
<1>3. ASSUME NEW t \in Uthreads, NEW o1 \in Objs, NEW o2 \in Objs,
             Awaits(t, o1), Awaits(t, o2)
      PROVE  o1 = o2
  <2>1. CASE Occurs(waiters[o1], t) /\ Occurs(waiters[o2], t)
    BY <2>1 DEF QueueInv
  <2>2. ASSUME NEW p \in Objs, NEW q \in Objs,
               Occurs(waiters[p], t), ToBeQueued(t, q)
        PROVE  FALSE
    <3>1. PICK l \in Lwps :
            /\ ut_curthr[l] = t
            /\ (IF lpc[l] = "lwp_switch" THEN curlwp[l] ELSE args[t]).queue = q
      BY <1>1, <2>2
    <3>2. q # NULL
      BY SchedAssumption DEF SchedAssumption, Objs
    <3> QED BY <2>2, <3>1, <3>2 DEF QueueInv
  <2>3. CASE ToBeQueued(t, o1) /\ ToBeQueued(t, o2)
    <3>1. PICK l \in Lwps :
            /\ ut_curthr[l] = t
            /\ (IF lpc[l] = "lwp_switch" THEN curlwp[l] ELSE args[t]).queue = o1
      BY <1>1, <2>3
    <3>2. PICK k \in Lwps :
            /\ ut_curthr[k] = t
            /\ (IF lpc[k] = "lwp_switch" THEN curlwp[k] ELSE args[t]).queue = o2
      BY <1>1, <2>3
    <3>3. k = l
      BY <3>1, <3>2, SchedAssumption DEF SchedAssumption, LwpInv
    <3> QED BY <3>1, <3>2, <3>3
  <2> QED BY <1>3, <2>1, <2>2, <2>3 DEF Awaits
<1>4. ASSUME NEW t \in Uthreads, NEW u \in Uthreads, NEW o \in Objs,
             Wakes(u, t), Awaits(t, o)
      PROVE  FALSE
  <2>1. /\ \A l \in Lwps : ut_curthr[l] # t
        /\ ~Occurs(waiters[o], t)
    BY <1>4 DEF WakeInv
  <2> QED BY <1>1, <1>4, <2>1 DEF Awaits
<1>5. ASSUME NEW t \in Uthreads
      PROVE  ut_state[t] = "WAIT" <=>
               (\E o \in Objs : Awaits(t, o)) \/ (\E u \in Uthreads : Wakes(u, t))
  <2>1. ASSUME ut_state[t] = "WAIT"
        PROVE  \/ \E o \in Objs : Awaits(t, o)
               \/ \E u \in Uthreads : Wakes(u, t)
    BY <1>2, <2>1 DEF WakeInv, Awaits
  <2>2. ASSUME NEW o \in Objs, Awaits(t, o)
        PROVE  ut_state[t] = "WAIT"
    BY <1>1, <2>2 DEF Awaits, QueueInv
  <2>3. ASSUME NEW u \in Uthreads, Wakes(u, t)
        PROVE  ut_state[t] = "WAIT"
    BY <2>3 DEF WakeInv
  <2> QED BY <2>1, <2>2, <2>3
<1>6. ASSUME NEW t \in Uthreads
      PROVE  LET awaited == {o \in Objs : Awaits(t, o)}
                 wakers  == {u \in Uthreads : Wakes(u, t)}
             IN  /\ ut_state[t] = "WAIT" <=> awaited \cup wakers # {}
                 /\ \A o1, o2 \in awaited : o1 = o2
                 /\ \A u1, u2 \in wakers : u1 = u2
                 /\ awaited = {} \/ wakers = {}
  <2>1. \A u1, u2 \in Uthreads : Wakes(u1, t) /\ Wakes(u2, t) => u1 = u2
    BY DEF WakeInv
  <2> QED BY <1>3, <1>4, <1>5, <2>1
<1> QED BY <1>6 DEF WaiterAccounted, QueueInv

\* A waiting uthread is awaited on one queue or in the hands of one waker.
THEOREM WaitersAccounted == SchedSpec => []WaiterAccounted
BY WaitersFollow, Invariance, PTL

\* When lwp_park panics, all other LWPs are in lwp_park and the run queue is
\* empty.
THEOREM PanicsOnlyIfStuck == SchedSpec => []PanicOnlyIfStuck
<1>1. SchedInit => PanicOnlyIfStuck
  BY DEF SchedInit, PanicOnlyIfStuck
<1>2. IInv /\ PanicOnlyIfStuck /\ [SchedNext]_schedVars => PanicOnlyIfStuck'
  <2> SUFFICES ASSUME IInv, PanicOnlyIfStuck, [SchedNext]_schedVars, panic'
               PROVE  PanicOnlyIfStuck'
    BY DEF PanicOnlyIfStuck
  <2>1. CASE UNCHANGED schedVars
    BY <2>1 DEF PanicOnlyIfStuck, schedVars, threadVars
  <2>2. ASSUME ~panic, NEW l \in Lwps, LwpPark(l)
        PROVE  PanicOnlyIfStuck'
    <3> SUFFICES ASSUME NEW t \in Uthreads
                 PROVE  ut_state'[t] \notin {"ON_CPU", "RUNNABLE"}
      BY DEF PanicOnlyIfStuck
    <3>1. /\ lpc[l] = "search" /\ runq_mtx = l
          /\ \A p \in Prios : runq_table[p] = <<>>
          /\ lwp_parked_cnt + 1 = lwp_cnt
          /\ UNCHANGED ut_state
      BY <2>2 DEF LwpPark, threadVars, IInv, PlaceInv, LwpInv
    <3>2. ut_state[t] # "RUNNABLE"
      BY <3>1, EmptyQueue DEF IInv, TypeOK, RunqCoherent
    <3>3. ASSUME ut_state[t] = "ON_CPU"
          PROVE  FALSE
      <4>1. PICK k \in Lwps : ut_curthr[k] = t /\ t # NULL
        BY <3>3, SchedAssumption DEF SchedAssumption, IInv, PlaceInv, CallInv
      <4>2. lpc[k] = "uthread"
        BY <3>1, <4>1 DEF IInv, PlaceInv, LwpInv
      <4>3. /\ (Parked \cup {l}) \cup {k} \in SUBSET Started
            /\ l \notin Parked /\ k \notin Parked \cup {l}
        BY <3>1, <4>2 DEF Parked, Started
      <4>4. IsFiniteSet(Started) /\ IsFiniteSet(Parked)
        BY SchedAssumption, FS_Subset DEF SchedAssumption, Started, Parked
      <4>5. /\ IsFiniteSet(Parked \cup {l})
            /\ Cardinality(Parked \cup {l}) = Cardinality(Parked) + 1
        BY <4>3, <4>4, FS_AddElement
      <4>6. Cardinality((Parked \cup {l}) \cup {k}) = Cardinality(Parked) + 1 + 1
        BY <4>3, <4>5, FS_AddElement
      <4>7. Cardinality((Parked \cup {l}) \cup {k}) <= Cardinality(Started)
        BY <4>3, <4>4, FS_Subset
      <4>8. /\ Cardinality(Parked) \in Nat
            /\ lwp_parked_cnt = Cardinality(Parked)
            /\ lwp_cnt = Cardinality(Started)
        BY <2>2, <4>4, FS_CardinalityType DEF IInv, CountInv
      <4> QED BY <3>1, <4>6, <4>7, <4>8
    <3> QED BY <3>1, <3>2, <3>3
  <2>3. ASSUME ~panic, NEW l \in Lwps, NEW t \in Uthreads, NEW prio \in Prios,
               UthreadStartOnRunq(l, t, prio)
        PROVE  FALSE
    <3>1. ut_state[target[t]] = "TRANSITION"
      BY <2>3 DEF UthreadStartOnRunq, Runs, IInv, PlaceInv, CallInv
    <3> QED BY <2>3, <3>1 DEF UthreadStartOnRunq
  <2>4. ASSUME ~panic, NEW l \in Lwps, LwpStep(l) \/ SpuriousWakeup(l)
        PROVE  LwpPark(l)
    BY <2>4 DEF LwpStep, LwpStart, LwpSwitch, LwpDispatch, LwpUnpark,
       SpuriousWakeup
  <2>5. ASSUME ~panic, NEW l \in Lwps, NEW t \in Uthreads, UthreadStep(l, t)
        PROVE  FALSE
    BY <2>3, <2>5 DEF UthreadStep, Yield, UthreadSwitch, UthreadWake,
       UthreadSetprio
  <2>6. ASSUME ~panic, NEW l \in Lwps, NEW t \in Uthreads, ClientStep(l, t)
        PROVE  FALSE
    BY <2>6 DEF ClientStep, LockPmut, UnlockPmut, WaitOn, WaitForExit,
       TakeWaiter, BecomeZombie, LeaveForGood, Destroy, Allocate
  <2> QED BY <2>1, <2>2, <2>4, <2>5, <2>6 DEF SchedNext, Aborted
<1> QED BY <1>1, <1>2, Invariance, PTL DEF SchedSpec

\* The scan of lwp_switch finds a uthread of the highest priority there is.
THEOREM DispatchesByPriority == SchedSpec => DispatchesHighest
<1> DEFINE A == \A l \in Lwps, t \in Uthreads :
                  ut_curthr'[l] = t /\ ut_curthr[l] # t =>
                    /\ ut_state[t] = "RUNNABLE"
                    /\ \A u \in Uthreads :
                         ut_state[u] = "RUNNABLE" => ut_prio[u] <= ut_prio[t]
<1>1. IInv /\ [SchedNext]_schedVars => [A]_schedVars
  <2> SUFFICES ASSUME IInv, SchedNext
               PROVE  A
    OBVIOUS
  <2>1. CASE UNCHANGED ut_curthr
    BY <2>1
  <2>2. ASSUME NEW k \in Lwps, LwpSwitch(k)
        PROVE  A
    <3>1. \A l \in Lwps : ut_curthr'[l] = NULL \/ ut_curthr'[l] = ut_curthr[l]
      BY <2>2 DEF LwpSwitch, IInv, TypeOK
    <3>2. \A t \in Uthreads : t # NULL
      BY SchedAssumption DEF SchedAssumption
    <3> QED BY <3>1, <3>2
  <2>3. ASSUME NEW k \in Lwps, LwpDispatch(k)
        PROVE  A
    <3> SUFFICES ASSUME NEW l \in Lwps, NEW t \in Uthreads,
                        ut_curthr'[l] = t, ut_curthr[l] # t
                 PROVE  /\ ut_state[t] = "RUNNABLE"
                        /\ \A u \in Uthreads :
                             ut_state[u] = "RUNNABLE" => ut_prio[u] <= ut_prio[t]
      OBVIOUS
    <3>1. PICK p \in Prios :
            /\ FirstNonEmpty(p)
            /\ ut_curthr' = [ut_curthr EXCEPT ![k] = Head(runq_table[p])]
      BY <2>3 DEF LwpDispatch
    <3>2. t = Head(runq_table[p]) /\ runq_table[p] # <<>>
      BY <3>1 DEF FirstNonEmpty, IInv, TypeOK
    <3>3. Occurs(runq_table[p], t)
      BY <3>2, DequeueQueue DEF IInv, TypeOK
    <3>4. ut_state[t] = "RUNNABLE" /\ ut_prio[t] = p
      BY <3>3 DEF IInv, RunqCoherent
    <3>5. ASSUME NEW u \in Uthreads, ut_state[u] = "RUNNABLE"
          PROVE  ut_prio[u] <= p
      <4>1. ut_prio[u] \in Prios /\ Occurs(runq_table[ut_prio[u]], u)
        BY <3>5 DEF IInv, TypeOK, RunqCoherent
      <4>2. runq_table[ut_prio[u]] # <<>>
        BY <4>1, EmptyQueue
      <4>3. ~(ut_prio[u] > p)
        BY <3>1, <4>1, <4>2 DEF FirstNonEmpty
      <4> QED BY <4>1, <4>3, SchedAssumption DEF SchedAssumption, Prios
    <3> QED BY <3>4, <3>5
  <2>4. ASSUME NEW l \in Lwps, LwpStep(l) \/ SpuriousWakeup(l),
               ~LwpSwitch(l), ~LwpDispatch(l)
        PROVE  UNCHANGED ut_curthr
    BY <2>4 DEF LwpStep, LwpStart, LwpPark, LwpUnpark, SpuriousWakeup
  <2>5. ASSUME NEW l \in Lwps, NEW t \in Uthreads, UthreadStep(l, t)
        PROVE  UNCHANGED ut_curthr
    BY <2>5 DEF UthreadStep, Yield, UthreadSwitch, UthreadWake,
       UthreadStartOnRunq, UthreadSetprio, lwpVars
  <2>6. ASSUME NEW l \in Lwps, NEW t \in Uthreads, ClientStep(l, t)
        PROVE  UNCHANGED ut_curthr
    BY <2>6 DEF ClientStep, LockPmut, UnlockPmut, WaitOn, WaitForExit,
       TakeWaiter, BecomeZombie, LeaveForGood, Destroy, Allocate, lwpVars
  <2>7. CASE UNCHANGED schedVars
    BY <2>1, <2>7 DEF schedVars, lwpVars
  <2> HIDE DEF A
  <2> QED BY <2>1, <2>2, <2>3, <2>4, <2>5, <2>6, <2>7 DEF SchedNext, Aborted
<1>2. DispatchesHighest <=> [][A]_schedVars
  BY DEF DispatchesHighest
<1> HIDE DEF A
<1> QED BY <1>1, <1>2, Invariance, PTL DEF SchedSpec

=============================================================================
