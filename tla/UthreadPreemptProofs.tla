------------------------ MODULE UthreadPreemptProofs ------------------------
(***************************************************************************)
(* Signal masks and counters agree for any number of uthreads and LWPs and *)
(* any nesting of uthread_nopreempt_on.                                    *)
(*                                                                         *)
(* The counter moves with the uthread and the mask stays with the LWP, so  *)
(* they agree after a switch only because of what is saved where: whoever  *)
(* leaves an LWP has a counter above 0, hence a blocked signal in ut_ctx,  *)
(* and lwp_switch restores that mask.  PInv says so.                       *)
(***************************************************************************)
EXTENDS UthreadPreempt, TLAPS, SequenceTheorems

\* A uthread: the counter at every place, where it may be when it is off the
\* CPU, and the mask that it will bring back.
UInv(t) ==
  /\ pc[t] \in {"yield", "yielded", "handler"} <=> frame[t] # NULL
  /\ pc[t] \in {"yield", "yielded"} => count[t] = 2
  /\ pc[t] = "handler" => count[t] = 1
  /\ pc[t] = "begin" /\ ut_state[t] # "NO_STATE" => count[t] = 1
  /\ pc[t] \in {"program", "on"} => count[t] = 0
  /\ pc[t] = "library" => count[t] > 0
  /\ ut_state[t] = "NO_STATE" => pc[t] \in {"begin", "library"}
  /\ ut_state[t] = "RUNNABLE" => pc[t] \in {"begin", "library", "yielded"}
  /\ ut_state[t] \in {"WAIT", "ZOMBIE"} => pc[t] = "library"
  /\ ut_state[t] \in {"RUNNABLE", "WAIT"} => ctx[t] = TRUE

\* An LWP executes a uthread that no other one does, with the mask that the
\* uthread's counter asks for; in lwp_switch it blocks the signal.
LInv(l) ==
  /\ ut_curthr[l] = NULL => masked[l]
  /\ ut_curthr[l] # NULL =>
       /\ ut_state[ut_curthr[l]] = "ON_CPU"
       /\ masked[l] <=> count[ut_curthr[l]] > 0
       /\ \A k \in Lwps : ut_curthr[k] = ut_curthr[l] => k = l

\* Every entry of the run queue is runnable and is there once.
RunqInv ==
  /\ \A i \in 1..Len(runq) : ut_state[runq[i]] = "RUNNABLE"
  /\ \A i, j \in 1..Len(runq) : runq[i] = runq[j] => i = j

PInv ==
  /\ PreemptTypeOK
  /\ \A t \in Uthreads : UInv(t)
  /\ \A l \in Lwps : LInv(l)
  /\ RunqInv

LEMMA InitPInv == PreemptInit => PInv
<1> SUFFICES ASSUME PreemptInit PROVE PInv
  OBVIOUS
<1> USE PreemptAssumption DEF PreemptAssumption, PreemptInit
<1>1. PreemptTypeOK
  <2>1. <<FirstThr, ReaperThr>> \in Seq(Uthreads)
    OBVIOUS
  <2>2. /\ masked \in [Lwps -> BOOLEAN] /\ ctx \in [Uthreads -> BOOLEAN]
        /\ pending \in BOOLEAN
    OBVIOUS
  <2> QED BY <2>1, <2>2 DEF PreemptTypeOK, Pcs
<1>2. ASSUME NEW t \in Uthreads PROVE UInv(t)
  BY DEF UInv
<1>3. ASSUME NEW l \in Lwps PROVE LInv(l)
  BY DEF LInv
<1>4. RunqInv
  BY DEF RunqInv
<1> QED BY <1>1, <1>2, <1>3, <1>4 DEF PInv

-----------------------------------------------------------------------------
(* Steps on an LWP that leave the run queue alone.                         *)

\* A step of uthread t on LWP l that keeps the two together: only t's part and
\* l's mask are to be looked at.
LEMMA OnCpuStep ==
  ASSUME PInv, PreemptTypeOK', NEW l \in Lwps, NEW t \in Uthreads,
         ut_curthr[l] = t, UNCHANGED <<ut_curthr, ut_state, runq>>,
         \A u \in Uthreads \ {t} :
           /\ count'[u] = count[u] /\ pc'[u] = pc[u]
           /\ ctx'[u] = ctx[u] /\ frame'[u] = frame[u],
         \A k \in Lwps \ {l} : masked'[k] = masked[k],
         masked'[l] <=> (count'[t] > 0),
         UInv(t)'
  PROVE  PInv'
<1>1. ASSUME NEW u \in Uthreads PROVE UInv(u)'
  BY DEF PInv, UInv
<1>2. ASSUME NEW k \in Lwps PROVE LInv(k)'
  <2>1. CASE k = l
    BY <2>1, PreemptAssumption DEF PInv, LInv, PreemptAssumption
  <2>2. CASE k # l
    <3>1. ut_curthr[k] # t
      BY <2>2, PreemptAssumption DEF PInv, LInv, PreemptAssumption
    <3>2. ut_curthr[k] \in Uthreads \cup {NULL}
      BY DEF PInv, PreemptTypeOK
    <3> QED BY <2>2, <3>1, <3>2 DEF PInv, LInv
  <2> QED BY <2>1, <2>2
<1>3. RunqInv'
  BY DEF PInv, RunqInv
<1> QED BY <1>1, <1>2, <1>3 DEF PInv

\* What is known of the uthread that an LWP executes.
LEMMA OnCpu ==
  ASSUME PInv, NEW l \in Lwps, NEW t \in Uthreads, ut_curthr[l] = t
  PROVE  /\ ut_state[t] = "ON_CPU" /\ (masked[l] <=> count[t] > 0)
         /\ UInv(t) /\ count[t] \in Nat /\ pc[t] \in Pcs
<1>1. t # NULL
  BY PreemptAssumption DEF PreemptAssumption
<1>2. ut_state[t] = "ON_CPU" /\ (masked[l] <=> count[t] > 0)
  BY <1>1 DEF PInv, LInv
<1>3. UInv(t) /\ count[t] \in Nat /\ pc[t] \in Pcs
  BY DEF PInv, PreemptTypeOK
<1> QED BY <1>2, <1>3

\* A step of uthread t on LWP l that changes the mask, the counter, the place
\* and the frame as told.
LEMMA MaskStep ==
  ASSUME PInv, NEW l \in Lwps, NEW t \in Uthreads, ut_curthr[l] = t,
         NEW c \in Nat, NEW p \in Pcs, NEW f \in {"program", "on", NULL},
         masked' \in [Lwps -> BOOLEAN], masked'[l] <=> c > 0,
         \A k \in Lwps \ {l} : masked'[k] = masked[k],
         count' = [count EXCEPT ![t] = c],
         pc' = [pc EXCEPT ![t] = p], frame' = [frame EXCEPT ![t] = f],
         UNCHANGED <<ut_curthr, ut_state, ctx, runq>>, pending' \in BOOLEAN,
         p \in {"yield", "yielded", "handler"} <=> f # NULL,
         p \in {"yield", "yielded"} => c = 2,
         p \in {"handler", "begin"} => c = 1,
         p \in {"program", "on"} => c = 0,
         p = "library" => c > 0
  PROVE  PInv'
<1>1. PreemptTypeOK'
  BY DEF PInv, PreemptTypeOK
<1>2. /\ masked'[l] <=> (count'[t] > 0)
      /\ count'[t] = c /\ pc'[t] = p /\ frame'[t] = f
  BY DEF PInv, PreemptTypeOK
<1>3. UInv(t)'
  BY <1>2, OnCpu DEF UInv
<1>4. /\ \A u \in Uthreads \ {t} :
           /\ count'[u] = count[u] /\ pc'[u] = pc[u]
           /\ ctx'[u] = ctx[u] /\ frame'[u] = frame[u]
      /\ \A k \in Lwps \ {l} : masked'[k] = masked[k]
  BY DEF PInv, PreemptTypeOK
<1> QED BY <1>1, <1>2, <1>3, <1>4, OnCpuStep

\* clock_interrupt begins: the counter goes from 0 to 2 as the signal is blocked.
LEMMA InterruptStep ==
  ASSUME PInv, NEW l \in Lwps, NEW t \in Uthreads, ClockInterrupt(l, t)
  PROVE  PInv'
<1>0. ut_curthr[l] = t /\ ~masked[l]
  BY DEF ClockInterrupt
<1>1. count[t] = 0
  <2>1. (masked[l] <=> count[t] > 0) /\ count[t] \in Nat
    BY <1>0, OnCpu
  <2> QED BY <1>0, <2>1
<1>2. pc[t] \in {"program", "on"}
  <2>1. UInv(t) /\ pc[t] \in Pcs /\ ut_state[t] = "ON_CPU"
    BY <1>0, OnCpu
  <2> QED BY <1>1, <2>1 DEF UInv, Pcs
<1>3. pc[t] # NULL
  BY <1>2, PreemptAssumption DEF PreemptAssumption
<1>4. "yield" \in Pcs
  BY DEF Pcs
<1>5. /\ masked' \in [Lwps -> BOOLEAN] /\ masked'[l]
      /\ \A k \in Lwps \ {l} : masked'[k] = masked[k]
      /\ pending' \in BOOLEAN
  BY DEF ClockInterrupt, PInv, PreemptTypeOK
<1>6. /\ count' = [count EXCEPT ![t] = 2]
      /\ pc' = [pc EXCEPT ![t] = "yield"]
      /\ frame' = [frame EXCEPT ![t] = pc[t]]
      /\ UNCHANGED <<ut_curthr, ut_state, ctx, runq>>
  BY DEF ClockInterrupt
<1> DEFINE two == 2
<1>7. two \in Nat /\ two = 2 /\ two > 0 /\ count' = [count EXCEPT ![t] = two]
  BY <1>6
<1> HIDE DEF two
<1> QED BY <1>0, <1>2, <1>3, <1>4, <1>5, <1>6, <1>7, MaskStep

\* clock_interrupt ends where no signal is wanted until it has returned.
LEMMA InterruptReturnStep ==
  ASSUME PInv, NEW l \in Lwps, NEW t \in Uthreads, ClockInterruptReturn(l, t)
  PROVE  PInv'
<1>0. ut_curthr[l] = t /\ pc[t] = "handler"
  BY DEF ClockInterruptReturn, At
<1>1. frame[t] \in {"program", "on"}
  BY <1>0, OnCpu DEF UInv, PInv, PreemptTypeOK
<1>2. frame[t] \in Pcs /\ NULL \in {"program", "on", NULL}
  BY <1>1 DEF Pcs
<1>3. /\ masked' \in [Lwps -> BOOLEAN] /\ ~masked'[l]
      /\ \A k \in Lwps \ {l} : masked'[k] = masked[k]
      /\ pending' \in BOOLEAN
  BY DEF ClockInterruptReturn, PInv, PreemptTypeOK
<1>4. /\ count' = [count EXCEPT ![t] = 0]
      /\ pc' = [pc EXCEPT ![t] = frame[t]]
      /\ frame' = [frame EXCEPT ![t] = NULL]
      /\ UNCHANGED <<ut_curthr, ut_state, ctx, runq>>
  BY DEF ClockInterruptReturn
<1> DEFINE zero == 0
           f == frame[t]
<1>5. /\ zero \in Nat /\ zero = 0 /\ count' = [count EXCEPT ![t] = zero]
      /\ f \in {"program", "on"} /\ f \in Pcs /\ pc' = [pc EXCEPT ![t] = f]
  BY <1>1, <1>2, <1>4
<1> HIDE DEF zero, f
<1>6. ~(zero > 0)
  BY <1>5
<1> QED BY <1>0, <1>2, <1>3, <1>4, <1>5, <1>6, MaskStep

\* uthread_nopreempt_on: between is_masked and the counting nothing counts yet.
LEMMA NopreemptOnStep ==
  ASSUME PInv, NEW l \in Lwps, NEW t \in Uthreads,
         NopreemptOnCalled(l, t) \/ NopreemptOn(l, t)
  PROVE  PInv'
<1>0. ut_curthr[l] = t /\ pc[t] \in {"program", "on", "library"}
  BY DEF NopreemptOnCalled, NopreemptOn, At
<1>1. frame[t] = NULL /\ UInv(t) /\ count[t] \in Nat
  BY <1>0, OnCpu DEF UInv
<1>2. (masked[l] <=> count[t] > 0) /\ count[t] + 1 \in Nat /\ count[t] + 1 > 0
  BY <1>0, <1>1, OnCpu
<1>3. "on" \in Pcs /\ "library" \in Pcs
  BY DEF Pcs
<1>4. frame' = [frame EXCEPT ![t] = frame[t]] /\ pending' \in BOOLEAN
  BY DEF NopreemptOnCalled, NopreemptOn, PInv, PreemptTypeOK
<1>5. CASE NopreemptOnCalled(l, t)
  <2>1. /\ masked' = masked /\ masked \in [Lwps -> BOOLEAN]
        /\ count' = [count EXCEPT ![t] = count[t]]
        /\ pc' = [pc EXCEPT ![t] = "on"] /\ pc[t] = "program"
        /\ UNCHANGED <<ut_curthr, ut_state, ctx, runq>>
    BY <1>5 DEF NopreemptOnCalled, At, lwpVars, PInv, PreemptTypeOK
  <2>2. count[t] = 0
    BY <1>1, <2>1 DEF UInv
  <2> QED BY <1>0, <1>1, <1>2, <1>3, <1>4, <2>1, <2>2, MaskStep
<1>6. CASE NopreemptOn(l, t)
  <2>1. /\ masked' \in [Lwps -> BOOLEAN] /\ masked'[l]
        /\ \A k \in Lwps \ {l} : masked'[k] = masked[k]
    BY <1>6 DEF NopreemptOn, PInv, PreemptTypeOK
  <2>2. /\ count' = [count EXCEPT ![t] = count[t] + 1]
        /\ pc' = [pc EXCEPT ![t] = "library"]
        /\ UNCHANGED <<ut_curthr, ut_state, ctx, runq>>
    BY <1>6 DEF NopreemptOn
  <2> QED BY <1>0, <1>1, <1>2, <1>3, <1>4, <2>1, <2>2, MaskStep
<1> QED BY <1>5, <1>6

\* uthread_nopreempt_off unblocks the signal with the last of nested calls, and
\* never in the uthread_yield of clock_interrupt.
LEMMA NopreemptOffStep ==
  ASSUME PInv, NEW l \in Lwps, NEW t \in Uthreads, NopreemptOff(l, t)
  PROVE  PInv'
<1>0. ut_curthr[l] = t /\ pc[t] \in {"begin", "library", "yielded"}
  BY DEF NopreemptOff
<1>1. /\ UInv(t) /\ count[t] \in Nat /\ (masked[l] <=> count[t] > 0)
      /\ ut_state[t] = "ON_CPU"
  BY <1>0, OnCpu
<1>2. /\ count[t] > 0 /\ (pc[t] = "yielded" => count[t] = 2)
      /\ (pc[t] = "begin" => count[t] = 1)
  BY <1>0, <1>1 DEF UInv
<1>3. count[t] - 1 \in Nat /\ (count[t] - 1 > 0 <=> count[t] # 1)
  BY <1>1, <1>2
<1>4. /\ masked' \in [Lwps -> BOOLEAN] /\ (masked'[l] <=> count[t] # 1)
      /\ \A k \in Lwps \ {l} : masked'[k] = masked[k]
      /\ pending' \in BOOLEAN
  BY <1>1, <1>2 DEF NopreemptOff, PInv, PreemptTypeOK
<1>5. /\ count' = [count EXCEPT ![t] = count[t] - 1]
      /\ pc' = [pc EXCEPT ![t] = AfterOff(t)]
      /\ frame' = [frame EXCEPT ![t] = frame[t]]
      /\ UNCHANGED <<ut_curthr, ut_state, ctx, runq>>
  BY DEF NopreemptOff, PInv, PreemptTypeOK
<1>6. /\ AfterOff(t) \in Pcs
      /\ AfterOff(t) = IF pc[t] = "yielded" THEN "handler"
                       ELSE IF count[t] = 1 THEN "program" ELSE "library"
  BY DEF AfterOff, Pcs
<1>7. frame[t] \in {"program", "on", NULL}
  BY DEF PInv, PreemptTypeOK
<1>8. AfterOff(t) = "handler" <=> frame[t] # NULL
  BY <1>0, <1>1, <1>6 DEF UInv
<1> DEFINE c == count[t] - 1
           p == AfterOff(t)
<1>9. /\ c \in Nat /\ (masked'[l] <=> c > 0)
      /\ count' = [count EXCEPT ![t] = c] /\ pc' = [pc EXCEPT ![t] = p]
      /\ p \in Pcs /\ p \in {"handler", "program", "library"}
      /\ p = "handler" => c = 1
      /\ p = "program" => c = 0
      /\ p = "library" => c > 0
      /\ p = "handler" <=> frame[t] # NULL
      /\ masked' \in [Lwps -> BOOLEAN] /\ pending' \in BOOLEAN
      /\ \A k \in Lwps \ {l} : masked'[k] = masked[k]
      /\ frame' = [frame EXCEPT ![t] = frame[t]]
      /\ UNCHANGED <<ut_curthr, ut_state, ctx, runq>>
  BY <1>0, <1>2, <1>3, <1>4, <1>5, <1>6, <1>8
<1> HIDE DEF c, p
<1>10. /\ p \in {"yield", "yielded", "handler"} <=> p = "handler"
       /\ p \notin {"yield", "yielded", "begin", "on"}
  BY <1>9
<1>11. /\ p \in {"yield", "yielded", "handler"} <=> frame[t] # NULL
       /\ p \in {"yield", "yielded"} => c = 2
       /\ p \in {"handler", "begin"} => c = 1
       /\ p \in {"program", "on"} => c = 0
  BY <1>9, <1>10
<1> QED BY <1>0, <1>7, <1>9, <1>11, MaskStep

-----------------------------------------------------------------------------
(* Switches, wake-ups and creations.                                       *)

\* A uthread that becomes runnable was not on the run queue.
LEMMA RunqAppend ==
  ASSUME PInv, NEW t \in Uthreads, ut_state[t] # "RUNNABLE",
         runq' = Append(runq, t), ut_state' = [ut_state EXCEPT ![t] = "RUNNABLE"]
  PROVE  RunqInv' /\ runq' \in Seq(Uthreads)
<1>1. runq \in Seq(Uthreads) /\ ut_state \in [Uthreads ->
        {"NO_STATE", "RUNNABLE", "ON_CPU", "WAIT", "ZOMBIE"}]
  BY DEF PInv, PreemptTypeOK
<1>2. /\ runq' \in Seq(Uthreads) /\ Len(runq') = Len(runq) + 1
      /\ runq'[Len(runq) + 1] = t
      /\ \A i \in 1..Len(runq) : runq'[i] = runq[i] /\ runq[i] \in Uthreads
  BY <1>1
<1>3. \A i \in 1..Len(runq) : runq[i] # t
  BY DEF PInv, RunqInv
<1>4. \A i \in 1..Len(runq') : i \in 1..Len(runq) \/ i = Len(runq) + 1
  BY <1>1, <1>2
<1>5. \A i \in 1..Len(runq') : ut_state'[runq'[i]] = "RUNNABLE"
  BY <1>1, <1>2, <1>3, <1>4 DEF PInv, RunqInv
<1>6. \A i, j \in 1..Len(runq') : runq'[i] = runq'[j] => i = j
  BY <1>2, <1>3, <1>4 DEF PInv, RunqInv
<1> QED BY <1>2, <1>5, <1>6 DEF RunqInv

\* A uthread leaves its LWP with the signal blocked in the context it saves.
LEMMA SwitchStep ==
  ASSUME PInv, NEW l \in Lwps, NEW t \in Uthreads, NEW st,
         SwitchYield(l, t) \/ (st \in {"WAIT", "ZOMBIE"} /\ SwitchAway(l, t, st))
  PROVE  PInv'
<1>0. ut_curthr[l] = t /\ pc[t] \in {"library", "yield"} /\ SavesContext(l, t)
  BY DEF SwitchYield, SwitchAway, At
<1>1. /\ UInv(t) /\ count[t] \in Nat /\ (masked[l] <=> count[t] > 0)
      /\ ut_state[t] = "ON_CPU" /\ t # NULL
  BY <1>0, OnCpu, PreemptAssumption DEF PreemptAssumption
<1>2. masked[l]
  BY <1>0, <1>1 DEF UInv
<1>3. /\ masked' = [masked EXCEPT ![l] = TRUE]
      /\ ut_curthr' = [ut_curthr EXCEPT ![l] = NULL]
      /\ ctx' = [ctx EXCEPT ![t] = TRUE]
      /\ count' = count /\ frame' = frame /\ pending' = pending
  <2>1. masked[l] = TRUE
    BY <1>2 DEF PInv, PreemptTypeOK
  <2> QED BY <1>0, <2>1 DEF SavesContext, SwitchYield, SwitchAway
<1> DEFINE s == ut_state'[t]
           p == pc'[t]
<1>4. /\ ut_state' = [ut_state EXCEPT ![t] = s]
      /\ pc' = [pc EXCEPT ![t] = p]
      /\ \/ s = "RUNNABLE" /\ p = IF pc[t] = "yield" THEN "yielded" ELSE pc[t]
         \/ s \in {"WAIT", "ZOMBIE"} /\ pc[t] = "library" /\ p = "library"
  BY DEF SwitchYield, SwitchAway, At, PInv, PreemptTypeOK
<1>5. /\ RunqInv' /\ runq' \in Seq(Uthreads)
  <2>1. CASE SwitchYield(l, t)
    BY <1>1, <2>1, RunqAppend DEF SwitchYield
  <2>2. CASE st \in {"WAIT", "ZOMBIE"} /\ SwitchAway(l, t, st)
    BY <1>1, <2>2 DEF SwitchAway, PInv, PreemptTypeOK, RunqInv
  <2> QED BY <2>1, <2>2
<1>6. PreemptTypeOK'
  <2>1. p \in Pcs
    BY <1>0, <1>4 DEF Pcs
  <2> QED BY <1>3, <1>4, <1>5, <2>1 DEF PInv, PreemptTypeOK
<1> HIDE DEF s, p
<1>7. ASSUME NEW u \in Uthreads PROVE UInv(u)'
  <2>1. CASE u = t
    <3>1. /\ ut_state'[t] = s /\ pc'[t] = p /\ ctx'[t] = TRUE
          /\ count'[t] = count[t] /\ frame'[t] = frame[t]
      BY <1>3, <1>4 DEF PInv, PreemptTypeOK
    <3>2. /\ p \in {"yield", "yielded", "handler"} <=> frame[t] # NULL
          /\ p \in {"yield", "yielded"} => count[t] = 2
          /\ p = "library" => count[t] > 0
          /\ p \in {"library", "yielded"}
          /\ s \in {"WAIT", "ZOMBIE"} => p = "library"
          /\ s \in {"RUNNABLE", "WAIT", "ZOMBIE"}
      BY <1>0, <1>1, <1>4 DEF UInv
    <3> QED BY <2>1, <3>1, <3>2 DEF UInv
  <2>2. CASE u # t
    BY <1>3, <1>4, <2>2 DEF PInv, PreemptTypeOK, UInv
  <2> QED BY <2>1, <2>2
<1>8. ASSUME NEW k \in Lwps PROVE LInv(k)'
  <2>1. CASE k = l
    BY <1>3, <2>1 DEF PInv, PreemptTypeOK, LInv
  <2>2. CASE k # l
    <3>1. ut_curthr[k] # t /\ ut_curthr[k] \in Uthreads \cup {NULL}
      BY <1>0, <1>1, <2>2 DEF PInv, PreemptTypeOK, LInv
    <3>2. /\ ut_curthr'[k] = ut_curthr[k] /\ masked'[k] = masked[k]
          /\ \A j \in Lwps : ut_curthr'[j] = IF j = l THEN NULL ELSE ut_curthr[j]
      BY <1>3, <2>2 DEF PInv, PreemptTypeOK
    <3>3. ut_curthr[k] # NULL => ut_state'[ut_curthr[k]] = ut_state[ut_curthr[k]]
      BY <1>4, <3>1 DEF PInv, PreemptTypeOK
    <3> QED BY <1>3, <3>1, <3>2, <3>3 DEF PInv, LInv
  <2> QED BY <2>1, <2>2
<1> QED BY <1>5, <1>6, <1>7, <1>8 DEF PInv

\* lwp_switch restores the mask of the context, whoever saved it.
LEMMA DispatchStep ==
  ASSUME PInv, NEW l \in Lwps, LwpDispatch(l)
  PROVE  PInv'
<1> DEFINE t == Head(runq)
           n == Len(runq)
<1>0. ut_curthr[l] = NULL /\ runq # <<>> /\ runq \in Seq(Uthreads)
  BY DEF LwpDispatch, PInv, PreemptTypeOK
<1>1. /\ t \in Uthreads /\ t = runq[1] /\ n \in Nat \ {0}
      /\ Tail(runq) \in Seq(Uthreads) /\ Len(Tail(runq)) = n - 1
      /\ \A i \in 1..(n - 1) : /\ Tail(runq)[i] = runq[i + 1] /\ i + 1 \in 1..n
                               /\ runq[i + 1] \in Uthreads
  BY <1>0, HeadTailProperties, EmptySeq
<1>2. /\ masked' = [masked EXCEPT ![l] = ctx[t]]
      /\ ut_curthr' = [ut_curthr EXCEPT ![l] = t]
      /\ ut_state' = [ut_state EXCEPT ![t] = "ON_CPU"]
      /\ runq' = Tail(runq)
      /\ UNCHANGED <<count, pc, ctx, frame, pending>>
  BY DEF LwpDispatch
<1>3. ut_state[t] = "RUNNABLE" /\ t # NULL
  BY <1>1, PreemptAssumption DEF PInv, RunqInv, PreemptAssumption
<1> HIDE DEF t, n
<1>4. UInv(t) /\ ctx[t] /\ count[t] > 0
  <2>1. UInv(t)
    BY <1>1 DEF PInv
  <2>2. ctx[t] = TRUE /\ count[t] > 0
    BY <1>3, <2>1 DEF UInv
  <2> QED BY <2>1, <2>2
<1>5. PreemptTypeOK'
  BY <1>1, <1>2 DEF PInv, PreemptTypeOK
<1>6. ASSUME NEW u \in Uthreads PROVE UInv(u)'
  <2>1. CASE u = t
    <3>1. ut_state'[t] = "ON_CPU"
      BY <1>1, <1>2 DEF PInv, PreemptTypeOK
    <3> QED BY <1>2, <1>3, <1>4, <2>1, <3>1 DEF UInv
  <2>2. CASE u # t
    <3>1. ut_state'[u] = ut_state[u] /\ UInv(u)
      BY <1>2, <2>2 DEF PInv, PreemptTypeOK
    <3> QED BY <1>2, <3>1 DEF UInv
  <2> QED BY <2>1, <2>2
<1>7. ASSUME NEW k \in Lwps PROVE LInv(k)'
  <2>1. \A j \in Lwps : ut_curthr[j] # t
    BY <1>3 DEF PInv, LInv
  <2>2. \A j \in Lwps : ut_curthr'[j] = IF j = l THEN t ELSE ut_curthr[j]
    BY <1>2 DEF PInv, PreemptTypeOK
  <2>3. CASE k = l
    <3>1. masked'[l] /\ ut_state'[t] = "ON_CPU" /\ count' = count
      BY <1>1, <1>2, <1>4 DEF PInv, PreemptTypeOK
    <3> QED BY <1>3, <1>4, <2>1, <2>2, <2>3, <3>1 DEF LInv
  <2>4. CASE k # l
    <3>1. /\ masked'[k] = masked[k] /\ ut_curthr'[k] = ut_curthr[k]
          /\ ut_curthr[k] \in Uthreads \cup {NULL} /\ count' = count
      BY <1>2, <2>4 DEF PInv, PreemptTypeOK
    <3>2. ut_curthr[k] # NULL => ut_state'[ut_curthr[k]] = ut_state[ut_curthr[k]]
      BY <1>2, <2>1, <3>1 DEF PInv, PreemptTypeOK
    <3> QED BY <2>1, <2>2, <3>1, <3>2 DEF PInv, LInv
  <2> QED BY <2>3, <2>4
<1>8. RunqInv'
  <2>1. \A i \in 1..(n - 1) : runq[i + 1] # t /\ ut_state[runq[i + 1]] = "RUNNABLE"
    <3>1. \A i, j \in 1..n : runq[i] = runq[j] => i = j
      BY DEF PInv, RunqInv, n
    <3>2. \A i \in 1..n : ut_state[runq[i]] = "RUNNABLE"
      BY DEF PInv, RunqInv, n
    <3>3. \A i \in 1..(n - 1) : i + 1 # 1 /\ 1 \in 1..n
      BY <1>1
    <3> QED BY <1>1, <3>1, <3>2, <3>3
  <2>2. \A i \in 1..(n - 1) : ut_state'[runq'[i]] = "RUNNABLE"
    BY <1>1, <1>2, <2>1 DEF PInv, PreemptTypeOK
  <2>3. \A i, j \in 1..(n - 1) : runq'[i] = runq'[j] => i = j
    <3>1. \A i, j \in 1..n : runq[i] = runq[j] => i = j
      BY DEF PInv, RunqInv, n
    <3>2. \A i, j \in 1..(n - 1) : i + 1 = j + 1 => i = j
      BY <1>1
    <3> QED BY <1>1, <1>2, <3>1, <3>2
  <2> QED BY <1>1, <1>2, <2>2, <2>3 DEF RunqInv
<1> QED BY <1>5, <1>6, <1>7, <1>8 DEF PInv

\* A uthread that is not on the CPU changes state; its counter and its context
\* are those of a uthread that may be dispatched.
LEMMA OffCpuStep ==
  ASSUME PInv, NEW u \in Uthreads, ut_state[u] # "ON_CPU",
         NEW st \in {"NO_STATE", "RUNNABLE"},
         ut_state' = [ut_state EXCEPT ![u] = st],
         PreemptTypeOK', RunqInv', UInv(u)', UNCHANGED lwpVars,
         \A v \in Uthreads \ {u} :
           /\ count'[v] = count[v] /\ pc'[v] = pc[v]
           /\ ctx'[v] = ctx[v] /\ frame'[v] = frame[v]
  PROVE  PInv'
<1>1. ASSUME NEW v \in Uthreads PROVE UInv(v)'
  <2>1. CASE v # u
    <3>1. ut_state'[v] = ut_state[v] /\ UInv(v)
      BY <2>1 DEF PInv, PreemptTypeOK
    <3> QED BY <2>1, <3>1 DEF UInv
  <2> QED BY <2>1
<1>2. ASSUME NEW k \in Lwps PROVE LInv(k)'
  <2>1. ut_curthr[k] # NULL =>
          /\ ut_curthr[k] \in Uthreads \ {u}
          /\ ut_state'[ut_curthr[k]] = ut_state[ut_curthr[k]]
          /\ count'[ut_curthr[k]] = count[ut_curthr[k]]
    BY DEF PInv, PreemptTypeOK, LInv
  <2>2. masked' = masked /\ ut_curthr' = ut_curthr
    BY DEF lwpVars
  <2> QED BY <2>1, <2>2 DEF PInv, LInv
<1> QED BY <1>1, <1>2 DEF PInv

\* uthread_wake, uthread_create and uthread_destroy.
LEMMA OtherUthreadStep ==
  ASSUME PInv, NEW l \in Lwps, NEW t \in Uthreads, NEW u \in Uthreads,
         UthreadWake(l, t, u) \/ UthreadCreate(l, t, u) \/ UthreadDestroy(l, t, u)
  PROVE  PInv'
<1>0. /\ UInv(u) /\ count \in [Uthreads -> Nat] /\ ctx \in [Uthreads -> BOOLEAN]
      /\ pc \in [Uthreads -> Pcs] /\ PreemptTypeOK
  BY DEF PInv, PreemptTypeOK
<1>1. CASE UthreadWake(l, t, u)
  <2>1. /\ ut_state[u] = "WAIT" /\ ut_state' = [ut_state EXCEPT ![u] = "RUNNABLE"]
        /\ runq' = Append(runq, u)
        /\ UNCHANGED <<lwpVars, count, pc, ctx, frame, pending>>
    BY <1>1 DEF UthreadWake
  <2>2. RunqInv' /\ runq' \in Seq(Uthreads)
    BY <2>1, RunqAppend
  <2>3. PreemptTypeOK'
    BY <1>0, <2>1, <2>2 DEF PreemptTypeOK, lwpVars
  <2>4. UInv(u)'
    <3>1. ut_state'[u] = "RUNNABLE"
      BY <1>0, <2>1 DEF PreemptTypeOK
    <3> QED BY <1>0, <2>1, <3>1 DEF UInv
  <2> QED BY <2>1, <2>2, <2>3, <2>4, OffCpuStep
<1>2. CASE UthreadCreate(l, t, u)
  <2>1. /\ ut_state[u] = "NO_STATE"
        /\ ut_state' = [ut_state EXCEPT ![u] = "RUNNABLE"]
        /\ runq' = Append(runq, u)
        /\ count' = [count EXCEPT ![u] = 1] /\ ctx' = [ctx EXCEPT ![u] = TRUE]
        /\ pc' = [pc EXCEPT ![u] = "begin"]
        /\ UNCHANGED <<lwpVars, frame, pending>>
    BY <1>2 DEF UthreadCreate, Starts
  <2>2. RunqInv' /\ runq' \in Seq(Uthreads)
    BY <2>1, RunqAppend
  <2>3. PreemptTypeOK'
    BY <1>0, <2>1, <2>2 DEF PreemptTypeOK, lwpVars, Pcs
  <2>4. UInv(u)'
    <3>1. /\ ut_state'[u] = "RUNNABLE" /\ pc'[u] = "begin" /\ count'[u] = 1
          /\ ctx'[u] = TRUE
      BY <1>0, <2>1 DEF PreemptTypeOK
    <3>2. frame'[u] = NULL
      BY <1>0, <2>1 DEF UInv
    <3> QED BY <3>1, <3>2 DEF UInv
  <2>5. \A v \in Uthreads \ {u} :
          /\ count'[v] = count[v] /\ pc'[v] = pc[v]
          /\ ctx'[v] = ctx[v] /\ frame'[v] = frame[v]
    BY <1>0, <2>1
  <2> QED BY <2>1, <2>2, <2>3, <2>4, <2>5, OffCpuStep
<1>3. CASE UthreadDestroy(l, t, u)
  <2>1. /\ ut_state[u] = "ZOMBIE"
        /\ ut_state' = [ut_state EXCEPT ![u] = "NO_STATE"]
        /\ UNCHANGED <<lwpVars, count, pc, ctx, frame, runq, pending>>
    BY <1>3 DEF UthreadDestroy
  <2>2. RunqInv'
    BY <1>0, <2>1 DEF PInv, RunqInv, PreemptTypeOK
  <2>3. PreemptTypeOK'
    BY <1>0, <2>1 DEF PreemptTypeOK, lwpVars
  <2>4. UInv(u)'
    <3>1. ut_state'[u] = "NO_STATE"
      BY <1>0, <2>1 DEF PreemptTypeOK
    <3> QED BY <1>0, <2>1, <3>1 DEF UInv
  <2> QED BY <2>1, <2>2, <2>3, <2>4, OffCpuStep
<1> QED BY <1>1, <1>2, <1>3

LEMMA NextPInv == PInv /\ [PreemptNext]_preemptVars => PInv'
<1> SUFFICES ASSUME PInv, [PreemptNext]_preemptVars PROVE PInv'
  OBVIOUS
<1>1. CASE UNCHANGED preemptVars \/ TimerFires
  <2>1. UNCHANGED <<lwpVars, uthreadVars, runq>> /\ pending' \in BOOLEAN
    BY <1>1 DEF preemptVars, TimerFires, PInv, PreemptTypeOK
  <2> QED BY <2>1 DEF PInv, PreemptTypeOK, UInv, LInv, RunqInv, lwpVars,
                      uthreadVars
<1>2. ASSUME NEW l \in Lwps, NEW t \in Uthreads, NEW st \in {"WAIT", "ZOMBIE"},
             SwitchAway(l, t, st)
      PROVE  PInv'
  BY <1>2, SwitchStep
<1> QED BY <1>1, <1>2, DispatchStep, InterruptStep, InterruptReturnStep,
           NopreemptOnStep, NopreemptOffStep, SwitchStep, OtherUthreadStep
        DEF PreemptNext

\* Who is where with which mask, counter and context, in every state.
THEOREM PreemptInvariance == PreemptSpec => []PInv
BY InitPInv, NextPInv, PTL DEF PreemptSpec

-----------------------------------------------------------------------------
(* What follows from it.                                                   *)

\* clock_interrupt never interrupts itself or the library, on any LWP: what it
\* returns to is the program or the beginning of uthread_nopreempt_on.
THEOREM PreemptTypeCorrect == PreemptSpec => []PreemptTypeOK
<1>1. PInv => PreemptTypeOK
  BY DEF PInv
<1> QED BY <1>1, PreemptInvariance, PTL

\* The signal is delivered only to an LWP that executes a uthread outside the
\* library, as the assertions of clock_interrupt say.
THEOREM InterruptsAreSafe == PreemptSpec => []InterruptSafe
<1>1. PInv => InterruptSafe
  <2> SUFFICES ASSUME PInv, NEW l \in Lwps
               PROVE  /\ ~masked[l] => /\ ut_curthr[l] # NULL
                                       /\ ut_state[ut_curthr[l]] = "ON_CPU"
                                       /\ count[ut_curthr[l]] = 0
                      /\ \A t \in Uthreads :
                           At(l, t, "handler") => masked[l] /\ count[t] = 1
    BY DEF InterruptSafe
  <2>1. ~masked[l] => /\ ut_curthr[l] # NULL
                      /\ ut_state[ut_curthr[l]] = "ON_CPU"
                      /\ count[ut_curthr[l]] = 0
    <3> SUFFICES ASSUME ~masked[l]
                 PROVE  /\ ut_curthr[l] # NULL
                        /\ ut_state[ut_curthr[l]] = "ON_CPU"
                        /\ count[ut_curthr[l]] = 0
      OBVIOUS
    <3>1. ut_curthr[l] \in Uthreads
      BY DEF PInv, PreemptTypeOK, LInv
    <3>2. ~(count[ut_curthr[l]] > 0) /\ count[ut_curthr[l]] \in Nat
      BY <3>1, OnCpu
    <3> QED BY <3>1, <3>2, OnCpu, PreemptAssumption DEF PreemptAssumption
  <2>2. ASSUME NEW t \in Uthreads, At(l, t, "handler")
        PROVE  masked[l] /\ count[t] = 1
    <3>1. ut_curthr[l] = t /\ count[t] = 1
      BY <2>2, OnCpu DEF At, UInv
    <3>2. masked[l] <=> count[t] > 0
      BY <3>1, OnCpu
    <3> QED BY <3>1, <3>2
  <2> QED BY <2>1, <2>2
<1> QED BY <1>1, PreemptInvariance, PTL

\* The counter that a uthread brings and the mask that it finds agree on every
\* LWP, as uthread_nopreempt_on, uthread_yield and uthread_switch assert.
THEOREM MasksFollowCounts == PreemptSpec => []MaskFollowsCount
<1>1. PInv => MaskFollowsCount
  <2> SUFFICES ASSUME PInv, NEW l \in Lwps, NEW t \in Uthreads, ut_curthr[l] = t
               PROVE  /\ masked[l] <=> count[t] > 0
                      /\ pc[t] \in {"library", "yield", "yielded"} => count[t] > 0
                      /\ pc[t] = "begin" => count[t] = 1
    BY DEF MaskFollowsCount
  <2>1. /\ UInv(t) /\ ut_state[t] = "ON_CPU"
        /\ masked[l] <=> count[t] > 0
    BY OnCpu
  <2>2. /\ pc[t] \in {"library", "yield", "yielded"} => count[t] > 0
        /\ pc[t] = "begin" => count[t] = 1
    BY <2>1 DEF UInv
  <2> QED BY <2>1, <2>2
<1> QED BY <1>1, PreemptInvariance, PTL

=============================================================================
