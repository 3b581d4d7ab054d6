--------------------------- MODULE UthreadPreempt ---------------------------
(***************************************************************************)
(* Preemption: the clock interrupt SIGVTALRM, the signal mask of every     *)
(* LWP, the counter ut_no_preempt_count of every uthread and the masks     *)
(* saved in machine contexts and signal frames.  A uthread carries its     *)
(* counter from LWP to LWP while the mask belongs to the LWP.  The run     *)
(* queue has one priority here, and runq_mtx is left to UthreadSched: what *)
(* an LWP does between two uthreads is one step.                           *)
(***************************************************************************)
EXTENDS Naturals, Sequences, FiniteSets

CONSTANTS
  Uthreads, Lwps, FirstThr, ReaperThr, NULL,
  MaxNest  \* bound: how deep the calls of uthread_nopreempt_on are nested

ASSUME PreemptAssumption ==
  /\ FirstThr \in Uthreads /\ ReaperThr \in Uthreads /\ FirstThr # ReaperThr
  /\ NULL \notin Uthreads /\ NULL # "program" /\ NULL # "on"
  /\ MaxNest \in Nat \ {0}

VARIABLES
  masked,    \* per LWP: is SIGVTALRM blocked?
  ut_curthr, \* per LWP: the uthread it executes; NULL: it is in lwp_switch
  ut_state,  \* uthread_t.ut_state
  count,     \* uthread_t.ut_no_preempt_count
  pc,        \* where a uthread is, see Pcs
  ctx,       \* uthread_t.ut_ctx.uc_sigmask: is SIGVTALRM blocked in it?
  frame,     \* where clock_interrupt returns to, or NULL
  runq,      \* the run queue, head first
  pending    \* SIGVTALRM is pending for the process

lwpVars == <<masked, ut_curthr>>
uthreadVars == <<ut_state, count, pc, ctx, frame>>
preemptVars == <<lwpVars, uthreadVars, runq, pending>>

\* begin: in thread_start; program: in the program's code; on: in
\* uthread_nopreempt_on before pthread_sigmask; library: in code between
\* nopreempt_on and nopreempt_off; yield, yielded: in the uthread_yield of
\* clock_interrupt before and after the switch; handler: after that call
Pcs == {"begin", "program", "on", "library", "yield", "yielded", "handler"}

\* create_first_thr: the two first uthreads are on the run queue with their
\* counters at 1, every LWP has inherited a mask that blocks the signal.
PreemptInit ==
  /\ masked = [l \in Lwps |-> TRUE]
  /\ ut_curthr = [l \in Lwps |-> NULL]
  /\ ut_state = [t \in Uthreads |-> IF t \in {FirstThr, ReaperThr}
                                    THEN "RUNNABLE" ELSE "NO_STATE"]
  /\ count = [t \in Uthreads |-> IF t \in {FirstThr, ReaperThr} THEN 1 ELSE 0]
  /\ pc = [t \in Uthreads |-> "begin"]
  /\ ctx = [t \in Uthreads |-> TRUE]
  /\ frame = [t \in Uthreads |-> NULL]
  /\ runq = <<FirstThr, ReaperThr>>
  /\ pending = FALSE

-----------------------------------------------------------------------------

At(l, t, where) == ut_curthr[l] = t /\ pc[t] = where

\* setitimer: the timer is the process's; a pending signal stays one signal
TimerFires ==
  /\ pending' = TRUE
  /\ UNCHANGED <<lwpVars, uthreadVars, runq>>

\* Wrong: the counter is not set before uthread_yield counts up.
ClockInterrupt_NotCounted(l, t) ==
  /\ pending
  /\ ~masked[l]
  /\ ut_curthr[l] = t
  /\ pending' = FALSE
  /\ masked' = [masked EXCEPT ![l] = TRUE]
  /\ count' = [count EXCEPT ![t] = @ + 1]
  /\ frame' = [frame EXCEPT ![t] = pc[t]]
  /\ pc' = [pc EXCEPT ![t] = "yield"]
  /\ UNCHANGED <<ut_curthr, ut_state, ctx, runq>>

\* clock_interrupt up to the switch in uthread_yield: the signal goes to any
\* LWP that does not block it, and is blocked while its handler runs.
ClockInterrupt(l, t) ==
  /\ pending
  /\ ~masked[l]
  /\ ut_curthr[l] = t
  /\ pending' = FALSE
  /\ masked' = [masked EXCEPT ![l] = TRUE]
  /\ count' = [count EXCEPT ![t] = 1 + 1]
  /\ frame' = [frame EXCEPT ![t] = pc[t]]
  /\ pc' = [pc EXCEPT ![t] = "yield"]
  /\ UNCHANGED <<ut_curthr, ut_state, ctx, runq>>

\* clock_interrupt after uthread_yield; the mask saved in the signal frame is
\* that of the interrupted code, and takes effect on the LWP that t is on now.
ClockInterruptReturn(l, t) ==
  /\ At(l, t, "handler")
  /\ count' = [count EXCEPT ![t] = 0]
  /\ masked' = [masked EXCEPT ![l] = FALSE]
  /\ pc' = [pc EXCEPT ![t] = frame[t]]
  /\ frame' = [frame EXCEPT ![t] = NULL]
  /\ UNCHANGED <<ut_curthr, ut_state, ctx, runq, pending>>

\* uthread_nopreempt_on, called by the program: is_masked comes first
NopreemptOnCalled(l, t) ==
  /\ At(l, t, "program")
  /\ pc' = [pc EXCEPT ![t] = "on"]
  /\ UNCHANGED <<lwpVars, ut_state, count, ctx, frame, runq, pending>>

\* pthread_sigmask and the counting; a nested call in library code
NopreemptOn(l, t) ==
  /\ ut_curthr[l] = t
  /\ pc[t] \in {"on", "library"}
  /\ count[t] < MaxNest
  /\ masked' = [masked EXCEPT ![l] = TRUE]
  /\ count' = [count EXCEPT ![t] = @ + 1]
  /\ pc' = [pc EXCEPT ![t] = "library"]
  /\ UNCHANGED <<ut_curthr, ut_state, ctx, frame, runq, pending>>

AfterOff(t) ==
  IF pc[t] = "yielded" THEN "handler"
  ELSE IF count[t] = 1 THEN "program" ELSE "library"

\* Wrong: the nesting is ignored.
NopreemptOff_Unnested(l, t) ==
  /\ ut_curthr[l] = t
  /\ pc[t] \in {"begin", "library", "yielded"}
  /\ count' = [count EXCEPT ![t] = @ - 1]
  /\ masked' = [masked EXCEPT ![l] = FALSE]
  /\ pc' = [pc EXCEPT ![t] = AfterOff(t)]
  /\ UNCHANGED <<ut_curthr, ut_state, ctx, frame, runq, pending>>

\* Wrong: the signal is left blocked.
NopreemptOff_LeftBlocked(l, t) ==
  /\ ut_curthr[l] = t
  /\ pc[t] \in {"begin", "library", "yielded"}
  /\ count' = [count EXCEPT ![t] = @ - 1]
  /\ pc' = [pc EXCEPT ![t] = AfterOff(t)]
  /\ UNCHANGED <<masked, ut_curthr, ut_state, ctx, frame, runq, pending>>

\* uthread_nopreempt_off in thread_start, in library code, and in the
\* uthread_yield of clock_interrupt
NopreemptOff(l, t) ==
  /\ ut_curthr[l] = t
  /\ pc[t] \in {"begin", "library", "yielded"}
  /\ count' = [count EXCEPT ![t] = @ - 1]
  /\ masked' = [masked EXCEPT ![l] = @ /\ count[t] # 1]
  /\ pc' = [pc EXCEPT ![t] = AfterOff(t)]
  /\ UNCHANGED <<ut_curthr, ut_state, ctx, frame, runq, pending>>

\* uthread_switch saves the context, with the mask; lwp_switch runs with the
\* mask of lwp_ctx, which blocks the signal.
SavesContext(l, t) ==
  /\ ctx' = [ctx EXCEPT ![t] = masked[l]]
  /\ masked' = [masked EXCEPT ![l] = TRUE]
  /\ ut_curthr' = [ut_curthr EXCEPT ![l] = NULL]

\* uthread_yield: of clock_interrupt, or within library code
SwitchYield(l, t) ==
  /\ ut_curthr[l] = t
  /\ pc[t] \in {"library", "yield"}
  /\ SavesContext(l, t)
  /\ ut_state' = [ut_state EXCEPT ![t] = "RUNNABLE"]
  /\ runq' = Append(runq, t)
  /\ pc' = [pc EXCEPT ![t] = IF @ = "yield" THEN "yielded" ELSE @]
  /\ UNCHANGED <<count, frame, pending>>

\* the switch of a uthread that waits, or that has exited
SwitchAway(l, t, state) ==
  /\ At(l, t, "library")
  /\ SavesContext(l, t)
  /\ ut_state' = [ut_state EXCEPT ![t] = state]
  /\ UNCHANGED <<count, pc, frame, runq, pending>>

\* lwp_switch: setcontext(&ut_curthr->ut_ctx) restores the mask of ut_ctx.
LwpDispatch(l) ==
  /\ ut_curthr[l] = NULL
  /\ runq # <<>>
  /\ LET t == Head(runq)
     IN  /\ ut_curthr' = [ut_curthr EXCEPT ![l] = t]
         /\ ut_state' = [ut_state EXCEPT ![t] = "ON_CPU"]
         /\ masked' = [masked EXCEPT ![l] = ctx[t]]
  /\ runq' = Tail(runq)
  /\ UNCHANGED <<count, pc, ctx, frame, pending>>

\* uthread_wake, called by uthread t, which runs library code
UthreadWake(l, t, uthr) ==
  /\ At(l, t, "library")
  /\ ut_state[uthr] = "WAIT"
  /\ ut_state' = [ut_state EXCEPT ![uthr] = "RUNNABLE"]
  /\ runq' = Append(runq, uthr)
  /\ UNCHANGED <<lwpVars, count, pc, ctx, frame, pending>>

Starts(l, t, new, cnt) ==
  /\ At(l, t, "library")
  /\ ut_state[new] = "NO_STATE"
  /\ ut_state' = [ut_state EXCEPT ![new] = "RUNNABLE"]
  /\ count' = [count EXCEPT ![new] = cnt]
  /\ ctx' = [ctx EXCEPT ![new] = TRUE]
  /\ pc' = [pc EXCEPT ![new] = "begin"]
  /\ runq' = Append(runq, new)
  /\ UNCHANGED <<lwpVars, frame, pending>>

\* Wrong: a new uthread starts with its counter at 0.
UthreadCreate_NotCounted(l, t, new) == Starts(l, t, new, 0)

\* uthread_create: uthread_makecontext gives the new context a mask that
\* blocks the signal, and the counter starts at 1.
UthreadCreate(l, t, new) == Starts(l, t, new, 1)

\* uthread_destroy, executed by the reaper
UthreadDestroy(l, t, uth) ==
  /\ At(l, t, "library")
  /\ ut_state[uth] = "ZOMBIE"
  /\ ut_state' = [ut_state EXCEPT ![uth] = "NO_STATE"]
  /\ UNCHANGED <<lwpVars, count, pc, ctx, frame, runq, pending>>

PreemptNext ==
  \/ TimerFires
  \/ \E l \in Lwps : LwpDispatch(l)
  \/ \E l \in Lwps, t \in Uthreads :
       \/ ClockInterrupt(l, t) \/ ClockInterruptReturn(l, t)
       \/ NopreemptOnCalled(l, t) \/ NopreemptOn(l, t) \/ NopreemptOff(l, t)
       \/ SwitchYield(l, t)
       \/ \E state \in {"WAIT", "ZOMBIE"} : SwitchAway(l, t, state)
       \/ \E u \in Uthreads : \/ UthreadWake(l, t, u)
                              \/ UthreadCreate(l, t, u)
                              \/ UthreadDestroy(l, t, u)

PreemptSpec == PreemptInit /\ [][PreemptNext]_preemptVars

\* Of the program nothing is assumed: it may loop for ever in its own code.
\* The timer goes on, the signal reaches every LWP that keeps unblocking it,
\* LWPs run, and library code and thread_start come to their nopreempt_off or
\* a switch.
PreemptFairness ==
  /\ WF_preemptVars(TimerFires)
  /\ \A l \in Lwps :
       /\ WF_preemptVars(LwpDispatch(l))
       /\ SF_preemptVars(\E t \in Uthreads : ClockInterrupt(l, t))
  /\ \A t \in Uthreads :
       /\ SF_preemptVars(\E l \in Lwps :
            \/ (pc[t] # "library" \/ count[t] > 1) /\ NopreemptOff(l, t)
            \/ pc[t] = "yield" /\ SwitchYield(l, t)
            \/ ClockInterruptReturn(l, t))
       /\ SF_preemptVars(\E l \in Lwps :
            \/ count[t] = 1 /\ NopreemptOff(l, t)
            \/ SwitchYield(l, t)
            \/ \E state \in {"WAIT", "ZOMBIE"} : SwitchAway(l, t, state))

PreemptFairSpec == PreemptSpec /\ PreemptFairness

-----------------------------------------------------------------------------
(* Properties.                                                             *)

\* Masks, counters, contexts and the run queue have their types; above all
\* clock_interrupt never interrupts itself, whatever LWP it comes back on: it
\* returns to the program or to the beginning of uthread_nopreempt_on.
PreemptTypeOK ==
  /\ masked \in [Lwps -> BOOLEAN]
  /\ ut_curthr \in [Lwps -> Uthreads \cup {NULL}]
  /\ ut_state \in [Uthreads -> {"NO_STATE", "RUNNABLE", "ON_CPU", "WAIT",
                                "ZOMBIE"}]
  /\ count \in [Uthreads -> Nat]
  /\ pc \in [Uthreads -> Pcs]
  /\ ctx \in [Uthreads -> BOOLEAN]
  /\ frame \in [Uthreads -> {"program", "on", NULL}]
  /\ runq \in Seq(Uthreads)
  /\ pending \in BOOLEAN

\* The assertions of clock_interrupt: whenever an LWP does not block the
\* signal, it executes a uthread, on the CPU and outside library code; and at
\* the end of the handler the counter is 1 and the signal still blocked.
InterruptSafe ==
  \A l \in Lwps :
    /\ ~masked[l] => /\ ut_curthr[l] # NULL
                     /\ ut_state[ut_curthr[l]] = "ON_CPU"
                     /\ count[ut_curthr[l]] = 0
    /\ \A t \in Uthreads : At(l, t, "handler") => masked[l] /\ count[t] = 1

\* The assertions of uthread_nopreempt_on and _off, thread_start,
\* uthread_yield and uthread_switch: the mask of the LWP agrees with the
\* counter of the uthread it executes, though the uthread brings the one from
\* another LWP than the one it left; thread_start ends unmasked.
MaskFollowsCount ==
  \A l \in Lwps, t \in Uthreads :
    ut_curthr[l] = t =>
      /\ masked[l] <=> count[t] > 0
      /\ pc[t] \in {"library", "yield", "yielded"} => count[t] > 0
      /\ pc[t] = "begin" => count[t] = 1

\* Time slicing: a runnable uthread gets an LWP though the program's other
\* uthreads never call the library again.
RunnableRuns ==
  \A t \in Uthreads : (ut_state[t] = "RUNNABLE") ~> (ut_state[t] = "ON_CPU")

=============================================================================
