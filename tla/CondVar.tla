------------------------------- MODULE CondVar -------------------------------
(***************************************************************************)
(* What a condition variable promises: uthread_cond_wait gives up the      *)
(* mutex and falls asleep in one step (uthread_cond.c:43-45); a signal     *)
(* that is given while somebody sleeps wakes the one that has slept        *)
(* longest, a broadcast all; who has been woken takes the mutex again.     *)
(***************************************************************************)
EXTENDS Sequences, Naturals

CONSTANTS Uthreads, Mutexes, Conds, NULL

VARIABLES
  held,      \* the mutexes each uthread holds
  asleep,    \* the uthreads asleep on each condition variable, in order
  signalling \* the condition variable each uthread is about to signal, or NULL

Sleeps(t) == \E c \in Conds : \E i \in 1..Len(asleep[c]) : asleep[c][i] = t

Lock(t, m) ==
  /\ ~Sleeps(t)
  /\ \A u \in Uthreads : m \notin held[u]
  /\ held' = [held EXCEPT ![t] = @ \cup {m}]
  /\ UNCHANGED <<asleep, signalling>>

Unlock(t, m) ==
  /\ m \in held[t]
  /\ held' = [held EXCEPT ![t] = @ \ {m}]
  /\ UNCHANGED <<asleep, signalling>>

Wait(t, c, m) ==
  /\ m \in held[t]
  /\ held' = [held EXCEPT ![t] = @ \ {m}]
  /\ asleep' = [asleep EXCEPT ![c] = Append(@, t)]
  /\ UNCHANGED signalling

CallSignal(t, c) ==
  /\ signalling[t] = NULL
  /\ signalling' = [signalling EXCEPT ![t] = c]
  /\ UNCHANGED <<held, asleep>>

Signal(t, c) ==
  /\ signalling[t] = c
  /\ signalling' = [signalling EXCEPT ![t] = NULL]
  /\ asleep' = [asleep EXCEPT ![c] = IF @ = <<>> THEN @ ELSE Tail(@)]
  /\ UNCHANGED held

Broadcast(c) ==
  /\ asleep' = [asleep EXCEPT ![c] = <<>>]
  /\ UNCHANGED <<held, signalling>>

CondVarInit ==
  /\ held = [t \in Uthreads |-> {}]
  /\ asleep = [c \in Conds |-> <<>>]
  /\ signalling = [t \in Uthreads |-> NULL]

CondVarNext ==
  \/ \E t \in Uthreads, m \in Mutexes :
       \/ Lock(t, m)
       \/ Unlock(t, m)
       \/ \E c \in Conds : Wait(t, c, m)
  \/ \E t \in Uthreads, c \in Conds : CallSignal(t, c) \/ Signal(t, c)
  \/ \E c \in Conds : Broadcast(c)

CondVarSpec == CondVarInit /\ [][CondVarNext]_<<held, asleep, signalling>>

=============================================================================
