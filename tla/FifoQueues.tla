----------------------------- MODULE FifoQueues -----------------------------
(***************************************************************************)
(* What the queues of uthread_queue.c promise, and what the other modules  *)
(* take them for: sequences of uthreads, where a uthread is on one queue   *)
(* at most, utqueue_dequeue returns the one that has been there longest,   *)
(* and utqueue_remove takes a uthread out from anywhere.                   *)
(***************************************************************************)
EXTENDS Sequences, Naturals

CONSTANTS Uthreads, Queues, NULL

VARIABLES
  order,  \* each queue's uthreads, in the order in which they leave
  result  \* what the last utqueue_dequeue returned

On(q, t) == \E i \in 1..Len(order[q]) : order[q][i] = t
Queued(t) == \E q \in Queues : On(q, t)

\* the sequence s without its k-th element
Without(s, k) ==
  [j \in 1..(Len(s) - 1) |-> IF j < k THEN s[j] ELSE s[j + 1]]

Enqueue(q, t) ==
  /\ ~Queued(t)
  /\ order' = [order EXCEPT ![q] = Append(@, t)]
  /\ UNCHANGED result

Dequeue(q) ==
  \/ /\ order[q] = <<>>
     /\ result' = NULL
     /\ UNCHANGED order
  \/ /\ order[q] # <<>>
     /\ result' = Head(order[q])
     /\ order' = [order EXCEPT ![q] = Tail(@)]

Remove(q, k) ==
  /\ order' = [order EXCEPT ![q] = Without(@, k)]
  /\ UNCHANGED result

FifoInit ==
  /\ order = [q \in Queues |-> <<>>]
  /\ result = NULL

FifoNext ==
  \E q \in Queues :
    \/ \E t \in Uthreads : Enqueue(q, t)
    \/ Dequeue(q)
    \/ \E k \in 1..Len(order[q]) : Remove(q, k)

FifoSpec == FifoInit /\ [][FifoNext]_<<order, result>>

=============================================================================
