---------------------------- MODULE UthreadQueue ----------------------------
(***************************************************************************)
(* The queues of uthread_queue.c: circular doubly linked lists (list.h)    *)
(* through the field ut_link of the uthreads, with a counter beside them.  *)
(* A node is the head of a list or the link of a uthread.                  *)
(*                                                                         *)
(* order is the caller's view of the queues, on which its own rules are    *)
(* stated; no operation reads it.                                          *)
(***************************************************************************)
EXTENDS Integers, Sequences

CONSTANTS
  Uthreads,
  Queues,    \* the utqueue_t's: run queues, waiters of objects, reap_queue
  NULL

ASSUME QueueAssumption ==
  /\ Uthreads \cap Queues = {}
  /\ NULL \notin Uthreads \cup Queues

Nodes == Queues \cup Uthreads

VARIABLES
  l_next, l_prev, \* the two links of every node
  tq_size,        \* the counter of each queue
  result,         \* what the last utqueue_dequeue returned
  aborted,        \* an assertion has failed
  order           \* the caller's view (history): who leaves first comes first

vars == <<l_next, l_prev, tq_size, result, aborted, order>>

Fifo == INSTANCE FifoQueues

-----------------------------------------------------------------------------
(* list.h                                                                  *)

\* Wrong: the old predecessor is not made to point to the new node.
list_insert_before_HalfLinked(old, new) ==
  /\ l_next' = [l_next EXCEPT ![new] = old]
  /\ l_prev' = [l_prev EXCEPT ![new] = l_prev[old], ![old] = new]

list_insert_before(old, new) ==
  /\ l_next' = [l_next EXCEPT ![new] = old, ![l_prev[old]] = new]
  /\ l_prev' = [l_prev EXCEPT ![new] = l_prev[old], ![old] = new]

list_insert_head(list, link) == list_insert_before(l_next[list], link)

list_remove(link) ==
  /\ l_next' = [l_next EXCEPT ![l_prev[link]] = l_next[link], ![link] = NULL]
  /\ l_prev' = [l_prev EXCEPT ![l_next[link]] = l_prev[link], ![link] = NULL]

list_empty(list) == l_next[list] = list

-----------------------------------------------------------------------------
(* uthread_queue.c                                                         *)

QueueInit ==
  /\ l_next = [n \in Nodes |-> IF n \in Queues THEN n ELSE NULL]
  /\ l_prev = [n \in Nodes |-> IF n \in Queues THEN n ELSE NULL]
  /\ tq_size = [q \in Queues |-> 0]
  /\ result = NULL
  /\ aborted = FALSE
  /\ order = [q \in Queues |-> <<>>]

Asserts(condition) == aborted' = (aborted \/ ~condition)

\* A queue is set up again when a uthread's slot is reused; its old waiters
\* have left by then.
utqueue_init(q) ==
  /\ order[q] = <<>>
  /\ l_next' = [l_next EXCEPT ![q] = q]
  /\ l_prev' = [l_prev EXCEPT ![q] = q]
  /\ tq_size' = [tq_size EXCEPT ![q] = 0]
  /\ UNCHANGED <<result, aborted, order>>

\* The caller queues a uthread that is on no queue.
utqueue_enqueue(q, t) ==
  /\ ~Fifo!Queued(t)
  /\ Asserts(l_next[t] = NULL /\ l_prev[t] = NULL)
  /\ list_insert_head(q, t)
  /\ tq_size' = [tq_size EXCEPT ![q] = @ + 1]
  /\ order' = [order EXCEPT ![q] = Append(@, t)]
  /\ UNCHANGED result

\* Wrong: the element at the other end is taken.
utqueue_dequeue_Head(q) ==
  /\ Asserts(list_empty(q) <=> tq_size[q] = 0)
  /\ IF tq_size[q] = 0
     THEN /\ result' = NULL
          /\ UNCHANGED <<l_next, l_prev, tq_size, order>>
     ELSE /\ result' = l_next[q]
          /\ list_remove(l_next[q])
          /\ tq_size' = [tq_size EXCEPT ![q] = @ - 1]
          /\ order' = [order EXCEPT ![q] = Fifo!Without(@, Len(@))]

\* Wrong: an empty queue is not noticed.
utqueue_dequeue_Unchecked(q) ==
  /\ Asserts(list_empty(q) <=> tq_size[q] = 0)
  /\ result' = l_prev[q]
  /\ list_remove(l_prev[q])
  /\ tq_size' = [tq_size EXCEPT ![q] = @ - 1]
  /\ order' = [order EXCEPT ![q] = IF @ = <<>> THEN @ ELSE Tail(@)]

utqueue_dequeue(q) ==
  /\ Asserts(list_empty(q) <=> tq_size[q] = 0)
  /\ IF tq_size[q] = 0
     THEN /\ result' = NULL
          /\ UNCHANGED <<l_next, l_prev, tq_size, order>>
     ELSE /\ result' = l_prev[q]
          /\ list_remove(l_prev[q])
          /\ tq_size' = [tq_size EXCEPT ![q] = @ - 1]
          /\ order' = [order EXCEPT ![q] = Tail(@)]

\* Wrong: the counter of the queue is forgotten.
utqueue_remove_NotCounted(q, k) ==
  LET t == order[q][k]
  IN  /\ Asserts(l_next[t] # NULL /\ l_prev[t] # NULL)
      /\ list_remove(t)
      /\ order' = [order EXCEPT ![q] = Fifo!Without(@, k)]
      /\ UNCHANGED <<tq_size, result>>

\* The caller names the queue that the uthread is on, as its k-th element.
utqueue_remove(q, k) ==
  LET t == order[q][k]
  IN  /\ Asserts(l_next[t] # NULL /\ l_prev[t] # NULL)
      /\ list_remove(t)
      /\ tq_size' = [tq_size EXCEPT ![q] = @ - 1]
      /\ order' = [order EXCEPT ![q] = Fifo!Without(@, k)]
      /\ UNCHANGED result

QueueNext ==
  /\ ~aborted
  /\ \E q \in Queues :
       \/ utqueue_init(q)
       \/ \E t \in Uthreads : utqueue_enqueue(q, t)
       \/ utqueue_dequeue(q)
       \/ \E k \in 1..Len(order[q]) : utqueue_remove(q, k)

QueueSpec == QueueInit /\ [][QueueNext]_vars

-----------------------------------------------------------------------------
(* Properties.                                                             *)

\* Links, counters and results have their types.
QueueTypeOK ==
  /\ l_next \in [Nodes -> Nodes \cup {NULL}]
  /\ l_prev \in [Nodes -> Nodes \cup {NULL}]
  /\ tq_size \in [Queues -> Int]
  /\ result \in Uthreads \cup {NULL}
  /\ aborted \in BOOLEAN
  /\ order \in [Queues -> Seq(Uthreads)]

\* the i-th node of the ring of q, the head being at both ends
At(q, i) == IF i \in 1..Len(order[q]) THEN order[q][i] ELSE q

\* However enqueue, dequeue and remove follow each other, the links of a queue
\* form one ring through its head, in both directions, in the order of the
\* queue; a uthread is on one ring at most and otherwise has cleared links.
RingsMatch ==
  /\ \A q \in Queues : \A i \in 0..Len(order[q]) :
       /\ l_prev[At(q, i)] = At(q, i + 1)
       /\ l_next[At(q, i + 1)] = At(q, i)
  /\ \A q1, q2 \in Queues :
       \A i \in 1..Len(order[q1]), j \in 1..Len(order[q2]) :
         order[q1][i] = order[q2][j] => q1 = q2 /\ i = j
  /\ \A t \in Uthreads :
       ~Fifo!Queued(t) => l_next[t] = NULL /\ l_prev[t] = NULL

\* The assertions of utqueue_enqueue, utqueue_empty and utqueue_remove never
\* fail, the last two also for a queue that other uthreads were removed from
\* in the middle, and the counter is what utqueue_empty takes it for.
AssertionsHold ==
  /\ ~aborted
  /\ \A q \in Queues : tq_size[q] = Len(order[q])

\* The linked lists implement the sequences of the other modules: what is
\* dequeued is the uthread that has waited longest.
ImplementsFifo == Fifo!FifoSpec

=============================================================================
