------------------------- MODULE UthreadQueueProofs -------------------------
(***************************************************************************)
(* The linked lists of UthreadQueue keep their shape, no assertion of      *)
(* uthread_queue.c fails, and they implement the sequences of FifoQueues,  *)
(* for any number of queues and uthreads.                                  *)
(***************************************************************************)
EXTENDS UthreadQueue, SequenceTheorems, TLAPS

\* The three invariants are inductive together: links, counters and order are
\* changed side by side by every operation.
QInv == QueueTypeOK /\ RingsMatch /\ AssertionsHold

-----------------------------------------------------------------------------
(* Sequences and rings.                                                    *)

\* Taking off the head of a sequence is taking out its first element.
LEMMA TailIsWithout ==
  ASSUME NEW S, NEW s \in Seq(S), s # <<>>
  PROVE  1 \in 1..Len(s) /\ Head(s) = s[1] /\ Tail(s) = Fifo!Without(s, 1)
<1>1. /\ Head(s) = s[1] /\ Tail(s) \in Seq(S)
      /\ Len(s) \in Nat /\ Len(s) # 0 /\ Len(Tail(s)) = Len(s) - 1
      /\ \A i \in 1..Len(Tail(s)) : Tail(s)[i] = s[i + 1]
  BY HeadTailProperties, EmptySeq, LenProperties
<1>2. Tail(s) \in [1..(Len(s) - 1) -> S]
  BY <1>1, LenProperties
<1>3. Tail(s) = [j \in 1..(Len(s) - 1) |-> s[j + 1]]
  BY <1>1, <1>2
<1>4. Fifo!Without(s, 1) = [j \in 1..(Len(s) - 1) |-> s[j + 1]]
  BY <1>1 DEF Fifo!Without
<1> QED BY <1>1, <1>3, <1>4

\* What is left of a sequence without its k-th element.
LEMMA WithoutElements ==
  ASSUME NEW S, NEW s \in Seq(S), NEW k \in 1..Len(s)
  PROVE  /\ Fifo!Without(s, k) \in Seq(S)
         /\ Len(Fifo!Without(s, k)) = Len(s) - 1
         /\ \A j \in 1..(Len(s) - 1) :
              Fifo!Without(s, k)[j] = IF j < k THEN s[j] ELSE s[j + 1]
<1>1. Len(s) - 1 \in Nat
  BY LenProperties
<1>2. \A j \in 1..(Len(s) - 1) : (IF j < k THEN s[j] ELSE s[j + 1]) \in S
  BY ElementOfSeq, LenProperties
<1> QED BY <1>1, <1>2 DEF Fifo!Without

\* Two places on the rings are different nodes.
LEMMA RingNodes ==
  ASSUME QueueTypeOK, RingsMatch,
         NEW q \in Queues, NEW i \in 0..Len(order[q])
  PROVE  /\ order[q] \in Seq(Uthreads) /\ Len(order[q]) \in Nat
         /\ At(q, i) \in Nodes /\ At(q, i + 1) \in Nodes
         /\ i # 0 => At(q, i) = order[q][i] /\ At(q, i) \in Uthreads
         /\ At(q, 0) = q /\ At(q, Len(order[q]) + 1) = q
         /\ \A r \in Queues : \A j \in 0..Len(order[r]) :
              At(q, i) = At(r, j) => q = r /\ i = j
<1>1. order[q] \in Seq(Uthreads) /\ Len(order[q]) \in Nat
  BY LenProperties DEF QueueTypeOK
<1>2. /\ At(q, i) \in Nodes /\ At(q, i + 1) \in Nodes
      /\ i # 0 => At(q, i) = order[q][i] /\ At(q, i) \in Uthreads
      /\ At(q, 0) = q /\ At(q, Len(order[q]) + 1) = q
  BY <1>1, ElementOfSeq DEF At, Nodes
<1>3. ASSUME NEW r \in Queues, NEW j \in 0..Len(order[r]), At(q, i) = At(r, j)
      PROVE  q = r /\ i = j
  <2>1. /\ order[r] \in Seq(Uthreads) /\ Len(order[r]) \in Nat
        /\ j # 0 => At(r, j) = order[r][j] /\ At(r, j) \in Uthreads
        /\ At(r, 0) = r
    BY LenProperties, ElementOfSeq DEF QueueTypeOK, At
  <2>2. CASE i = 0 \/ j = 0
    BY <2>1, <2>2, <1>1, <1>2, <1>3, QueueAssumption
  <2>3. CASE i # 0 /\ j # 0
    <3>1. i \in 1..Len(order[q]) /\ j \in 1..Len(order[r])
      BY <2>3, <2>1, <1>1
    <3>2. order[q][i] = order[r][j]
      BY <2>3, <2>1, <1>2, <1>3
    <3> QED BY <3>1, <3>2 DEF RingsMatch
  <2> QED BY <2>2, <2>3
<1> QED BY <1>1, <1>2, <1>3

-----------------------------------------------------------------------------
(* The operations.                                                         *)

\* Inserting at the head of the ring appends to the order.
LEMMA EnqueueStep ==
  ASSUME QInv, NEW q \in Queues, NEW t \in Uthreads, utqueue_enqueue(q, t)
  PROVE  QInv' /\ Fifo!Enqueue(q, t)
<1> DEFINE n == Len(order[q])
           last == l_next[q]
<1>1. /\ QueueTypeOK /\ RingsMatch /\ ~aborted
      /\ \A r \in Queues : tq_size[r] = Len(order[r])
  BY DEF QInv, AssertionsHold
<1>2. /\ order[q] \in Seq(Uthreads) /\ n \in Nat /\ 0 \in 0..n /\ n \in 0..n
      /\ At(q, n + 1) = q /\ At(q, n) \in Nodes
  <2>1. order[q] \in Seq(Uthreads) /\ n \in Nat
    BY <1>1, LenProperties DEF QueueTypeOK
  <2> QED BY <1>1, <2>1, RingNodes
<1>3. last = At(q, n) /\ l_prev[last] = q
  BY <1>1, <1>2 DEF RingsMatch
<1>4. ~Fifo!Queued(t) /\ l_next[t] = NULL /\ l_prev[t] = NULL
  BY <1>1 DEF utqueue_enqueue, RingsMatch
<1>5. \A r \in Queues : \A i \in 0..Len(order[r]) : At(r, i) # t
  <2> SUFFICES ASSUME NEW r \in Queues, NEW i \in 0..Len(order[r]), At(r, i) = t
               PROVE  FALSE
    OBVIOUS
  <2>1. i # 0 => i \in 1..Len(order[r]) /\ order[r][i] = t
    BY <1>1, RingNodes
  <2>2. i = 0 => t \in Queues
    BY <1>1, RingNodes
  <2> QED BY <2>1, <2>2, <1>4, QueueAssumption DEF Fifo!Queued, Fifo!On
<1>6. /\ l_next' = [l_next EXCEPT ![t] = last, ![q] = t]
      /\ l_prev' = [l_prev EXCEPT ![t] = q, ![last] = t]
      /\ tq_size' = [tq_size EXCEPT ![q] = @ + 1]
      /\ order' = [order EXCEPT ![q] = Append(@, t)]
      /\ result' = result /\ ~aborted'
  BY <1>1, <1>3, <1>4
     DEF utqueue_enqueue, list_insert_head, list_insert_before, Asserts
<1>7. /\ Append(order[q], t) \in Seq(Uthreads)
      /\ Len(Append(order[q], t)) = n + 1
      /\ \A i \in 1..n : Append(order[q], t)[i] = order[q][i]
      /\ Append(order[q], t)[n + 1] = t
  BY <1>2, AppendProperties
<1>8. order' \in [Queues -> Seq(Uthreads)]
  BY <1>1, <1>6, <1>7 DEF QueueTypeOK
<1>9. /\ order'[q] = Append(order[q], t)
      /\ \A r \in Queues : r # q => order'[r] = order[r]
  BY <1>1, <1>6 DEF QueueTypeOK
<1>10. QueueTypeOK'
  <2>1. aborted' \in BOOLEAN
    BY DEF utqueue_enqueue, Asserts
  <2>2. t \in Nodes /\ q \in Nodes /\ last \in Nodes
    BY <1>2, <1>3 DEF Nodes
  <2>3. /\ l_next' \in [Nodes -> Nodes \cup {NULL}]
        /\ l_prev' \in [Nodes -> Nodes \cup {NULL}]
        /\ tq_size' \in [Queues -> Int]
        /\ result' \in Uthreads \cup {NULL}
    <3> HIDE DEF last
    <3>1. /\ l_next \in [Nodes -> Nodes \cup {NULL}]
          /\ l_prev \in [Nodes -> Nodes \cup {NULL}]
          /\ tq_size \in [Queues -> Int]
          /\ result \in Uthreads \cup {NULL}
      BY <1>1 DEF QueueTypeOK
    <3> QED BY <3>1, <2>2, <1>6
  <2> QED BY <2>1, <2>3, <1>8 DEF QueueTypeOK
<1>11. AssertionsHold'
  BY <1>1, <1>6, <1>7, <1>9 DEF AssertionsHold, QueueTypeOK
<1> HIDE DEF last
<1>12. /\ \A x \in Nodes : l_next'[x] = IF x = q THEN t
                                        ELSE IF x = t THEN last ELSE l_next[x]
       /\ \A x \in Nodes : l_prev'[x] = IF x = last THEN t
                                        ELSE IF x = t THEN q ELSE l_prev[x]
       /\ q # t /\ last # t
  BY <1>1, <1>2, <1>3, <1>5, <1>6, QueueAssumption DEF QueueTypeOK, Nodes
<1>13. /\ \A i \in 0..n : At(q, i)' = At(q, i)
       /\ \A i \in Nat : /\ i = n + 1 => At(q, i)' = t
                         /\ i = n + 2 => At(q, i)' = q
       /\ \A r \in Queues : r # q => \A i \in Nat : At(r, i)' = At(r, i)
  <2>1. ASSUME NEW i \in 0..n PROVE At(q, i)' = At(q, i)
    <3>1. i \in 1..(n + 1) <=> i \in 1..n
      BY <1>2
    <3> QED BY <3>1, <1>7, <1>9 DEF At
  <2>2. ASSUME NEW i \in Nat, i = n + 1 PROVE At(q, i)' = t
    <3>1. i \in 1..(n + 1)
      BY <2>2, <1>2
    <3> QED BY <2>2, <3>1, <1>7, <1>9 DEF At
  <2>3. ASSUME NEW i \in Nat, i = n + 2 PROVE At(q, i)' = q
    <3>1. i \notin 1..(n + 1)
      BY <2>3, <1>2
    <3> QED BY <3>1, <1>7, <1>9 DEF At
  <2>4. ASSUME NEW r \in Queues, r # q, NEW i \in Nat
        PROVE  At(r, i)' = At(r, i)
    BY <2>4, <1>9 DEF At
  <2> QED BY <2>1, <2>2, <2>3, <2>4
<1>14. ASSUME NEW r \in Queues, NEW i \in 0..Len(order'[r])
       PROVE  l_prev'[At(r, i)'] = At(r, i + 1)' /\ l_next'[At(r, i + 1)'] = At(r, i)'
  <2>1. CASE r # q
    <3>1. /\ i \in 0..Len(order[r]) /\ i \in Nat /\ i + 1 \in Nat
          /\ At(r, i) # last /\ At(r, i) # t /\ At(r, i) \in Nodes
          /\ At(r, i + 1) \in Nodes
      BY <2>1, <1>1, <1>2, <1>3, <1>5, <1>9, RingNodes
    <3>2. At(r, i + 1) # q /\ At(r, i + 1) # t
      <4>1. Len(order[r]) \in Nat /\ At(q, 0) = q /\ 0 \in 0..Len(order[q])
        BY <1>1, <1>2, <3>1, RingNodes
      <4>2. CASE i = Len(order[r])
        BY <4>2, <2>1, <3>1, <1>1, RingNodes, QueueAssumption
      <4>3. CASE i # Len(order[r])
        <5>1. i + 1 \in 0..Len(order[r])
          BY <4>1, <4>3, <3>1
        <5>2. At(r, i + 1) = At(q, 0) => r = q
          BY <5>1, <4>1, <1>1, RingNodes
        <5> QED BY <5>1, <5>2, <4>1, <1>5, <2>1
      <4> QED BY <4>2, <4>3
    <3>3. l_prev[At(r, i)] = At(r, i + 1) /\ l_next[At(r, i + 1)] = At(r, i)
      BY <1>1, <3>1 DEF RingsMatch
    <3> QED BY <2>1, <3>1, <3>2, <3>3, <1>12, <1>13
  <2>2. CASE r = q /\ i < n
    <3>1. i \in 0..n /\ i + 1 \in 0..n /\ i + 1 # 0
      BY <2>2, <1>2, <1>7, <1>9
    <3>2. /\ At(q, i) \in Nodes /\ At(q, i + 1) \in Nodes
          /\ At(q, i) # last /\ At(q, i) # t
          /\ At(q, i + 1) # t /\ At(q, i + 1) # q
      <4>1. At(q, i) = At(q, n) => i = n
        BY <3>1, <1>1, <1>2, RingNodes
      <4>2. At(q, i + 1) = At(q, 0) => i + 1 = 0
        BY <3>1, <1>1, <1>2, RingNodes
      <4>3. At(q, 0) = q
        BY <1>1, <1>2, RingNodes
      <4> QED BY <4>1, <4>2, <4>3, <3>1, <2>2, <1>1, <1>2, <1>3, <1>5, RingNodes
    <3>3. l_prev[At(q, i)] = At(q, i + 1) /\ l_next[At(q, i + 1)] = At(q, i)
      BY <1>1, <3>1 DEF RingsMatch
    <3> QED BY <2>2, <3>1, <3>2, <3>3, <1>12, <1>13
  <2>3. CASE r = q /\ i = n
    <3>1. /\ At(q, i)' = last /\ At(q, i + 1)' = t
          /\ last \in Nodes /\ t \in Nodes
      <4>1. i \in Nat /\ i \in 0..n /\ i + 1 \in Nat /\ i + 1 = n + 1
        BY <2>3, <1>2
      <4>2. At(q, i)' = At(q, i) /\ At(q, i) = last
        BY <2>3, <4>1, <1>3, <1>13
      <4>3. At(q, i + 1)' = t
        BY <4>1, <1>13
      <4>4. last \in Nodes /\ t \in Nodes
        BY <1>2, <1>3 DEF Nodes
      <4> QED BY <4>2, <4>3, <4>4
    <3> QED BY <2>3, <3>1, <1>12
  <2>4. CASE r = q /\ i = n + 1
    <3>1. /\ i \in Nat /\ i + 1 \in Nat /\ i + 1 = n + 2
          /\ t # last /\ t \in Nodes /\ q \in Nodes
      BY <2>4, <1>2, <1>12 DEF Nodes
    <3>2. At(q, i)' = t
      BY <2>4, <3>1, <1>13
    <3>3. At(q, i + 1)' = q
      BY <2>4, <3>1, <1>13
    <3> QED BY <2>4, <3>1, <3>2, <3>3, <1>12
  <2> QED BY <2>1, <2>2, <2>3, <2>4, <1>2, <1>7, <1>9
<1>15. ASSUME NEW r1 \in Queues, NEW r2 \in Queues,
              NEW i \in 1..Len(order'[r1]), NEW j \in 1..Len(order'[r2]),
              order'[r1][i] = order'[r2][j]
       PROVE  r1 = r2 /\ i = j
  <2>1. ASSUME NEW r \in Queues, NEW k \in 1..Len(order'[r])
        PROVE  \/ k \in 1..Len(order[r]) /\ order'[r][k] = order[r][k]
                  /\ order'[r][k] # t
               \/ r = q /\ k = n + 1 /\ order'[r][k] = t
    <3>1. \A m \in 1..Len(order[r]) : order[r][m] # t
      BY <1>4 DEF Fifo!Queued, Fifo!On
    <3>2. CASE r # q
      BY <3>1, <3>2, <1>9
    <3>3. CASE r = q /\ k = n + 1
      BY <3>3, <1>7, <1>9
    <3>4. CASE r = q /\ k # n + 1
      <4>1. k \in 1..n
        BY <3>4, <1>2, <1>7, <1>9
      <4> QED BY <4>1, <3>1, <3>4, <1>7, <1>9
    <3> QED BY <3>2, <3>3, <3>4
  <2>2. \A a, b \in Queues : \A k \in 1..Len(order[a]), m \in 1..Len(order[b]) :
          order[a][k] = order[b][m] => a = b /\ k = m
    BY <1>1 DEF RingsMatch
  <2> QED BY <2>1, <2>2, <1>15
<1>16. ASSUME NEW u \in Uthreads, ~Fifo!Queued(u)'
       PROVE  l_next'[u] = NULL /\ l_prev'[u] = NULL
  <2>1. u # t
    <3>1. n + 1 \in 1..Len(order'[q]) /\ order'[q][n + 1] = t
      BY <1>2, <1>7, <1>9
    <3> QED BY <3>1, <1>16 DEF Fifo!Queued, Fifo!On
  <2>2. ~Fifo!Queued(u)
    <3> SUFFICES ASSUME NEW r \in Queues, NEW i \in 1..Len(order[r]),
                        order[r][i] = u
                 PROVE  FALSE
      BY DEF Fifo!Queued, Fifo!On
    <3>1. i \in 1..Len(order'[r]) /\ order'[r][i] = u
      <4>1. CASE r = q
        BY <4>1, <1>2, <1>7, <1>9
      <4>2. CASE r # q
        BY <4>2, <1>9
      <4> QED BY <4>1, <4>2
    <3> QED BY <3>1, <1>16 DEF Fifo!Queued, Fifo!On
  <2>3. u # last /\ u # q
    <3>1. n # 0 => n \in 1..n /\ last = order[q][n]
      BY <1>1, <1>2, <1>3, RingNodes
    <3>2. n = 0 => last = q
      BY <1>1, <1>2, <1>3, RingNodes
    <3> QED BY <3>1, <3>2, <2>2, QueueAssumption DEF Fifo!Queued, Fifo!On
  <2>4. l_next[u] = NULL /\ l_prev[u] = NULL
    BY <2>2, <1>1 DEF RingsMatch
  <2> QED BY <2>1, <2>3, <2>4, <1>12 DEF Nodes
<1>17. RingsMatch'
  BY <1>14, <1>15, <1>16 DEF RingsMatch
<1>18. Fifo!Enqueue(q, t)
  BY <1>4, <1>6 DEF Fifo!Enqueue
<1> QED BY <1>10, <1>11, <1>17, <1>18 DEF QInv

\* Unlinking the k-th node of a ring takes the k-th element out of the order.
LEMMA RemoveRing ==
  ASSUME QueueTypeOK, RingsMatch,
         NEW q \in Queues, NEW k \in 1..Len(order[q]),
         list_remove(order[q][k]),
         order' = [order EXCEPT ![q] = Fifo!Without(@, k)]
  PROVE  /\ RingsMatch'
         /\ l_next' \in [Nodes -> Nodes \cup {NULL}]
         /\ l_prev' \in [Nodes -> Nodes \cup {NULL}]
         /\ order' \in [Queues -> Seq(Uthreads)]
         /\ Len(order'[q]) = Len(order[q]) - 1
         /\ \A r \in Queues : r # q => order'[r] = order[r]
         /\ l_next[order[q][k]] # NULL /\ l_prev[order[q][k]] # NULL
<1> DEFINE n == Len(order[q])
           x == order[q][k]
           before == At(q, k + 1)
           after == At(q, k - 1)
<1>1. /\ order[q] \in Seq(Uthreads) /\ n \in Nat /\ k \in 0..n /\ k - 1 \in 0..n
      /\ k - 1 + 1 = k /\ k # 0
  BY LenProperties DEF QueueTypeOK
<1>2. /\ x = At(q, k) /\ x \in Uthreads /\ x \in Nodes
      /\ before \in Nodes /\ after \in Nodes
  BY <1>1, RingNodes
<1>3. /\ l_prev[x] = before /\ l_next[before] = x
      /\ l_next[x] = after /\ l_prev[after] = x
  <2>1. l_prev[At(q, k)] = At(q, k + 1) /\ l_next[At(q, k + 1)] = At(q, k)
    BY <1>1 DEF RingsMatch
  <2>2. l_prev[At(q, k - 1)] = At(q, k - 1 + 1)
        /\ l_next[At(q, k - 1 + 1)] = At(q, k - 1)
    BY <1>1 DEF RingsMatch
  <2> QED BY <2>1, <2>2, <1>1, <1>2
<1>4. x # before /\ x # after
  <2>1. x # after
    BY <1>1, <1>2, RingNodes
  <2>2. CASE k = n
    BY <2>2, <1>1, <1>2, RingNodes, QueueAssumption
  <2>3. CASE k # n
    <3>1. k + 1 \in 0..n /\ k + 1 # k
      BY <2>3, <1>1
    <3> QED BY <3>1, <1>1, <1>2, RingNodes
  <2> QED BY <2>1, <2>2, <2>3
<1>5. /\ \A y \in Nodes : l_next'[y] = IF y = x THEN NULL
                                       ELSE IF y = before THEN after ELSE l_next[y]
      /\ \A y \in Nodes : l_prev'[y] = IF y = x THEN NULL
                                       ELSE IF y = after THEN before ELSE l_prev[y]
      /\ l_next' \in [Nodes -> Nodes \cup {NULL}]
      /\ l_prev' \in [Nodes -> Nodes \cup {NULL}]
  BY <1>2, <1>3, <1>4 DEF QueueTypeOK, list_remove
<1>6. /\ Fifo!Without(order[q], k) \in Seq(Uthreads)
      /\ Len(Fifo!Without(order[q], k)) = n - 1
      /\ \A j \in 1..(n - 1) :
           Fifo!Without(order[q], k)[j] = IF j < k THEN order[q][j] ELSE order[q][j + 1]
  BY <1>1, WithoutElements
<1>7. /\ order' \in [Queues -> Seq(Uthreads)]
      /\ order'[q] = Fifo!Without(order[q], k)
      /\ \A r \in Queues : r # q => order'[r] = order[r]
  BY <1>6 DEF QueueTypeOK
<1>8. /\ \A i \in 0..(n - 1) : At(q, i)' = IF i < k THEN At(q, i) ELSE At(q, i + 1)
      /\ \A i \in Nat : i = n => At(q, i)' = q
      /\ \A r \in Queues : r # q => \A i \in Nat : At(r, i)' = At(r, i)
  <2>1. ASSUME NEW i \in 0..(n - 1)
        PROVE  At(q, i)' = IF i < k THEN At(q, i) ELSE At(q, i + 1)
    <3>1. CASE i = 0
      BY <3>1, <1>1, <1>6, <1>7 DEF At
    <3>2. CASE i # 0
      <4>1. i \in 1..(n - 1) /\ i \in 1..n /\ i + 1 \in 1..n
        BY <3>2, <1>1
      <4> QED BY <4>1, <1>6, <1>7 DEF At
    <3> QED BY <3>1, <3>2
  <2>2. ASSUME NEW i \in Nat, i = n PROVE At(q, i)' = q
    <3>1. i \notin 1..(n - 1)
      BY <2>2, <1>1
    <3> QED BY <3>1, <1>6, <1>7 DEF At
  <2>3. ASSUME NEW r \in Queues, r # q, NEW i \in Nat
        PROVE  At(r, i)' = At(r, i)
    BY <2>3, <1>7 DEF At
  <2> QED BY <2>1, <2>2, <2>3
<1> HIDE DEF x, before, after
<1>9. ASSUME NEW r \in Queues, NEW i \in 0..Len(order'[r])
      PROVE  l_prev'[At(r, i)'] = At(r, i + 1)' /\ l_next'[At(r, i + 1)'] = At(r, i)'
  <2>1. CASE r # q
    <3>1. /\ i \in 0..Len(order[r]) /\ i \in Nat /\ i + 1 \in Nat
          /\ At(r, i) \in Nodes /\ At(r, i + 1) \in Nodes
      BY <2>1, <1>7, LenProperties, RingNodes
    <3>2. At(r, i) # x /\ At(r, i) # after
      BY <2>1, <3>1, <1>1, <1>2, RingNodes DEF after
    <3>3. l_prev[At(r, i)] = At(r, i + 1) /\ l_next[At(r, i + 1)] = At(r, i)
      BY <3>1 DEF RingsMatch
    <3>4. At(r, i + 1) # x /\ At(r, i + 1) # before
      BY <3>2, <3>3, <1>3
    <3> QED BY <2>1, <3>1, <3>2, <3>3, <3>4, <1>5, <1>8
  <2>2. CASE r = q /\ i < k - 1
    <3>1. /\ i \in 0..n /\ i \in 0..(n - 1) /\ i < k /\ i # k /\ i # k - 1
          /\ i + 1 \in 0..(n - 1) /\ i + 1 < k
      BY <2>2, <1>1, <1>6, <1>7
    <3>2. At(q, i) # x /\ At(q, i) # after /\ At(q, i) \in Nodes /\ At(q, i + 1) \in Nodes
      BY <3>1, <1>1, <1>2, RingNodes DEF after
    <3>3. l_prev[At(q, i)] = At(q, i + 1) /\ l_next[At(q, i + 1)] = At(q, i)
      BY <3>1 DEF RingsMatch
    <3>4. At(q, i + 1) # x /\ At(q, i + 1) # before
      BY <3>2, <3>3, <1>3
    <3> QED BY <2>2, <3>1, <3>2, <3>3, <3>4, <1>5, <1>8
  <2>3. CASE r = q /\ i = k - 1
    <3>1. i \in 0..(n - 1) /\ i < k /\ i + 1 = k
      BY <2>3, <1>1
    <3>2. At(q, k)' = before
      <4>1. CASE k = n
        <5>1. k \in Nat /\ At(q, n + 1) = q
          BY <1>1, RingNodes
        <5> QED BY <4>1, <5>1, <1>8 DEF before
      <4>2. CASE k # n
        <5>1. k \in 0..(n - 1) /\ ~(k < k)
          BY <4>2, <1>1
        <5> QED BY <5>1, <1>8 DEF before
      <4> QED BY <4>1, <4>2
    <3>3. At(q, i)' = after
      BY <2>3, <3>1, <1>8 DEF after
    <3> QED BY <2>3, <3>1, <3>2, <3>3, <1>2, <1>4, <1>5
  <2>4. CASE r = q /\ i >= k
    <3>1. /\ i \in 0..(n - 1) /\ ~(i < k) /\ i + 1 \in 0..n
          /\ i + 1 # k /\ i + 1 # k - 1 /\ i + 1 + 1 = i + 2
      BY <2>4, <1>1, <1>6, <1>7
    <3>2. /\ At(q, i + 1) # x /\ At(q, i + 1) # after
          /\ At(q, i + 1) \in Nodes /\ At(q, i + 2) \in Nodes
      BY <3>1, <1>1, <1>2, RingNodes DEF after
    <3>3. l_prev[At(q, i + 1)] = At(q, i + 2) /\ l_next[At(q, i + 2)] = At(q, i + 1)
      BY <3>1 DEF RingsMatch
    <3>4. At(q, i + 2) # x /\ At(q, i + 2) # before
      BY <3>2, <3>3, <1>3
    <3>5. At(q, i + 1)' = At(q, i + 2)
      <4>1. CASE i + 1 = n
        <5>1. i + 2 = n + 1
          BY <4>1, <3>1, <1>1
        <5>2. i + 1 \in Nat /\ At(q, n + 1) = q
          BY <3>1, <1>1, RingNodes
        <5> QED BY <4>1, <5>1, <5>2, <1>8
      <4>2. CASE i + 1 # n
        <5>1. i + 1 \in 0..(n - 1) /\ ~(i + 1 < k)
          BY <4>2, <3>1, <1>1
        <5> QED BY <5>1, <3>1, <1>8
      <4> QED BY <4>1, <4>2
    <3>6. At(q, i)' = At(q, i + 1)
      BY <3>1, <1>8
    <3> QED BY <2>4, <3>1, <3>2, <3>3, <3>4, <3>5, <3>6, <1>5
  <2> QED BY <2>1, <2>2, <2>3, <2>4, <1>1, <1>6, <1>7
<1>10. ASSUME NEW r \in Queues, NEW i \in 1..Len(order'[r])
       PROVE  /\ r # q => i \in 1..Len(order[r]) /\ order'[r][i] = order[r][i]
              /\ r = q /\ i < k => i \in 1..n /\ order'[q][i] = order[q][i]
              /\ r = q /\ i >= k => i + 1 \in 1..n /\ order'[q][i] = order[q][i + 1]
  BY <1>1, <1>6, <1>7
<1>11. \A a, b \in Queues : \A i \in 1..Len(order[a]), j \in 1..Len(order[b]) :
         order[a][i] = order[b][j] => a = b /\ i = j
  BY DEF RingsMatch
<1>12. ASSUME NEW a \in Queues, NEW b \in Queues,
              NEW i \in 1..Len(order'[a]), NEW j \in 1..Len(order'[b]),
              order'[a][i] = order'[b][j]
       PROVE  a = b /\ i = j
  <2>1. ASSUME NEW r \in Queues, NEW m \in 1..Len(order'[r])
        PROVE  \E p \in 1..Len(order[r]) :
                 /\ order'[r][m] = order[r][p]
                 /\ p = IF r = q /\ m >= k THEN m + 1 ELSE m
    <3>1. CASE r # q
      BY <3>1, <1>10
    <3>2. CASE r = q /\ m < k
      <4>1. m \in 1..n /\ order'[r][m] = order[r][m] /\ ~(m >= k)
        BY <3>2, <1>1, <1>10
      <4> QED BY <3>2, <4>1
    <3>3. CASE r = q /\ m >= k
      <4>1. m + 1 \in 1..n /\ order'[r][m] = order[r][m + 1]
        BY <3>3, <1>10
      <4> QED BY <3>3, <4>1
    <3> QED BY <3>1, <3>2, <3>3, <1>1
  <2>2. PICK p1 \in 1..Len(order[a]) :
          /\ order'[a][i] = order[a][p1]
          /\ p1 = IF a = q /\ i >= k THEN i + 1 ELSE i
    BY <2>1
  <2>3. PICK p2 \in 1..Len(order[b]) :
          /\ order'[b][j] = order[b][p2]
          /\ p2 = IF b = q /\ j >= k THEN j + 1 ELSE j
    BY <2>1
  <2>4. a = b /\ p1 = p2
    BY <2>2, <2>3, <1>11, <1>12
  <2>5. i \in Int /\ j \in Int /\ k \in Int
    BY <1>1
  <2> QED BY <2>2, <2>3, <2>4, <2>5
<1>13. ASSUME NEW u \in Uthreads, ~Fifo!Queued(u)'
       PROVE  l_next'[u] = NULL /\ l_prev'[u] = NULL
  <2>1. CASE u = x
    BY <2>1, <1>2, <1>5
  <2>2. CASE u # x
    <3>1. ~Fifo!Queued(u)
      <4> SUFFICES ASSUME NEW r \in Queues, NEW i \in 1..Len(order[r]),
                          order[r][i] = u
                   PROVE  FALSE
        BY DEF Fifo!Queued, Fifo!On
      <4> DEFINE j == IF r # q \/ i < k THEN i ELSE i - 1
      <4>1. r = q => i # k
        BY <2>2 DEF x
      <4>2. j \in 1..Len(order'[r]) /\ order'[r][j] = u
        BY <4>1, <1>1, <1>6, <1>7
      <4> QED BY <4>2, <1>13 DEF Fifo!Queued, Fifo!On
    <3>2. l_next[u] = NULL /\ l_prev[u] = NULL
      BY <3>1 DEF RingsMatch
    <3>3. u # before /\ u # after
      BY <3>2, <1>2, <1>3, QueueAssumption DEF Nodes
    <3> QED BY <2>2, <3>2, <3>3, <1>5 DEF Nodes
  <2> QED BY <2>1, <2>2
<1>14. RingsMatch'
  BY <1>9, <1>12, <1>13 DEF RingsMatch
<1>15. l_next[order[q][k]] # NULL /\ l_prev[order[q][k]] # NULL
  BY <1>2, <1>3, QueueAssumption DEF x, Nodes
<1> QED BY <1>5, <1>6, <1>7, <1>14, <1>15

\* utqueue_remove: the caller's k-th element leaves, and the counter follows.
LEMMA RemoveStep ==
  ASSUME QInv, NEW q \in Queues, NEW k \in 1..Len(order[q]), utqueue_remove(q, k)
  PROVE  QInv' /\ Fifo!Remove(q, k)
<1>1. /\ QueueTypeOK /\ RingsMatch /\ ~aborted
      /\ \A r \in Queues : tq_size[r] = Len(order[r]) /\ Len(order[r]) \in Nat
  BY LenProperties DEF QInv, AssertionsHold, QueueTypeOK
<1>2. /\ list_remove(order[q][k])
      /\ order' = [order EXCEPT ![q] = Fifo!Without(@, k)]
      /\ tq_size' = [tq_size EXCEPT ![q] = @ - 1]
      /\ result' = result
      /\ Asserts(l_next[order[q][k]] # NULL /\ l_prev[order[q][k]] # NULL)
  BY DEF utqueue_remove
<1>3. /\ RingsMatch'
      /\ l_next' \in [Nodes -> Nodes \cup {NULL}]
      /\ l_prev' \in [Nodes -> Nodes \cup {NULL}]
      /\ order' \in [Queues -> Seq(Uthreads)]
      /\ Len(order'[q]) = Len(order[q]) - 1
      /\ \A r \in Queues : r # q => order'[r] = order[r]
      /\ l_next[order[q][k]] # NULL /\ l_prev[order[q][k]] # NULL
  BY <1>1, <1>2, RemoveRing
<1>4. ~aborted'
  BY <1>1, <1>2, <1>3 DEF Asserts
<1>5. QueueTypeOK'
  <2>1. aborted' \in BOOLEAN
    BY <1>2 DEF Asserts
  <2>2. tq_size' \in [Queues -> Int] /\ result' \in Uthreads \cup {NULL}
    BY <1>1, <1>2 DEF QueueTypeOK
  <2> QED BY <2>1, <2>2, <1>3 DEF QueueTypeOK
<1>6. AssertionsHold'
  BY <1>1, <1>2, <1>3, <1>4 DEF AssertionsHold, QueueTypeOK
<1>7. Fifo!Remove(q, k)
  BY <1>2 DEF Fifo!Remove
<1> QED BY <1>3, <1>5, <1>6, <1>7 DEF QInv

\* utqueue_dequeue: the counter tells an empty ring from one with a first
\* element to unlink.
LEMMA DequeueStep ==
  ASSUME QInv, NEW q \in Queues, utqueue_dequeue(q)
  PROVE  QInv' /\ Fifo!Dequeue(q)
<1>1. /\ QueueTypeOK /\ RingsMatch /\ ~aborted
      /\ \A r \in Queues : tq_size[r] = Len(order[r]) /\ Len(order[r]) \in Nat
      /\ order[q] \in Seq(Uthreads) /\ 0 \in 0..Len(order[q])
  BY LenProperties DEF QInv, AssertionsHold, QueueTypeOK
<1>2. l_prev[q] = At(q, 1) /\ l_next[At(q, 1)] = q
  BY <1>1, RingNodes DEF RingsMatch
<1>3. tq_size[q] = 0 <=> order[q] = <<>>
  BY <1>1, EmptySeq
<1>4. list_empty(q) <=> tq_size[q] = 0
  <2>1. l_next[q] = At(q, Len(order[q])) /\ Len(order[q]) \in 0..Len(order[q])
    BY <1>1, RingNodes DEF RingsMatch
  <2> QED BY <2>1, <1>1, RingNodes DEF list_empty
<1>5. ~aborted' /\ aborted' \in BOOLEAN
  <2>1. aborted' \in BOOLEAN
    BY DEF utqueue_dequeue, Asserts
  <2>2. ~aborted'
    BY <1>1, <1>4 DEF utqueue_dequeue, Asserts
  <2> QED BY <2>1, <2>2
<1>6. CASE tq_size[q] = 0
  <2>1. result' = NULL /\ UNCHANGED <<l_next, l_prev, tq_size, order>>
    BY <1>6 DEF utqueue_dequeue
  <2>2. RingsMatch'
    <3>1. l_next' = l_next /\ l_prev' = l_prev /\ order' = order /\ RingsMatch
      BY <2>1, <1>1
    <3>2. \A r, i : At(r, i)' = At(r, i)
      BY <3>1 DEF At
    <3>3. \A t : Fifo!Queued(t)' <=> Fifo!Queued(t)
      BY <3>1 DEF Fifo!Queued, Fifo!On
    <3> QED BY <3>1, <3>2, <3>3 DEF RingsMatch
  <2>3. result' \in Uthreads \cup {NULL}
    BY <2>1
  <2>4. QueueTypeOK'
    BY <2>1, <2>3, <1>1, <1>5 DEF QueueTypeOK
  <2>5. AssertionsHold'
    BY <2>1, <1>1, <1>5 DEF AssertionsHold
  <2>6. Fifo!Dequeue(q)
    BY <2>1, <1>3, <1>6 DEF Fifo!Dequeue
  <2> QED BY <2>2, <2>4, <2>5, <2>6 DEF QInv
<1>7. CASE tq_size[q] # 0
  <2>1. /\ 1 \in 1..Len(order[q]) /\ Head(order[q]) = order[q][1]
        /\ Tail(order[q]) = Fifo!Without(order[q], 1)
    BY <1>1, <1>3, <1>7, TailIsWithout
  <2>2. l_prev[q] = order[q][1] /\ order[q][1] \in Uthreads
    BY <2>1, <1>1, <1>2, ElementOfSeq DEF At
  <2>3. /\ result' = order[q][1]
        /\ list_remove(order[q][1])
        /\ tq_size' = [tq_size EXCEPT ![q] = @ - 1]
        /\ order' = [order EXCEPT ![q] = Fifo!Without(@, 1)]
        /\ order' = [order EXCEPT ![q] = Tail(@)]
    BY <2>1, <2>2, <1>7 DEF utqueue_dequeue
  <2>4. /\ RingsMatch'
        /\ l_next' \in [Nodes -> Nodes \cup {NULL}]
        /\ l_prev' \in [Nodes -> Nodes \cup {NULL}]
        /\ order' \in [Queues -> Seq(Uthreads)]
        /\ Len(order'[q]) = Len(order[q]) - 1
        /\ \A r \in Queues : r # q => order'[r] = order[r]
    BY <2>1, <2>3, <1>1, RemoveRing
  <2>5. QueueTypeOK'
    <3>1. tq_size' \in [Queues -> Int] /\ result' \in Uthreads \cup {NULL}
      BY <2>2, <2>3, <1>1 DEF QueueTypeOK
    <3> QED BY <3>1, <2>4, <1>5 DEF QueueTypeOK
  <2>6. AssertionsHold'
    BY <2>3, <2>4, <1>1, <1>5 DEF AssertionsHold, QueueTypeOK
  <2>7. Fifo!Dequeue(q)
    BY <2>1, <2>3, <1>3, <1>7 DEF Fifo!Dequeue
  <2> QED BY <2>4, <2>5, <2>6, <2>7 DEF QInv
<1> QED BY <1>6, <1>7

\* An empty queue is set up as it is already.
LEMMA InitAgain ==
  ASSUME QInv, NEW q \in Queues, utqueue_init(q)
  PROVE  UNCHANGED vars
<1>1. /\ QueueTypeOK /\ RingsMatch /\ order[q] = <<>>
      /\ Len(order[q]) = 0 /\ tq_size[q] = 0
  BY EmptySeq DEF QInv, AssertionsHold, utqueue_init
<1>2. At(q, 0) = q /\ At(q, 0 + 1) = q /\ 0 \in 0..Len(order[q])
  BY <1>1 DEF At
<1>3. l_prev[q] = q /\ l_next[q] = q
  BY <1>1, <1>2 DEF RingsMatch
<1>4. /\ l_next' = l_next /\ l_prev' = l_prev /\ tq_size' = tq_size
      /\ result' = result /\ aborted' = aborted /\ order' = order
  BY <1>1, <1>3 DEF utqueue_init, QueueTypeOK, Nodes
<1> QED BY <1>4 DEF vars

-----------------------------------------------------------------------------
(* The results.                                                            *)

\* The initial rings are empty.
LEMMA QInvInit == QueueInit => QInv /\ Fifo!FifoInit
<1> SUFFICES ASSUME QueueInit PROVE QInv /\ Fifo!FifoInit
  OBVIOUS
<1>1. \A q \in Queues : order[q] = <<>> /\ Len(order[q]) = 0
  BY EmptySeq DEF QueueInit
<1>2. QueueTypeOK
  <2>1. aborted \in BOOLEAN
    BY DEF QueueInit
  <2>2. \A q \in Queues : <<>> \in Seq(Uthreads)
    BY EmptySeq
  <2>3. /\ l_next \in [Nodes -> Nodes \cup {NULL}]
        /\ l_prev \in [Nodes -> Nodes \cup {NULL}]
        /\ tq_size \in [Queues -> Int] /\ result \in Uthreads \cup {NULL}
        /\ order \in [Queues -> Seq(Uthreads)]
    BY <2>2 DEF QueueInit
  <2> QED BY <2>1, <2>3 DEF QueueTypeOK
<1>3. RingsMatch
  <2>1. \A q \in Queues, i \in Nat : At(q, i) = q
    BY <1>1 DEF At
  <2>2. \A n \in Nodes : /\ n \in Queues => l_next[n] = n /\ l_prev[n] = n
                         /\ n \notin Queues => l_next[n] = NULL /\ l_prev[n] = NULL
    BY DEF QueueInit
  <2>3. \A q \in Queues : \A i \in 0..Len(order[q]) :
          l_prev[At(q, i)] = At(q, i + 1) /\ l_next[At(q, i + 1)] = At(q, i)
    BY <1>1, <2>1, <2>2 DEF Nodes
  <2>4. \A t \in Uthreads : t \in Nodes /\ t \notin Queues
    BY QueueAssumption DEF Nodes
  <2> QED BY <1>1, <2>2, <2>3, <2>4 DEF RingsMatch
<1>4. AssertionsHold
  BY <1>1 DEF QueueInit, AssertionsHold
<1>5. Fifo!FifoInit
  BY DEF QueueInit, Fifo!FifoInit
<1> QED BY <1>2, <1>3, <1>4, <1>5 DEF QInv

\* Every operation keeps the invariant and is a step of FifoQueues.
LEMMA QInvNext ==
  QInv /\ [QueueNext]_vars => QInv' /\ [Fifo!FifoNext]_<<order, result>>
<1> SUFFICES ASSUME QInv, [QueueNext]_vars
             PROVE  QInv' /\ [Fifo!FifoNext]_<<order, result>>
  OBVIOUS
<1>1. CASE UNCHANGED vars
  BY <1>1 DEF QInv, QueueTypeOK, RingsMatch, AssertionsHold, At, Fifo!Queued,
              Fifo!On, vars
<1>2. ASSUME NEW q \in Queues, utqueue_init(q)
      PROVE  QInv' /\ [Fifo!FifoNext]_<<order, result>>
  BY <1>1, <1>2, InitAgain
<1>3. ASSUME NEW q \in Queues, NEW t \in Uthreads, utqueue_enqueue(q, t)
      PROVE  QInv' /\ [Fifo!FifoNext]_<<order, result>>
  BY <1>3, EnqueueStep DEF Fifo!FifoNext
<1>4. ASSUME NEW q \in Queues, utqueue_dequeue(q)
      PROVE  QInv' /\ [Fifo!FifoNext]_<<order, result>>
  BY <1>4, DequeueStep DEF Fifo!FifoNext
<1>5. ASSUME NEW q \in Queues, NEW k \in 1..Len(order[q]), utqueue_remove(q, k)
      PROVE  QInv' /\ [Fifo!FifoNext]_<<order, result>>
  BY <1>5, RemoveStep DEF Fifo!FifoNext
<1> QED BY <1>1, <1>2, <1>3, <1>4, <1>5 DEF QueueNext

\* The links lead to nodes of the queues or nowhere, and utqueue_dequeue returns
\* a uthread or NULL: by list_remove and list_insert_before alone a link might
\* be followed that is NULL, so that the type needs the shape of the rings.
THEOREM QueueTypeCorrect == QueueSpec => []QueueTypeOK
<1>1. QInv => QueueTypeOK
  BY DEF QInv
<1> QED BY <1>1, QInvInit, QInvNext, PTL DEF QueueSpec

\* Whatever operations follow each other, the links of every queue form one
\* ring in the order of the queue, in both directions.
THEOREM RingsCorrect == QueueSpec => []RingsMatch
<1>1. QInv => RingsMatch
  BY DEF QInv
<1> QED BY <1>1, QInvInit, QInvNext, PTL DEF QueueSpec

\* No assertion of uthread_queue.c ever fails, and the counters are exact.
THEOREM QueueAssertionsHold == QueueSpec => []AssertionsHold
<1>1. QInv => AssertionsHold
  BY DEF QInv
<1> QED BY <1>1, QInvInit, QInvNext, PTL DEF QueueSpec

\* The linked lists implement first-in, first-out sequences.
THEOREM QueueImplementsFifo == QueueSpec => ImplementsFifo
<1> QED BY QInvInit, QInvNext, PTL DEF QueueSpec, ImplementsFifo, Fifo!FifoSpec

=============================================================================
