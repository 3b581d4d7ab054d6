---------------------------- MODULE HandoffMutex ----------------------------
(***************************************************************************)
(* What a mutex of the library promises its callers (uthread_mtx.c:34-38   *)
(* and 112-118): it has one owner, callers that find it owned queue up,    *)
(* and unlocking hands it to the first of them, so that nobody who comes   *)
(* later can take it first.                                                *)
(***************************************************************************)
EXTENDS Sequences

CONSTANTS Uthreads, Mutexes, NULL

VARIABLES owner, queue

Lock(t, m) ==
  \/ /\ owner[m] = NULL
     /\ owner' = [owner EXCEPT ![m] = t]
     /\ UNCHANGED queue
  \/ /\ owner[m] # NULL
     /\ queue' = [queue EXCEPT ![m] = Append(@, t)]
     /\ UNCHANGED owner

Unlock(m) ==
  /\ owner[m] # NULL
  /\ \/ /\ queue[m] = <<>>
        /\ owner' = [owner EXCEPT ![m] = NULL]
        /\ UNCHANGED queue
     \/ /\ queue[m] # <<>>
        /\ owner' = [owner EXCEPT ![m] = Head(queue[m])]
        /\ queue' = [queue EXCEPT ![m] = Tail(@)]

HandoffInit ==
  /\ owner = [m \in Mutexes |-> NULL]
  /\ queue = [m \in Mutexes |-> <<>>]

HandoffNext ==
  \E m \in Mutexes : Unlock(m) \/ \E t \in Uthreads : Lock(t, m)

HandoffSpec == HandoffInit /\ [][HandoffNext]_<<owner, queue>>

=============================================================================
