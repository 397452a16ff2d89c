--------------------------- MODULE AbstractQueues ---------------------------
(***************************************************************************)
(* What the ready queue of a scheduler and the wait queues of queue.c      *)
(* promise their callers: sequences, whatever array or list is behind them.*)
(* Under "rand" the ready queue is a set, its order means nothing.         *)
(* ret is what the last call returned.                                     *)
(***************************************************************************)
EXTENDS Integers, Sequences, SequencesExt

CONSTANTS Thread, WaitQueue, Null

VARIABLES policy, ready, waiters, ret

vars == <<policy, ready, waiters, ret>>

Init ==
  /\ policy \in {"fcfs", "rand"}
  /\ ready = IF policy = "fcfs" THEN <<>> ELSE {}
  /\ waiters = [q \in WaitQueue |-> <<>>]
  /\ ret = Null

ReadySet == IF policy = "fcfs" THEN ToSet(ready) ELSE ready
Queued(t) == t \in ReadySet \/ \E q \in WaitQueue : t \in ToSet(waiters[q])

Enqueue(t) ==
  /\ ~Queued(t)
  /\ ready' = IF policy = "fcfs" THEN Append(ready, t) ELSE ready \cup {t}
  /\ ret' = 0
  /\ UNCHANGED <<policy, waiters>>

(* A thread leaves the ready queue: the oldest one, any one, a given one.  *)
Leaves(t) ==
  /\ t \in ReadySet
  /\ ready' = IF policy = "fcfs" THEN RemoveFirst(ready, t) ELSE ready \ {t}
  /\ ret' = t
  /\ UNCHANGED <<policy, waiters>>

Dequeue == \E t \in Thread : Leaves(t) /\ (policy = "fcfs" => t = Head(ready))
RemoveReady(t) == Leaves(t)

Push(q, t) ==
  /\ ~Queued(t)
  /\ waiters' = [waiters EXCEPT ![q] = Append(@, t)]
  /\ ret' = 0
  /\ UNCHANGED <<policy, ready>>

Pop(q) ==
  /\ waiters[q] # <<>>
  /\ waiters' = [waiters EXCEPT ![q] = Tail(@)]
  /\ ret' = Head(waiters[q])
  /\ UNCHANGED <<policy, ready>>

RemoveFrom(q, t) ==
  /\ t \in ToSet(waiters[q])
  /\ waiters' = [waiters EXCEPT ![q] = RemoveFirst(@, t)]
  /\ ret' = t
  /\ UNCHANGED <<policy, ready>>

(* dequeue returns nothing only when nothing is ready.                     *)
DequeueNothing ==
  ReadySet = {} /\ ret' = Null /\ UNCHANGED <<policy, ready, waiters>>

Next ==
  \/ Dequeue \/ DequeueNothing
  \/ \E t \in Thread : Enqueue(t) \/ RemoveReady(t)
  \/ \E q \in WaitQueue, t \in Thread : Push(q, t) \/ RemoveFrom(q, t)
  \/ \E q \in WaitQueue : Pop(q)

Spec == Init /\ [][Next]_vars

=============================================================================
