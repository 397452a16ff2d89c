---------------------------- MODULE ThreadQueues ----------------------------
(***************************************************************************)
(* The containers that hold struct thread: the circular array of fcfs.c,   *)
(* the array of rand.c and the doubly linked lists of queue.c.  They share *)
(* the thread structures: a thread is its own list node, and its in_or_not *)
(* flag is written by fcfs.c and by queue.c (never by rand.c) and asserted *)
(* by queue_push.  A thread enters a queue only when it is in none, which  *)
(* is what thread.c does (QueueDiscipline of module Threads).              *)
(***************************************************************************)
EXTENDS Integers, FiniteSets

CONSTANTS
  Thread,      \* the thread structures
  WaitQueue,   \* the fifo_queue_t objects
  Capacity,    \* THREAD_MAX_THREADS: slots of the array, capacity of a list
  Null

ASSUME QueueAssumption ==
  /\ Capacity \in Nat \ {0}
  /\ IsFiniteSet(Thread) /\ Cardinality(Thread) <= Capacity
  /\ Null \notin Thread \cup {0}

VARIABLES
  policy,                  \* the scheduler scheduler_init found
  slots,                   \* ready_queue of fcfs.c, prio_queue of rand.c
  count, start, end,       \* of fcfs.c; rand.c has only count
  head, tail, size,        \* of each list
  next, prev, in_or_not,   \* of each thread
  created,                 \* the lists that exist
  ret                      \* what the last call returned

arrayVars == <<slots, count, start, end>>
listVars == <<head, tail, size, next, prev, created>>
vars == <<policy, arrayVars, listVars, in_or_not, ret>>

Slot == 0 .. Capacity - 1

Init ==
  /\ policy \in {"fcfs", "rand"}
  /\ slots = [i \in Slot |-> Null]
  /\ count = 0 /\ start = 0 /\ end = 0
  /\ head = [q \in WaitQueue |-> Null] /\ tail = [q \in WaitQueue |-> Null]
  /\ size = [q \in WaitQueue |-> 0]
  /\ next = [t \in Thread |-> Null] /\ prev = [t \in Thread |-> Null]
  /\ in_or_not = [t \in Thread |-> 0]
  /\ created = {} /\ ret = Null

(* Mapping: what the array and the lists hold.                             *)
ArraySeq == [i \in 1 .. count |-> slots[(end + i - 1) % Capacity]]
ArraySet == {slots[i] : i \in 0 .. count - 1}

Chain(first, link) ==
  LET nth[n \in Nat \ {0}] == IF n = 1 THEN first ELSE link[nth[n - 1]]
  IN  nth
Nth(q, n) == Chain(head[q], next)[n]
ListSeq(q) == [n \in 1 .. size[q] |-> Nth(q, n)]

InSomeQueue(t) ==
  \/ t \in IF policy = "fcfs" THEN {ArraySeq[i] : i \in 1 .. count} ELSE ArraySet
  \/ \E q \in WaitQueue : \E n \in 1 .. size[q] : Nth(q, n) = t

-----------------------------------------------------------------------------
(* fcfs.c                                                                  *)

(* Mutant: one index too late.                                             *)
WrappedLate(i) == IF i > Capacity THEN 0 ELSE i

Wrapped(i) == IF i >= Capacity THEN 0 ELSE i

fcfs_enqueue(t) ==
  /\ policy = "fcfs" /\ count < Capacity /\ ~InSomeQueue(t)
  /\ slots' = [slots EXCEPT ![Wrapped(start)] = t]
  /\ start' = Wrapped(start) + 1
  /\ count' = count + 1
  /\ in_or_not' = [in_or_not EXCEPT ![t] = 1]
  /\ ret' = 0
  /\ UNCHANGED <<policy, end, listVars>>

fcfs_dequeue ==
  /\ policy = "fcfs" /\ count > 0
  /\ ret' = slots[Wrapped(end)]
  /\ end' = Wrapped(end) + 1
  /\ count' = count - 1
  /\ in_or_not' = [in_or_not EXCEPT ![slots[Wrapped(end)]] = 0]
  /\ UNCHANGED <<policy, slots, start, listVars>>

(* The slot the search of fcfs_remove looks at after i steps.              *)
Probe(i) == (end + i) % Capacity

(* Mutant: start is taken for the slot of the newest thread.               *)
NewestAtStart == start % Capacity

(* The slot of the newest thread, and the slots once those after a hole    *)
(* have moved down by one.                                                 *)
Newest == IF start - 1 < 0 THEN Capacity - 1 ELSE start - 1
ShiftedDown(hole, last) ==
  [s \in Slot |-> IF (s - hole) % Capacity < (last - hole) % Capacity
                    THEN slots[(s + 1) % Capacity] ELSE slots[s]]

(* fcfs_remove of the thread i steps after the oldest one.  The first test *)
(* compares with end before it is wrapped: with end = Capacity the oldest  *)
(* thread is removed like any other, by shifting the younger ones down.    *)
fcfs_remove_at(i) ==
  IF Probe(i) = end
    THEN /\ end' = IF end >= Capacity - 1 THEN 0 ELSE end + 1
         /\ UNCHANGED <<slots, start>>
    ELSE /\ slots' = ShiftedDown(Probe(i), Newest)
         /\ start' = IF start <= 0 THEN Capacity - 1 ELSE start - 1
         /\ UNCHANGED end

(* Mutant: the flag stays up.                                              *)
fcfs_remove_keeps_flag(t) ==
  /\ policy = "fcfs"
  /\ \E i \in 0 .. count - 1 :
       /\ slots[Probe(i)] = t /\ \A j \in 0 .. i - 1 : slots[Probe(j)] # t
       /\ fcfs_remove_at(i)
  /\ count' = count - 1
  /\ ret' = t
  /\ UNCHANGED <<policy, listVars, in_or_not>>

fcfs_remove(t) ==
  /\ policy = "fcfs"
  /\ \E i \in 0 .. count - 1 :
       /\ slots[Probe(i)] = t /\ \A j \in 0 .. i - 1 : slots[Probe(j)] # t
       /\ fcfs_remove_at(i)
  /\ count' = count - 1
  /\ in_or_not' = [in_or_not EXCEPT ![t] = 0]
  /\ ret' = t
  /\ UNCHANGED <<policy, listVars>>

-----------------------------------------------------------------------------
(* rand.c: the last thread fills the hole.                                 *)

rand_enqueue(t) ==
  /\ policy = "rand" /\ count < Capacity /\ ~InSomeQueue(t)
  /\ slots' = [slots EXCEPT ![count] = t]
  /\ count' = count + 1
  /\ ret' = 0
  /\ UNCHANGED <<policy, start, end, in_or_not, listVars>>

TakeOut(i) ==
  /\ slots' = [slots EXCEPT ![i] = slots[count - 1]]
  /\ count' = count - 1
  /\ ret' = slots[i]
  /\ UNCHANGED <<policy, start, end, in_or_not, listVars>>

rand_dequeue == policy = "rand" /\ \E i \in 0 .. count - 1 : TakeOut(i)
rand_remove(t) ==
  policy = "rand" /\ \E i \in 0 .. count - 1 : slots[i] = t /\ TakeOut(i)

(* fcfs_dequeue and rand_dequeue of an empty array.                        *)
dequeue_nothing ==
  /\ count <= 0
  /\ ret' = Null
  /\ UNCHANGED <<policy, arrayVars, listVars, in_or_not>>

-----------------------------------------------------------------------------
(* queue.c.  A call on an empty list or for a thread not on the list       *)
(* returns NULL and changes nothing.                                       *)

queue_create(q) ==
  /\ q \notin created
  /\ created' = created \cup {q}
  /\ head' = [head EXCEPT ![q] = Null] /\ tail' = [tail EXCEPT ![q] = Null]
  /\ size' = [size EXCEPT ![q] = 0]
  /\ UNCHANGED <<policy, arrayVars, next, prev, in_or_not, ret>>

queue_destroy(q) ==
  /\ q \in created /\ size[q] = 0
  /\ created' = created \ {q}
  /\ UNCHANGED <<policy, arrayVars, head, tail, size, next, prev, in_or_not,
                 ret>>

queue_pop(q) ==
  /\ q \in created /\ size[q] # 0
  /\ LET item == head[q]
         second == next[item]
     IN  /\ head' = [head EXCEPT ![q] = second]
         /\ tail' = IF size[q] = 1 THEN [tail EXCEPT ![q] = Null] ELSE tail
         /\ prev' = [t \in Thread |->
                       IF t = item \/ (size[q] > 1 /\ t = second) THEN Null
                       ELSE prev[t]]
         /\ next' = [next EXCEPT ![item] = Null]
         /\ in_or_not' = [in_or_not EXCEPT ![item] = 0]
         /\ ret' = item
  /\ size' = [size EXCEPT ![q] = @ - 1]
  /\ UNCHANGED <<policy, arrayVars, created>>

queue_push(q, t) ==
  /\ q \in created /\ ~InSomeQueue(t) /\ size[q] # Capacity
  /\ IF size[q] = 0
       THEN /\ head' = [head EXCEPT ![q] = t]
            /\ next' = [next EXCEPT ![t] = Null]
            /\ prev' = [prev EXCEPT ![t] = Null]
       ELSE /\ next' = [next EXCEPT ![tail[q]] = t, ![t] = Null]
            /\ prev' = [prev EXCEPT ![t] = tail[q]]
            /\ UNCHANGED head
  /\ tail' = [tail EXCEPT ![q] = t]
  /\ size' = [size EXCEPT ![q] = @ + 1]
  /\ in_or_not' = [in_or_not EXCEPT ![t] = 1]
  /\ ret' = 0
  /\ UNCHANGED <<policy, arrayVars, created>>

(* Mutant: the successor still points back at the thread taken out.        *)
PrevUnchanged(t) == [prev EXCEPT ![t] = Null]

(* The links of the neighbours of t, and of t, once t is taken out.        *)
PrevWithout(t) ==
  [u \in Thread |-> IF u = t THEN Null ELSE IF u = next[t] THEN prev[t] ELSE prev[u]]
NextWithout(t) ==
  [u \in Thread |-> IF u = t THEN Null ELSE IF u = prev[t] THEN next[t] ELSE next[u]]

queue_remove(q, t) ==
  /\ q \in created
  /\ \E n \in 1 .. size[q] : Nth(q, n) = t
  /\ next' = NextWithout(t) /\ prev' = PrevWithout(t)
  /\ head' = IF prev[t] = Null THEN [head EXCEPT ![q] = next[t]] ELSE head
  /\ tail' = IF next[t] = Null THEN [tail EXCEPT ![q] = prev[t]] ELSE tail
  /\ size' = [size EXCEPT ![q] = @ - 1]
  /\ in_or_not' = [in_or_not EXCEPT ![t] = 0]
  /\ ret' = t
  /\ UNCHANGED <<policy, arrayVars, created>>

-----------------------------------------------------------------------------
Next ==
  \/ fcfs_dequeue \/ rand_dequeue \/ dequeue_nothing
  \/ \E t \in Thread : \/ fcfs_enqueue(t) \/ fcfs_remove(t)
                       \/ rand_enqueue(t) \/ rand_remove(t)
  \/ \E q \in WaitQueue : queue_create(q) \/ queue_destroy(q) \/ queue_pop(q)
  \/ \E q \in WaitQueue, t \in Thread : queue_push(q, t) \/ queue_remove(q, t)

Spec == Init /\ [][Next]_vars

-----------------------------------------------------------------------------
(* Properties.                                                             *)

(* Indices and lengths stay in their ranges; start and end may rest one    *)
(* past the last slot, where fcfs.c leaves them until it uses them.        *)
TypeOK ==
  /\ policy \in {"fcfs", "rand"}
  /\ slots \in [Slot -> Thread \cup {Null}]
  /\ count \in 0 .. Capacity /\ start \in 0 .. Capacity /\ end \in 0 .. Capacity
  /\ head \in [WaitQueue -> Thread \cup {Null}]
  /\ tail \in [WaitQueue -> Thread \cup {Null}]
  /\ size \in [WaitQueue -> 0 .. Capacity]
  /\ next \in [Thread -> Thread \cup {Null}]
  /\ prev \in [Thread -> Thread \cup {Null}]
  /\ in_or_not \in [Thread -> {0, 1}]
  /\ created \subseteq WaitQueue
  /\ ret \in Thread \cup {Null, 0}

(* The assertion of queue_push never fires: a thread that is in no queue   *)
(* has its flag down, whichever container it left last.                    *)
PushNeverAsserts ==
  \A t \in Thread : ~InSomeQueue(t) => in_or_not[t] = 0

(* The links of a list agree: prev mirrors next, the ends are the ends.    *)
ListsWellLinked ==
  \A q \in created : size[q] > 0 =>
    /\ prev[head[q]] = Null /\ Nth(q, size[q]) = tail[q] /\ next[tail[q]] = Null
    /\ \A n \in 2 .. size[q] : prev[Nth(q, n)] = Nth(q, n - 1)

(* Every call is a call of AbstractQueues: the array and the lists hold    *)
(* what the sequences hold and return what they return.                    *)
Abstract == INSTANCE AbstractQueues WITH
  ready <- IF policy = "fcfs" THEN ArraySeq ELSE ArraySet,
  waiters <- [q \in WaitQueue |-> ListSeq(q)]
ImplementsQueues == Abstract!Spec

=============================================================================
