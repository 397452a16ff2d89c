------------------------- MODULE ThreadQueues_proofs -------------------------
(***************************************************************************)
(* The circular array of fcfs.c, the array of rand.c and the linked lists  *)
(* of queue.c, for any number of threads, lists and slots: the links agree,*)
(* the assertion of queue_push holds, and every call is a call of module   *)
(* AbstractQueues, the sequences thread.c is modelled with.                *)
(***************************************************************************)
EXTENDS ThreadQueues, QueueLemmas

-----------------------------------------------------------------------------
(* Following the links of a list.                                          *)

(* A walk of n steps along link, from first.                               *)
IsWalk(f, first, link, n) ==
  f = [i \in 1 .. n |-> IF i = 1 THEN first ELSE link[f[i - 1]]]

LEMMA WalkExists ==
  ASSUME NEW first, NEW link
  PROVE  \A n \in Nat : \E f : IsWalk(f, first, link, n)
<1> DEFINE T == {n \in Nat : ~ \E f : IsWalk(f, first, link, n)}
<1> SUFFICES ASSUME T # {} PROVE FALSE
  OBVIOUS
<1>1. PICK n \in T : \A m \in T : n <= m
  <2>1. T \in SUBSET Nat
    OBVIOUS
  <2> HIDE DEF T
  <2> QED BY <2>1, LeastNumber
<1>2. n # 0
  <2>1. IsWalk([i \in 1 .. 0 |-> first], first, link, 0)
    BY DEF IsWalk
  <2> QED BY <2>1, <1>1
<1>3. n - 1 \in Nat /\ n - 1 \notin T
  BY <1>1, <1>2
<1>4. PICK f : IsWalk(f, first, link, n - 1)
  BY <1>3
<1> DEFINE g == [i \in 1 .. n |-> IF i = 1 THEN first ELSE link[f[i - 1]]]
<1>5. \A i \in 1 .. n - 1 : g[i] = f[i]
  BY <1>3, <1>4 DEF IsWalk
<1>6. g = [i \in 1 .. n |-> IF i = 1 THEN first ELSE link[g[i - 1]]]
  <2>1. \A i \in 1 .. n : i # 1 => i - 1 \in 1 .. n - 1
    BY <1>1
  <2> QED BY <1>5, <2>1
<1>7. IsWalk(g, first, link, n)
  BY <1>6 DEF IsWalk
<1> QED BY <1>1, <1>7

LEMMA WalksAgree ==
  ASSUME NEW first, NEW link, NEW m \in Nat, NEW n \in Nat, NEW f, NEW g,
         IsWalk(f, first, link, m), IsWalk(g, first, link, n)
  PROVE  \A i \in 1 .. m : i <= n => f[i] = g[i]
<1> DEFINE T == {i \in 1 .. m : i <= n /\ f[i] # g[i]}
<1> SUFFICES ASSUME T # {} PROVE FALSE
  OBVIOUS
<1>1. PICK i \in T : \A j \in T : i <= j
  <2>1. T \in SUBSET Nat
    OBVIOUS
  <2> HIDE DEF T
  <2> QED BY <2>1, LeastNumber
<1>2. /\ f[i] = IF i = 1 THEN first ELSE link[f[i - 1]]
      /\ g[i] = IF i = 1 THEN first ELSE link[g[i - 1]]
  <2>1. i \in 1 .. m /\ i \in 1 .. n
    BY <1>1
  <2> QED BY <2>1 DEF IsWalk
<1>3. i # 1 => i - 1 \notin T /\ i - 1 \in 1 .. m /\ i - 1 <= n
  BY <1>1
<1> QED BY <1>1, <1>2, <1>3

LEMMA ChainLinks ==
  ASSUME NEW first, NEW link
  PROVE  /\ Chain(first, link)[1] = first
         /\ \A n \in Nat \ {0} :
              Chain(first, link)[n + 1] = link[Chain(first, link)[n]]
<1> DEFINE W(n) == CHOOSE f : IsWalk(f, first, link, n)
           c == [n \in Nat \ {0} |-> W(n)[n]]
<1>1. \A n \in Nat : IsWalk(W(n), first, link, n)
  BY WalkExists
<1>2. \A n \in Nat \ {0} : c[n] = IF n = 1 THEN first ELSE link[c[n - 1]]
  <2> SUFFICES ASSUME NEW n \in Nat \ {0}
               PROVE  c[n] = IF n = 1 THEN first ELSE link[c[n - 1]]
    OBVIOUS
  <2>1. W(n)[n] = IF n = 1 THEN first ELSE link[W(n)[n - 1]]
    <3> DEFINE f == W(n)
    <3>1. IsWalk(f, first, link, n)
      BY <1>1
    <3> HIDE DEF f
    <3>2. f[n] = IF n = 1 THEN first ELSE link[f[n - 1]]
      BY <3>1 DEF IsWalk
    <3> QED BY <3>2 DEF f
  <2>2. n # 1 => W(n)[n - 1] = W(n - 1)[n - 1]
    <3> SUFFICES ASSUME n # 1 PROVE W(n)[n - 1] = W(n - 1)[n - 1]
      OBVIOUS
    <3> DEFINE f == W(n - 1)
               g == W(n)
    <3>1. n - 1 \in Nat /\ n - 1 \in 1 .. n - 1 /\ n - 1 <= n
      OBVIOUS
    <3>2. IsWalk(f, first, link, n - 1) /\ IsWalk(g, first, link, n)
      BY <1>1, <3>1
    <3> HIDE DEF f, g
    <3>3. f[n - 1] = g[n - 1]
      BY <3>1, <3>2, WalksAgree
    <3> QED BY <3>3 DEF f, g
  <2>3. n # 1 => n - 1 \in Nat \ {0}
    OBVIOUS
  <2> HIDE DEF W
  <2> QED BY <2>1, <2>2, <2>3
<1>0. c = [n \in Nat \ {0} |-> c[n]]
  OBVIOUS
<1> HIDE DEF c
<1>3. c = [n \in Nat \ {0} |-> IF n = 1 THEN first ELSE link[c[n - 1]]]
  BY <1>0, <1>2
<1> DEFINE d == Chain(first, link)
<1>4. d = [n \in Nat \ {0} |-> IF n = 1 THEN first ELSE link[d[n - 1]]]
  BY <1>3 DEF Chain
<1> HIDE DEF d
<1>5. \A n \in Nat \ {0} : n + 1 \in Nat \ {0} /\ n + 1 # 1 /\ (n + 1) - 1 = n
  OBVIOUS
<1>6. d[1] = first /\ \A n \in Nat \ {0} : d[n + 1] = link[d[n]]
  BY <1>4, <1>5
<1> QED BY <1>6 DEF d

(* A list that follows the links is the chain.                             *)
LEMMA ChainIs ==
  ASSUME NEW first, NEW link, NEW k \in Nat, NEW s,
         k > 0 => s[1] = first,
         \A n \in 1 .. k - 1 : s[n + 1] = link[s[n]]
  PROVE  \A n \in 1 .. k : Chain(first, link)[n] = s[n]
<1> DEFINE c == Chain(first, link)
           T == {n \in 1 .. k : c[n] # s[n]}
<1>1. c[1] = first /\ \A n \in Nat \ {0} : c[n + 1] = link[c[n]]
  BY ChainLinks
<1> HIDE DEF c
<1> SUFFICES ASSUME T # {} PROVE FALSE
  BY DEF c
<1>2. PICK n \in T : \A m \in T : n <= m
  <2>1. T \in SUBSET Nat
    OBVIOUS
  <2> HIDE DEF T
  <2> QED BY <2>1, LeastNumber
<1>3. n # 1
  BY <1>1, <1>2
<1> DEFINE m == n - 1
<1>4. m \in 1 .. k - 1 /\ m \notin T /\ n = m + 1 /\ m \in Nat \ {0}
  BY <1>2, <1>3
<1>5. c[m + 1] = link[c[m]] /\ s[m + 1] = link[s[m]] /\ c[m] = s[m]
  BY <1>1, <1>4
<1> QED BY <1>2, <1>4, <1>5

-----------------------------------------------------------------------------
(* The slots of the circular array.                                        *)

LEMMA Around ==
  ASSUME NEW n \in Nat \ {0}
  PROVE  /\ \A i \in 0 .. n - 1 : i % n = i
         /\ \A i \in n .. 2 * n - 1 : i % n = i - n
         /\ (2 * n) % n = 0
         /\ \A i \in -n .. -1 : i % n = i + n
  OBVIOUS

LEMMA Constants ==
  /\ Capacity \in Nat \ {0} /\ Slot = 0 .. Capacity - 1 /\ IsFiniteSet(Thread)
  /\ Null \notin Thread /\ 0 # Null /\ Cardinality(Thread) <= Capacity
  BY QueueAssumption DEF Slot

(* The slot i steps after e, where e may rest one past the last slot.      *)
At(e, i) == (e + i) % Capacity

LEMMA Slots ==
  ASSUME NEW e \in 0 .. Capacity, NEW i \in 0 .. Capacity
  PROVE  /\ e + i < Capacity => At(e, i) = e + i
         /\ e + i >= Capacity /\ e + i < 2 * Capacity => At(e, i) = e + i - Capacity
         /\ e + i = 2 * Capacity => At(e, i) = 0
         /\ At(e, i) \in 0 .. Capacity - 1
<1> DEFINE n == Capacity
           j == e + i
           k == j % n
<1>1. n \in Nat \ {0} /\ j \in 0 .. 2 * n
  BY Constants
<1>2. /\ j < n => k = j
      /\ j >= n /\ j < 2 * n => k = j - n
      /\ j = 2 * n => k = 0
  <2> HIDE DEF n, j
  <2>1. ASSUME j < n PROVE k = j
    <3>1. j \in 0 .. n - 1
      BY <1>1, <2>1
    <3> QED BY <1>1, <3>1, Around
  <2>2. ASSUME j >= n, j < 2 * n PROVE k = j - n
    <3>1. j \in n .. 2 * n - 1
      BY <1>1, <2>2
    <3> QED BY <1>1, <3>1, Around
  <2>3. ASSUME j = 2 * n PROVE k = 0
    <3>1. (2 * n) % n = 0
      BY <1>1, Around
    <3> QED BY <2>3, <3>1
  <2> QED BY <2>1, <2>2, <2>3
<1>3. At(e, i) = k
  BY DEF At
<1> HIDE DEF k
<1>4. k \in 0 .. n - 1
  BY <1>1, <1>2
<1>5. /\ e + i < Capacity => k = e + i
      /\ e + i >= Capacity /\ e + i < 2 * Capacity => k = e + i - Capacity
      /\ e + i = 2 * Capacity => k = 0
  BY <1>1, <1>2
<1>6. k \in 0 .. Capacity - 1
  BY <1>4
<1> HIDE DEF n, j
<1> QED BY <1>3, <1>5, <1>6

(* A step further, and a step further from the next slot.                  *)
LEMMA NextSlot ==
  ASSUME NEW e \in 0 .. Capacity, NEW i \in 0 .. Capacity - 1
  PROVE  /\ At(e, i + 1) = IF At(e, i) + 1 >= Capacity THEN 0 ELSE At(e, i) + 1
         /\ At(e, 0) + 1 \in 0 .. Capacity /\ At(At(e, 0) + 1, i) = At(e, i + 1)
<1> DEFINE a == At(e, i)
           b == At(e, i + 1)
           z == At(e, 0)
           d == z + 1
           c == At(d, i)
<1>0. i \in 0 .. Capacity /\ i + 1 \in 0 .. Capacity /\ 0 \in 0 .. Capacity
      /\ Capacity \in Nat \ {0}
  BY Constants
<1>1. /\ e + i < Capacity => a = e + i
      /\ e + i >= Capacity /\ e + i < 2 * Capacity => a = e + i - Capacity
      /\ a \in 0 .. Capacity - 1
  BY <1>0, Slots
<1>2. /\ e + (i + 1) < Capacity => b = e + (i + 1)
      /\ e + (i + 1) >= Capacity /\ e + (i + 1) < 2 * Capacity => b = e + (i + 1) - Capacity
      /\ e + (i + 1) = 2 * Capacity => b = 0
      /\ b \in 0 .. Capacity - 1
  BY <1>0, Slots
<1>3. /\ e + 0 < Capacity => z = e + 0
      /\ e + 0 >= Capacity /\ e + 0 < 2 * Capacity => z = e + 0 - Capacity
      /\ z \in 0 .. Capacity - 1
  BY <1>0, Slots
<1>4. d \in 0 .. Capacity
  BY <1>0, <1>3
<1>5. /\ d + i < Capacity => c = d + i
      /\ d + i >= Capacity /\ d + i < 2 * Capacity => c = d + i - Capacity
      /\ d + i = 2 * Capacity => c = 0
      /\ c \in 0 .. Capacity - 1
  <2> HIDE DEF d
  <2> QED BY <1>0, <1>4, Slots
<1> HIDE DEF a, b, c, z
<1>6. b = IF a + 1 >= Capacity THEN 0 ELSE a + 1
  BY <1>0, <1>1, <1>2
<1>7. c = b
  BY <1>0, <1>2, <1>3, <1>5
<1> QED BY <1>4, <1>6, <1>7 DEF a, b, c, z

(* Less than a turn apart, no two of them are the same.                    *)
LEMMA SlotsDiffer ==
  ASSUME NEW e \in 0 .. Capacity, NEW i \in 0 .. Capacity - 1, NEW j \in 0 .. Capacity - 1,
         At(e, i) = At(e, j)
  PROVE  i = j
<1> DEFINE a == At(e, i)
           b == At(e, j)
<1>0. i \in 0 .. Capacity /\ j \in 0 .. Capacity /\ Capacity \in Nat \ {0}
  BY Constants
<1>1. /\ e + i < Capacity => a = e + i
      /\ e + i >= Capacity /\ e + i < 2 * Capacity => a = e + i - Capacity
      /\ a \in 0 .. Capacity - 1
  BY <1>0, Slots
<1>2. /\ e + j < Capacity => b = e + j
      /\ e + j >= Capacity /\ e + j < 2 * Capacity => b = e + j - Capacity
      /\ b \in 0 .. Capacity - 1
  BY <1>0, Slots
<1>3. a = b
  OBVIOUS
<1> HIDE DEF a, b
<1> QED BY <1>0, <1>1, <1>2, <1>3

(* The n-th thread of the ready queue, counted from the oldest one.        *)
Entry(n) == slots[IF policy = "fcfs" THEN At(end, n - 1) ELSE n - 1]

(* The entries are threads, each one once; start is where the next goes.   *)
ArrayOK ==
  /\ policy = "fcfs" => Wrapped(start) = At(end, count)
  /\ \A n \in 1 .. count : Entry(n) \in Thread
  /\ \A n, m \in 1 .. count : Entry(n) = Entry(m) => n = m

(* The links of each list lead through its threads, each one once and in   *)
(* one list, and back.                                                     *)
WellLinked(q) ==
  size[q] > 0 =>
    /\ prev[head[q]] = Null /\ Nth(q, size[q]) = tail[q] /\ next[tail[q]] = Null
    /\ \A n \in 2 .. size[q] : prev[Nth(q, n)] = Nth(q, n - 1)
ListsOK ==
  /\ \A q \in WaitQueue \ created : size[q] = 0
  /\ \A q \in WaitQueue : WellLinked(q) /\ \A n \in 1 .. size[q] : Nth(q, n) \in Thread
  /\ \A q, r \in WaitQueue : \A n \in 1 .. size[q], m \in 1 .. size[r] :
       Nth(q, n) = Nth(r, m) => q = r /\ n = m

(* rand.c writes no flag: its threads have theirs down.                    *)
FlagsOK ==
  /\ PushNeverAsserts
  /\ policy = "rand" => \A n \in 1 .. count : in_or_not[Entry(n)] = 0

QueueInv == TypeOK /\ ArrayOK /\ ListsOK /\ FlagsOK

LEMMA Indices ==
  ASSUME TypeOK
  PROVE  /\ count \in Nat /\ count <= Capacity /\ policy \in {"fcfs", "rand"}
         /\ end \in 0 .. Capacity /\ start \in 0 .. Capacity
         /\ Wrapped(end) = At(end, 0) /\ Wrapped(start) \in Slot
         /\ slots \in [Slot -> Thread \cup {Null}]
<1>1. /\ count \in Nat /\ count <= Capacity /\ policy \in {"fcfs", "rand"}
      /\ end \in 0 .. Capacity /\ start \in 0 .. Capacity
      /\ slots \in [Slot -> Thread \cup {Null}]
  BY Constants DEF TypeOK
<1> DEFINE z == At(end, 0)
<1>2. /\ end + 0 < Capacity => z = end + 0
      /\ end + 0 >= Capacity /\ end + 0 < 2 * Capacity => z = end + 0 - Capacity
      /\ z \in 0 .. Capacity - 1
  BY <1>1, Slots, Constants, SMTT(30)
<1> HIDE DEF z
<1>3. Wrapped(end) = z /\ Wrapped(start) \in Slot
  BY <1>1, <1>2, Constants DEF Wrapped
<1> QED BY <1>1, <1>3 DEF z

LEMMA ArrayIs ==
  ASSUME TypeOK
  PROVE  /\ policy = "fcfs" => ArraySeq = [n \in 1 .. count |-> Entry(n)]
         /\ policy = "rand" => ArraySet = {Entry(n) : n \in 1 .. count}
<1>1. count \in Nat /\ end \in Nat
  BY Indices
<1>2. ASSUME policy = "fcfs" PROVE ArraySeq = [n \in 1 .. count |-> Entry(n)]
  <2>1. \A n \in 1 .. count : end + n - 1 = end + (n - 1)
    BY <1>1
  <2> QED BY <1>2, <2>1 DEF ArraySeq, Entry, At
<1>3. ASSUME policy = "rand" PROVE ArraySet = {Entry(n) : n \in 1 .. count}
  <2>1. \A n \in 1 .. count : Entry(n) = slots[n - 1] /\ n - 1 \in 0 .. count - 1
    BY <1>1, <1>3 DEF Entry
  <2>2. \A i \in 0 .. count - 1 : i + 1 \in 1 .. count /\ Entry(i + 1) = slots[i]
    BY <1>1, <1>3 DEF Entry
  <2> QED BY <2>1, <2>2 DEF ArraySet
<1> QED BY <1>2, <1>3

LEMMA QueuedIs ==
  ASSUME TypeOK, NEW t
  PROVE  InSomeQueue(t) <=>
           \/ \E n \in 1 .. count : Entry(n) = t
           \/ \E q \in WaitQueue : \E n \in 1 .. size[q] : Nth(q, n) = t
  BY Indices, ArrayIs DEF InSomeQueue

-----------------------------------------------------------------------------
(* What the calls of fcfs.c and rand.c do to the entries.                  *)

LEMMA EnqueueEntries ==
  ASSUME TypeOK, ArrayOK, NEW t \in Thread, fcfs_enqueue(t) \/ rand_enqueue(t)
  PROVE  /\ policy' = policy /\ count' = count + 1 /\ count < Capacity
         /\ \A n \in 1 .. count : Entry(n)' = Entry(n)
         /\ Entry(count)' = t
         /\ policy = "fcfs" => Wrapped(start)' = At(end', count')
<1>1. /\ slots \in [Slot -> Thread \cup {Null}] /\ count \in 0 .. Capacity
      /\ Capacity \in Nat \ {0} /\ end \in 0 .. Capacity /\ Slot = 0 .. Capacity - 1
      /\ Wrapped(start) \in Slot /\ (count + 1) - 1 = count
  BY Constants, Indices
<1>2. CASE fcfs_enqueue(t)
  <2>1. /\ policy = "fcfs" /\ policy' = policy /\ count' = count + 1 /\ count < Capacity
        /\ end' = end /\ slots' = [slots EXCEPT ![Wrapped(start)] = t]
        /\ start' = Wrapped(start) + 1
    BY <1>2 DEF fcfs_enqueue
  <2>2. Wrapped(start) = At(end, count)
    BY <2>1 DEF ArrayOK
  <2>3. ASSUME NEW n \in 1 .. count
        PROVE  At(end, n - 1) \in Slot /\ At(end, n - 1) # At(end, count)
    <3>1. n - 1 \in 0 .. Capacity - 1 /\ count \in 0 .. Capacity - 1 /\ n - 1 # count
          /\ n - 1 \in 0 .. Capacity
      BY <1>1, <2>1
    <3> QED BY <1>1, <3>1, Slots, SlotsDiffer
  <2>4. /\ \A n \in 1 .. count : Entry(n)' = slots'[At(end, n - 1)] /\ Entry(n) = slots[At(end, n - 1)]
        /\ Entry(count)' = slots'[At(end, count' - 1)]
    BY <2>1 DEF Entry
  <2>5. slots'[At(end, count)] = t /\ \A n \in 1 .. count : slots'[At(end, n - 1)] = slots[At(end, n - 1)]
    BY <1>1, <2>1, <2>2, <2>3
  <2>6. Wrapped(start)' = At(end', count')
    <3>1. Wrapped(start)' = IF At(end, count) + 1 >= Capacity THEN 0 ELSE At(end, count) + 1
      BY <2>1, <2>2 DEF Wrapped
    <3>2. count \in 0 .. Capacity - 1
      BY <1>1, <2>1
    <3> QED BY <1>1, <2>1, <3>1, <3>2, NextSlot
  <2> QED BY <1>1, <2>1, <2>4, <2>5, <2>6
<1>3. CASE rand_enqueue(t)
  <2>1. /\ policy = "rand" /\ policy' = policy /\ count' = count + 1 /\ count < Capacity
        /\ slots' = [slots EXCEPT ![count] = t]
    BY <1>3 DEF rand_enqueue
  <2> QED BY <1>1, <2>1 DEF Entry
<1> QED BY <1>2, <1>3

(* The p-th entry has left, the younger ones have moved up.                *)
MovedUp(p) ==
  /\ count' = count - 1
  /\ \A n \in 1 .. count - 1 : Entry(n)' = IF n < p THEN Entry(n) ELSE Entry(n + 1)

(* The oldest entry leaves when end goes to the next slot.                 *)
LEMMA OldestLeaves ==
  ASSUME TypeOK, ArrayOK, policy = "fcfs", policy' = policy, count > 0, count' = count - 1,
         slots' = slots, start' = start, end' \in 0 .. Capacity,
         \A i \in 0 .. Capacity - 1 : At(end', i) = At(end, i + 1)
  PROVE  MovedUp(1) /\ Wrapped(start)' = At(end', count')
<1>1. count \in 1 .. Capacity /\ Capacity \in Nat \ {0}
  BY Constants, Indices
<1>2. \A n \in 1 .. count - 1 : Entry(n)' = Entry(n + 1)
  <2> SUFFICES ASSUME NEW n \in 1 .. count - 1 PROVE Entry(n)' = Entry(n + 1)
    OBVIOUS
  <2>1. Entry(n)' = slots[At(end', n - 1)] /\ Entry(n + 1) = slots[At(end, (n + 1) - 1)]
    BY DEF Entry
  <2>2. n - 1 \in 0 .. Capacity - 1 /\ (n - 1) + 1 = (n + 1) - 1
    BY <1>1
  <2> QED BY <2>1, <2>2
<1>3. Wrapped(start)' = At(end', count')
  <2>1. Wrapped(start)' = At(end, count)
    BY DEF ArrayOK, Wrapped
  <2>2. count - 1 \in 0 .. Capacity - 1 /\ (count - 1) + 1 = count
    BY <1>1
  <2> QED BY <2>1, <2>2
<1> QED BY <1>1, <1>2, <1>3 DEF MovedUp

LEMMA DequeueEntries ==
  ASSUME TypeOK, ArrayOK, fcfs_dequeue
  PROVE  /\ policy = "fcfs" /\ policy' = policy /\ 1 \in 1 .. count /\ MovedUp(1)
         /\ ret' = Entry(1) /\ Wrapped(start)' = At(end', count')
         /\ in_or_not' = [in_or_not EXCEPT ![Entry(1)] = 0]
<1>1. /\ count \in Nat /\ end \in 0 .. Capacity /\ Wrapped(end) = At(end, 0)
  BY Indices
<1>2. /\ policy = "fcfs" /\ policy' = policy /\ count' = count - 1 /\ count > 0
      /\ end' = Wrapped(end) + 1 /\ slots' = slots /\ start' = start
      /\ ret' = slots[Wrapped(end)]
      /\ in_or_not' = [in_or_not EXCEPT ![slots[Wrapped(end)]] = 0]
  BY DEF fcfs_dequeue
<1>3. Entry(1) = slots[Wrapped(end)]
  BY <1>1, <1>2 DEF Entry
<1>4. end' \in 0 .. Capacity /\ \A i \in 0 .. Capacity - 1 : At(end', i) = At(end, i + 1)
  <2>1. \A i \in 0 .. Capacity - 1 :
          At(At(end, 0) + 1, i) = At(end, i + 1) /\ At(end, 0) + 1 \in 0 .. Capacity
    BY <1>1, NextSlot
  <2>2. 0 \in 0 .. Capacity - 1
    BY Constants
  <2> QED BY <1>1, <1>2, <2>1, <2>2
<1>5. MovedUp(1) /\ Wrapped(start)' = At(end', count')
  BY <1>2, <1>4, OldestLeaves
<1>6. 1 \in 1 .. count
  BY <1>1, <1>2
<1> QED BY <1>2, <1>3, <1>5, <1>6

(* How far s is from a slot it comes after.                                *)
LEMMA Steps ==
  ASSUME NEW e \in 0 .. Capacity, NEW i \in 0 .. Capacity - 1, NEW j \in 0 .. Capacity - 1
  PROVE  /\ j >= i => (At(e, j) - At(e, i)) % Capacity = j - i
         /\ j < i => (At(e, j) - At(e, i)) % Capacity = j - i + Capacity
<1> DEFINE a == At(e, i)
           b == At(e, j)
           d == b - a
<1>0. i \in 0 .. Capacity /\ j \in 0 .. Capacity /\ Capacity \in Nat \ {0}
  BY Constants
<1>1. /\ e + i < Capacity => a = e + i
      /\ e + i >= Capacity /\ e + i < 2 * Capacity => a = e + i - Capacity
      /\ a \in 0 .. Capacity - 1
  BY <1>0, Slots
<1>2. /\ e + j < Capacity => b = e + j
      /\ e + j >= Capacity /\ e + j < 2 * Capacity => b = e + j - Capacity
      /\ b \in 0 .. Capacity - 1
  BY <1>0, Slots
<1> HIDE DEF a, b
<1>3. d = j - i \/ d = j - i + Capacity \/ d = j - i - Capacity
  BY <1>0, <1>1, <1>2
<1>4. d \in 1 - Capacity .. Capacity - 1
  BY <1>0, <1>1, <1>2
<1> HIDE DEF d
<1>5. d >= 0 => d \in 0 .. Capacity - 1 /\ d % Capacity = d
  <2>1. d >= 0 => d \in 0 .. Capacity - 1
    BY <1>0, <1>4
  <2> QED BY <1>0, <2>1, Around
<1>6. d < 0 => d \in -Capacity .. -1 /\ d % Capacity = d + Capacity
  <2>1. d < 0 => d \in -Capacity .. -1
    BY <1>0, <1>4
  <2> QED BY <1>0, <2>1, Around
<1> DEFINE m == d % Capacity
<1>7. (d >= 0 => m = d) /\ (d < 0 => m = d + Capacity)
  BY <1>5, <1>6
<1> HIDE DEF m
<1>8. (j >= i => m = j - i) /\ (j < i => m = j - i + Capacity)
  BY <1>0, <1>3, <1>4, <1>7
<1> QED BY <1>8 DEF m, d, a, b

(* fcfs_remove closes the hole.                                            *)
LEMMA RemoveEntries ==
  ASSUME TypeOK, ArrayOK, NEW t \in Thread, fcfs_remove(t)
  PROVE  \E p \in 1 .. count :
           /\ policy = "fcfs" /\ policy' = policy /\ MovedUp(p) /\ t = Entry(p) /\ ret' = t
           /\ Wrapped(start)' = At(end', count')
           /\ in_or_not' = [in_or_not EXCEPT ![t] = 0]
<1>1. /\ count \in Nat /\ count <= Capacity /\ end \in 0 .. Capacity /\ start \in 0 .. Capacity
      /\ Capacity \in Nat \ {0} /\ Slot = 0 .. Capacity - 1
      /\ slots \in [Slot -> Thread \cup {Null}]
  BY Indices, Constants
<1>2. /\ policy = "fcfs" /\ policy' = policy /\ count' = count - 1 /\ ret' = t
      /\ in_or_not' = [in_or_not EXCEPT ![t] = 0]
  BY DEF fcfs_remove
<1>3. PICK i \in 0 .. count - 1 : slots[At(end, i)] = t /\ fcfs_remove_at(i)
  BY DEF fcfs_remove, Probe, At
<1>4. i \in 0 .. Capacity - 1 /\ i \in 0 .. Capacity /\ i + 1 \in 1 .. count
      /\ (i + 1) - 1 = i /\ count > 0
  BY <1>1, <1>3
<1>5. t = Entry(i + 1)
  BY <1>2, <1>3, <1>4 DEF Entry
<1>6. CASE At(end, i) = end
  <2>1. slots' = slots /\ start' = start /\ end' = IF end >= Capacity - 1 THEN 0 ELSE end + 1
    BY <1>3, <1>6 DEF fcfs_remove_at, Probe, At
  <2> DEFINE a == At(end, i)
  <2>2. /\ end + i < Capacity => a = end + i
        /\ end + i >= Capacity /\ end + i < 2 * Capacity => a = end + i - Capacity
        /\ a \in 0 .. Capacity - 1
    BY <1>1, <1>4, Slots
  <2>3. a = end
    BY <1>6
  <2> HIDE DEF a
  <2>4. i = 0 /\ end < Capacity /\ end' \in 0 .. Capacity
    BY <1>1, <1>4, <2>1, <2>2, <2>3
  <2>5. ASSUME NEW j \in 0 .. Capacity - 1
        PROVE  At(end', j) = At(end, j + 1)
    <3> DEFINE b == At(end, j + 1)
               c == At(end', j)
    <3>1. j \in 0 .. Capacity /\ j + 1 \in 0 .. Capacity
      BY <1>1
    <3>2. /\ end + (j + 1) < Capacity => b = end + (j + 1)
          /\ end + (j + 1) >= Capacity /\ end + (j + 1) < 2 * Capacity
               => b = end + (j + 1) - Capacity
      BY <1>1, <3>1, Slots
    <3>3. /\ end' + j < Capacity => c = end' + j
          /\ end' + j >= Capacity /\ end' + j < 2 * Capacity => c = end' + j - Capacity
      BY <1>1, <2>4, <3>1, Slots
    <3> HIDE DEF b, c
    <3>4. b = c
      BY <1>1, <2>1, <2>4, <3>1, <3>2, <3>3
    <3> QED BY <3>4 DEF b, c
  <2>6. MovedUp(1) /\ Wrapped(start)' = At(end', count')
    BY <1>2, <1>4, <2>1, <2>4, <2>5, OldestLeaves
  <2> QED BY <1>2, <1>4, <1>5, <2>4, <2>6
<1>7. CASE At(end, i) # end
  <2> DEFINE hole == At(end, i)
  <2>1. /\ slots' = ShiftedDown(hole, Newest) /\ end' = end
        /\ start' = IF start <= 0 THEN Capacity - 1 ELSE start - 1
    BY <1>3, <1>7 DEF fcfs_remove_at, Probe, At
  <2>2. Newest = At(end, count - 1) /\ Wrapped(start)' = At(end, count - 1)
    <3> DEFINE w == Wrapped(start)
               b == At(end, count - 1)
    <3>1. w = At(end, count) /\ w = IF start >= Capacity THEN 0 ELSE start
      BY <1>2 DEF ArrayOK, Wrapped
    <3>2. count - 1 \in 0 .. Capacity - 1 /\ (count - 1) + 1 = count
          /\ count - 1 \in 0 .. Capacity
      BY <1>1, <1>4
    <3>3. w = (IF b + 1 >= Capacity THEN 0 ELSE b + 1) /\ b \in 0 .. Capacity - 1
      <4>1. At(end, (count - 1) + 1) = IF b + 1 >= Capacity THEN 0 ELSE b + 1
        BY <1>1, <3>2, NextSlot
      <4>2. b \in 0 .. Capacity - 1
        BY <1>1, <3>2, Slots
      <4> QED BY <3>1, <3>2, <4>1, <4>2
    <3>4. /\ Newest = IF start - 1 < 0 THEN Capacity - 1 ELSE start - 1
          /\ Wrapped(start)' = IF start' >= Capacity THEN 0 ELSE start'
      BY DEF Newest, Wrapped
    <3> HIDE DEF w, b
    <3>5. Newest = b /\ Wrapped(start)' = b
      BY <1>1, <2>1, <3>1, <3>3, <3>4
    <3> QED BY <3>5 DEF b
  <2>3. ASSUME NEW j \in 0 .. count - 2
        PROVE  slots'[At(end, j)] = slots[At(end, IF j < i THEN j ELSE j + 1)]
    <3> DEFINE s == At(end, j)
               last == At(end, count - 1)
    <3>1. j \in 0 .. Capacity - 1 /\ count - 1 \in 0 .. Capacity - 1 /\ j \in 0 .. Capacity
          /\ count - 1 >= i
      BY <1>1, <1>3, <1>4
    <3>2. s \in Slot /\ (s + 1) % Capacity = At(end, j + 1)
      <4>1. s \in 0 .. Capacity - 1 /\ Slot = 0 .. Capacity - 1
        BY <1>1, <3>1, Slots
      <4>2. At(end, j + 1) = IF s + 1 >= Capacity THEN 0 ELSE s + 1
        BY <1>1, <3>1, NextSlot
      <4> HIDE DEF s
      <4>3. (s + 1) % Capacity = IF s + 1 >= Capacity THEN 0 ELSE s + 1
        <5>1. CASE s + 1 < Capacity
          <6>1. s + 1 \in 0 .. Capacity - 1
            BY <1>1, <4>1, <5>1
          <6>2. (s + 1) % Capacity = s + 1
            BY <1>1, <6>1, Around
          <6> QED BY <1>1, <4>1, <5>1, <6>2
        <5>2. CASE s + 1 = Capacity
          <6>1. Capacity \in Capacity .. 2 * Capacity - 1
            BY <1>1
          <6>2. Capacity % Capacity = Capacity - Capacity
            BY <1>1, <6>1, Around
          <6> QED BY <1>1, <5>2, <6>2
        <5> QED BY <1>1, <4>1, <5>1, <5>2
      <4> QED BY <4>1, <4>2, <4>3
    <3>3. /\ (last - hole) % Capacity = count - 1 - i
          /\ j >= i => (s - hole) % Capacity = j - i
          /\ j < i => (s - hole) % Capacity = j - i + Capacity
      BY <1>1, <1>4, <3>1, Steps
    <3>4. slots'[s] = IF (s - hole) % Capacity < (last - hole) % Capacity
                        THEN slots[(s + 1) % Capacity] ELSE slots[s]
      BY <2>1, <2>2, <3>2 DEF ShiftedDown
    <3> DEFINE x == (s - hole) % Capacity
               y == (last - hole) % Capacity
    <3>5. x < y <=> j >= i
      <4>1. y = count - 1 - i /\ (j >= i => x = j - i) /\ (j < i => x = j - i + Capacity)
        BY <3>3
      <4> HIDE DEF x, y
      <4> QED BY <1>1, <1>4, <3>1, <4>1
    <3> HIDE DEF x, y
    <3>6. slots'[s] = IF j >= i THEN slots[At(end, j + 1)] ELSE slots[s]
      BY <3>2, <3>4, <3>5 DEF x, y
    <3>7. j < i <=> ~(j >= i)
      BY <1>4, <3>1
    <3> QED BY <3>6, <3>7
  <2>4. ASSUME NEW n \in 1 .. count - 1
        PROVE  Entry(n)' = IF n < i + 1 THEN Entry(n) ELSE Entry(n + 1)
    <3>1. n - 1 \in 0 .. count - 2 /\ (n < i + 1 <=> n - 1 < i) /\ (n + 1) - 1 = (n - 1) + 1
      BY <1>1, <1>4
    <3>2. /\ Entry(n)' = slots'[At(end, n - 1)] /\ Entry(n) = slots[At(end, n - 1)]
          /\ Entry(n + 1) = slots[At(end, (n + 1) - 1)]
      BY <1>2, <2>1 DEF Entry
    <3>3. slots'[At(end, n - 1)] = slots[At(end, IF n - 1 < i THEN n - 1 ELSE (n - 1) + 1)]
      BY <2>3, <3>1
    <3> QED BY <3>1, <3>2, <3>3
  <2>5. MovedUp(i + 1)
    BY <1>2, <2>4 DEF MovedUp
  <2> QED BY <1>2, <1>4, <1>5, <2>1, <2>2, <2>5
<1> QED BY <1>6, <1>7

LEMMA QueuedIsNext ==
  (TypeOK => \A t : InSomeQueue(t) <=>
           \/ \E n \in 1 .. count : Entry(n) = t
           \/ \E q \in WaitQueue : \E n \in 1 .. size[q] : Nth(q, n) = t)'
<1>1. TypeOK => \A t : InSomeQueue(t) <=>
           \/ \E n \in 1 .. count : Entry(n) = t
           \/ \E q \in WaitQueue : \E n \in 1 .. size[q] : Nth(q, n) = t
  BY QueuedIs
<1> QED BY <1>1, PTL

(* rand.c: the last entry has taken the place of the p-th.                 *)
LEMMA TakenOut ==
  ASSUME TypeOK, policy = "rand", NEW i \in 0 .. count - 1, TakeOut(i)
  PROVE  \E p \in 1 .. count :
           /\ policy' = policy /\ count' = count - 1 /\ ret' = Entry(p) /\ ret' = slots[i]
           /\ in_or_not' = in_or_not
           /\ \A n \in 1 .. count - 1 : Entry(n)' = Entry(IF n = p THEN count ELSE n)
<1>1. /\ count \in Nat /\ count <= Capacity /\ Slot = 0 .. Capacity - 1
      /\ Capacity \in Nat \ {0} /\ slots \in [Slot -> Thread \cup {Null}]
  BY Indices, Constants
<1>2. /\ policy' = policy /\ count' = count - 1 /\ ret' = slots[i] /\ in_or_not' = in_or_not
      /\ slots' = [slots EXCEPT ![i] = slots[count - 1]]
  BY DEF TakeOut
<1>3. /\ \A n \in 1 .. count : Entry(n) = slots[n - 1]
      /\ \A n \in 1 .. count - 1 : Entry(n)' = slots'[n - 1]
  BY <1>2 DEF Entry
<1>4. i + 1 \in 1 .. count /\ (i + 1) - 1 = i /\ i \in Slot /\ count \in 1 .. count
  BY <1>1
<1>5. \A n \in 1 .. count - 1 : n \in 1 .. count /\ n - 1 \in Slot /\ (n - 1 = i <=> n = i + 1)
  BY <1>1
<1>6. \A n \in 1 .. count - 1 : Entry(n)' = Entry(IF n = i + 1 THEN count ELSE n)
  BY <1>1, <1>2, <1>3, <1>4, <1>5
<1> QED BY <1>2, <1>3, <1>4, <1>6

-----------------------------------------------------------------------------
(* The invariant.                                                          *)

LEMMA QueueInit == Init => QueueInv
<1> SUFFICES ASSUME Init PROVE QueueInv
  OBVIOUS
<1>1. TypeOK
  BY Constants DEF Init, TypeOK
<1>2. ArrayOK
  <2>1. count = 0 /\ start = 0 /\ end = 0 /\ 0 \in 0 .. Capacity /\ 0 + 0 < Capacity
    BY Constants DEF Init
  <2>2. At(0, 0) = 0 /\ Wrapped(0) = 0
    BY <2>1, Constants, Slots DEF Wrapped
  <2> QED BY <2>1, <2>2 DEF ArrayOK
<1>3. ListsOK
  BY DEF Init, ListsOK, WellLinked
<1>4. FlagsOK
  BY DEF Init, FlagsOK, PushNeverAsserts
<1> QED BY <1>1, <1>2, <1>3, <1>4 DEF QueueInv

(* The calls of the schedulers, and of the lists.                          *)
ArrayCall ==
  \/ fcfs_dequeue \/ rand_dequeue \/ dequeue_nothing
  \/ \E t \in Thread : \/ fcfs_enqueue(t) \/ fcfs_remove(t)
                       \/ rand_enqueue(t) \/ rand_remove(t)
ListCall ==
  \/ \E q \in WaitQueue : queue_create(q) \/ queue_destroy(q) \/ queue_pop(q)
  \/ \E q \in WaitQueue, t \in Thread : queue_push(q, t) \/ queue_remove(q, t)

LEMMA ArrayCallKeeps ==
  ASSUME ArrayCall
  PROVE  /\ policy' = policy /\ UNCHANGED listVars
         /\ \A q \in WaitQueue : \A n : Nth(q, n)' = Nth(q, n)
<1>1. policy' = policy /\ UNCHANGED listVars
  BY DEF ArrayCall, fcfs_dequeue, rand_dequeue, dequeue_nothing, fcfs_enqueue, fcfs_remove,
         rand_enqueue, rand_remove, TakeOut
<1>2. \A q \in WaitQueue : \A n : Nth(q, n)' = Nth(q, n)
  BY <1>1 DEF listVars, Nth
<1> QED BY <1>1, <1>2

LEMMA ListCallKeeps ==
  ASSUME ListCall
  PROVE  /\ policy' = policy /\ UNCHANGED arrayVars
         /\ Wrapped(start)' = Wrapped(start) /\ \A n : Entry(n)' = Entry(n)
<1>1. policy' = policy /\ UNCHANGED arrayVars
  BY DEF ListCall, queue_create, queue_destroy, queue_pop, queue_push, queue_remove
<1>2. Wrapped(start)' = Wrapped(start) /\ \A n : Entry(n)' = Entry(n)
  BY <1>1 DEF arrayVars, Wrapped, Entry
<1> QED BY <1>1, <1>2

LEMMA TypeArray ==
  ASSUME TypeOK, ArrayOK, ArrayCall
  PROVE  TypeOK'
<1>1. /\ count \in 0 .. Capacity /\ end \in 0 .. Capacity /\ start \in 0 .. Capacity
      /\ Capacity \in Nat \ {0} /\ Slot = 0 .. Capacity - 1
      /\ slots \in [Slot -> Thread \cup {Null}] /\ in_or_not \in [Thread -> {0, 1}]
      /\ Wrapped(start) \in 0 .. Capacity - 1 /\ Wrapped(end) \in 0 .. Capacity - 1
      /\ policy \in {"fcfs", "rand"} /\ ret \in Thread \cup {Null, 0}
  <2>1. 0 \in 0 .. Capacity
    BY Constants
  <2>2. At(end, 0) \in 0 .. Capacity - 1
    BY <2>1, Indices, Slots
  <2> QED BY <2>1, <2>2, Indices, Constants DEF TypeOK
<1> SUFFICES /\ slots' \in [Slot -> Thread \cup {Null}] /\ in_or_not' \in [Thread -> {0, 1}]
             /\ count' \in 0 .. Capacity /\ end' \in 0 .. Capacity /\ start' \in 0 .. Capacity
             /\ ret' \in Thread \cup {Null, 0}
  BY ArrayCallKeeps DEF TypeOK, listVars
<1>2. \A i \in 0 .. count - 1 : At(end, i) \in Slot /\ i \in Slot
  <2>1. \A i \in 0 .. count - 1 : i \in 0 .. Capacity /\ i \in Slot
    BY <1>1
  <2> QED BY <1>1, <2>1, Slots
<1>3. CASE fcfs_dequeue
  <2>1. /\ slots' = slots /\ start' = start /\ end' = Wrapped(end) + 1
        /\ count' = count - 1 /\ count > 0 /\ ret' = slots[Wrapped(end)]
        /\ in_or_not' = [in_or_not EXCEPT ![slots[Wrapped(end)]] = 0]
    BY <1>3 DEF fcfs_dequeue
  <2>2. count' \in 0 .. Capacity /\ end' \in 0 .. Capacity /\ start' \in 0 .. Capacity
    BY <1>1, <2>1
  <2>3. in_or_not' \in [Thread -> {0, 1}]
    BY <1>1, <2>1
  <2>4. ret' \in Thread \cup {Null, 0} /\ slots' \in [Slot -> Thread \cup {Null}]
    BY <1>1, <2>1
  <2> QED BY <2>2, <2>3, <2>4
<1>4. CASE dequeue_nothing
  BY <1>1, <1>4 DEF dequeue_nothing, arrayVars
<1>5. CASE \E t \in Thread : fcfs_enqueue(t)
  <2>1. PICK t \in Thread : fcfs_enqueue(t)
    BY <1>5
  <2>2. /\ slots' = [slots EXCEPT ![Wrapped(start)] = t] /\ in_or_not' = [in_or_not EXCEPT ![t] = 1]
        /\ start' = Wrapped(start) + 1 /\ count' = count + 1 /\ count < Capacity /\ end' = end
        /\ ret' = 0
    BY <2>1 DEF fcfs_enqueue
  <2> QED BY <1>1, <2>2
<1>6. CASE \E t \in Thread : rand_enqueue(t)
  BY <1>1, <1>6 DEF rand_enqueue
<1>7. CASE \E t \in Thread : fcfs_remove(t)
  <2>1. PICK t \in Thread : fcfs_remove(t)
    BY <1>7
  <2>2. /\ count' = count - 1 /\ count > 0 /\ ret' = t
        /\ in_or_not' = [in_or_not EXCEPT ![t] = 0] /\ \E i \in 0 .. count - 1 : fcfs_remove_at(i)
    BY <1>1, <2>1 DEF fcfs_remove
  <2>4. PICK i \in 0 .. count - 1 : fcfs_remove_at(i)
    BY <2>2
  <2>5. end' \in 0 .. Capacity /\ start' \in 0 .. Capacity
    BY <1>1, <2>4 DEF fcfs_remove_at
  <2>6. slots' \in [Slot -> Thread \cup {Null}]
    <3>1. \A s \in Slot : (s + 1) % Capacity \in Slot
      <4> SUFFICES ASSUME NEW s \in Slot PROVE (s + 1) % Capacity \in Slot
        OBVIOUS
      <4>1. s \in 0 .. Capacity /\ 1 \in 0 .. Capacity
        BY <1>1
      <4> QED BY <1>1, <4>1, Slots DEF At
    <3>2. \A h, l : ShiftedDown(h, l) \in [Slot -> Thread \cup {Null}]
      BY <1>1, <3>1 DEF ShiftedDown
    <3> QED BY <1>1, <2>4, <3>2 DEF fcfs_remove_at
  <2> QED BY <1>1, <2>2, <2>5, <2>6
<1>8. CASE \E i \in 0 .. count - 1 : TakeOut(i)
  <2>1. PICK i \in 0 .. count - 1 : TakeOut(i)
    BY <1>8
  <2>2. count - 1 \in Slot /\ count - 1 \in 0 .. Capacity
    BY <1>1
  <2> QED BY <1>1, <1>2, <2>1, <2>2 DEF TakeOut
<1>9. rand_dequeue \/ (\E t \in Thread : rand_remove(t)) => \E i \in 0 .. count - 1 : TakeOut(i)
  BY DEF rand_dequeue, rand_remove
<1> QED BY <1>3, <1>4, <1>5, <1>6, <1>7, <1>8, <1>9 DEF ArrayCall

(* A call of a scheduler leaves the entries alone, adds a thread that is   *)
(* queued nowhere, takes one out and lets the younger ones move up, or     *)
(* takes one out and lets the last one take its place.                     *)
Added(t) ==
  /\ ~InSomeQueue(t) /\ count < Capacity /\ count' = count + 1 /\ ret' = 0
  /\ \A n \in 1 .. count : Entry(n)' = Entry(n)
  /\ \A n : n = count' => Entry(n)' = t
  /\ in_or_not' = IF policy = "fcfs" THEN [in_or_not EXCEPT ![t] = 1] ELSE in_or_not
Left(p) ==
  /\ policy = "fcfs" /\ MovedUp(p) /\ ret' = Entry(p)
  /\ in_or_not' = [in_or_not EXCEPT ![Entry(p)] = 0]
Replaced(p) ==
  /\ policy = "rand" /\ count' = count - 1 /\ ret' = Entry(p) /\ in_or_not' = in_or_not
  /\ \A n \in 1 .. count - 1 : Entry(n)' = Entry(IF n = p THEN count ELSE n)
Unmoved ==
  /\ count' = count /\ in_or_not' = in_or_not
  /\ \A n \in 1 .. count : Entry(n)' = Entry(n)

LEMMA ArrayEffects ==
  ASSUME TypeOK, ArrayOK, ArrayCall
  PROVE  /\ policy = "fcfs" => Wrapped(start)' = At(end', count')
         /\ \/ dequeue_nothing /\ Unmoved
            \/ \E t \in Thread : (fcfs_enqueue(t) \/ rand_enqueue(t)) /\ Added(t)
            \/ \E p \in 1 .. count : Left(p)
            \/ \E p \in 1 .. count : Replaced(p)
<1>1. ASSUME dequeue_nothing
      PROVE  Unmoved /\ (policy = "fcfs" => Wrapped(start)' = At(end', count'))
  BY <1>1 DEF dequeue_nothing, Unmoved, arrayVars, Entry, ArrayOK, Wrapped
<1>2. ASSUME NEW t \in Thread, fcfs_enqueue(t) \/ rand_enqueue(t)
      PROVE  Added(t) /\ (policy = "fcfs" => Wrapped(start)' = At(end', count'))
  <2>1. /\ policy' = policy /\ count' = count + 1 /\ count < Capacity
        /\ \A n \in 1 .. count : Entry(n)' = Entry(n)
        /\ Entry(count)' = t
        /\ policy = "fcfs" => Wrapped(start)' = At(end', count')
    BY <1>2, EnqueueEntries
  <2>2. \A n : n = count' => Entry(n)' = t
    BY <2>1 DEF Entry
  <2>3. /\ ~InSomeQueue(t) /\ ret' = 0
        /\ in_or_not' = IF policy = "fcfs" THEN [in_or_not EXCEPT ![t] = 1] ELSE in_or_not
    BY <1>2 DEF fcfs_enqueue, rand_enqueue
  <2> QED BY <2>1, <2>2, <2>3 DEF Added
<1>3. ASSUME fcfs_dequeue
      PROVE  /\ \E p \in 1 .. count : Left(p)
             /\ policy = "fcfs" => Wrapped(start)' = At(end', count')
  BY <1>3, DequeueEntries DEF Left
<1>4. ASSUME NEW t \in Thread, fcfs_remove(t)
      PROVE  /\ \E p \in 1 .. count : Left(p)
             /\ policy = "fcfs" => Wrapped(start)' = At(end', count')
  BY <1>4, RemoveEntries DEF Left
<1>5. ASSUME rand_dequeue \/ \E t \in Thread : rand_remove(t)
      PROVE  policy = "rand" /\ \E p \in 1 .. count : Replaced(p)
  <2>1. policy = "rand"
    BY <1>5 DEF rand_dequeue, rand_remove
  <2>2. PICK i \in 0 .. count - 1 : TakeOut(i)
    BY <1>5 DEF rand_dequeue, rand_remove
  <2> QED BY <2>1, <2>2, TakenOut DEF Replaced
<1> QED BY <1>1, <1>2, <1>3, <1>4, <1>5 DEF ArrayCall

LEMMA ArrayOKArray ==
  ASSUME TypeOK, ArrayOK, ArrayCall
  PROVE  ArrayOK'
<1>1. policy' = policy /\ count \in Nat /\ count <= Capacity
  BY ArrayCallKeeps, Indices
<1>2. /\ \A n \in 1 .. count : Entry(n) \in Thread
      /\ \A n, m \in 1 .. count : Entry(n) = Entry(m) => n = m
  BY DEF ArrayOK
<1> SUFFICES /\ \A n \in 1 .. count' : Entry(n)' \in Thread
             /\ \A n, m \in 1 .. count' : Entry(n)' = Entry(m)' => n = m
  BY <1>1, ArrayEffects DEF ArrayOK
<1>3. CASE Unmoved
  BY <1>2, <1>3 DEF Unmoved
<1>4. CASE \E t \in Thread : Added(t)
  <2>1. PICK t \in Thread : Added(t)
    BY <1>4
  <2>2. \A n \in 1 .. count : Entry(n) # t
    BY <2>1, QueuedIs DEF Added
  <2>3. \A n \in 1 .. count' : n \in 1 .. count \/ n = count'
    BY <1>1, <2>1 DEF Added
  <2> QED BY <1>1, <1>2, <2>1, <2>2, <2>3 DEF Added
<1>5. CASE \E p \in 1 .. count : Left(p)
  <2>1. PICK p \in 1 .. count : MovedUp(p)
    BY <1>5 DEF Left
  <2> DEFINE old(n) == IF n < p THEN n ELSE n + 1
  <2>2. \A n \in 1 .. count' : old(n) \in 1 .. count /\ Entry(n)' = Entry(old(n))
    BY <1>1, <2>1 DEF MovedUp
  <2>3. \A n, m \in 1 .. count' : old(n) = old(m) => n = m
    BY <1>1, <2>1 DEF MovedUp
  <2> HIDE DEF old
  <2> QED BY <1>2, <2>2, <2>3
<1>6. CASE \E p \in 1 .. count : Replaced(p)
  <2>1. PICK p \in 1 .. count : Replaced(p)
    BY <1>6
  <2> DEFINE old(n) == IF n = p THEN count ELSE n
  <2>2. \A n \in 1 .. count' : old(n) \in 1 .. count /\ Entry(n)' = Entry(old(n))
    BY <1>1, <2>1 DEF Replaced
  <2>3. \A n, m \in 1 .. count' : old(n) = old(m) => n = m
    BY <1>1, <2>1 DEF Replaced
  <2> HIDE DEF old
  <2> QED BY <1>2, <2>2, <2>3
<1> QED BY <1>3, <1>4, <1>5, <1>6, ArrayEffects

LEMMA FlagsOKArray ==
  ASSUME TypeOK, ArrayOK, FlagsOK, ArrayCall
  PROVE  FlagsOK'
<1>1. /\ policy' = policy /\ count \in Nat /\ in_or_not \in [Thread -> {0, 1}]
      /\ policy \in {"fcfs", "rand"}
  BY ArrayCallKeeps, Indices DEF TypeOK
<1> DEFINE elsewhere(u) == \E q \in WaitQueue : \E n \in 1 .. size[q] : Nth(q, n) = u
<1>2. \A u : InSomeQueue(u) <=> (\E n \in 1 .. count : Entry(n) = u) \/ elsewhere(u)
  BY QueuedIs
<1>3. \A u : InSomeQueue(u)' <=> (\E n \in 1 .. count' : Entry(n)' = u) \/ elsewhere(u)
  <2>1. TypeOK'
    BY TypeArray
  <2>2. \A q \in WaitQueue : size'[q] = size[q] /\ \A n : Nth(q, n)' = Nth(q, n)
    BY ArrayCallKeeps DEF listVars
  <2> QED BY <2>1, <2>2, QueuedIsNext
<1> HIDE DEF elsewhere
<1>4. /\ \A u \in Thread : ~InSomeQueue(u) => in_or_not[u] = 0
      /\ policy = "rand" => \A n \in 1 .. count : in_or_not[Entry(n)] = 0
  BY DEF FlagsOK, PushNeverAsserts
<1> SUFFICES /\ \A u \in Thread : ~InSomeQueue(u)' => in_or_not'[u] = 0
             /\ policy = "rand" => \A n \in 1 .. count' : in_or_not'[Entry(n)'] = 0
  BY <1>1 DEF FlagsOK, PushNeverAsserts
<1>5. CASE Unmoved
  BY <1>2, <1>3, <1>4, <1>5 DEF Unmoved
<1>6. CASE \E t \in Thread : Added(t)
  <2>1. PICK t \in Thread : Added(t)
    BY <1>6
  <2>2. \A n \in 1 .. count' : n \in 1 .. count \/ n = count'
    BY <1>1, <2>1 DEF Added
  <2>3. count' \in 1 .. count' /\ \A n \in 1 .. count : n \in 1 .. count'
    BY <1>1, <2>1 DEF Added
  <2>4. \A u \in Thread : ~InSomeQueue(u)' => u # t /\ ~InSomeQueue(u)
    BY <1>2, <1>3, <2>1, <2>3 DEF Added
  <2>5. \A u \in Thread : u # t => in_or_not'[u] = in_or_not[u]
    BY <1>1, <2>1 DEF Added
  <2>6. ASSUME policy = "rand" PROVE \A n \in 1 .. count' : in_or_not'[Entry(n)'] = 0
    <3>1. in_or_not' = in_or_not /\ in_or_not[t] = 0
      BY <1>4, <2>1, <2>6 DEF Added
    <3> QED BY <1>4, <2>1, <2>2, <2>6, <3>1 DEF Added
  <2> QED BY <1>4, <2>4, <2>5, <2>6
<1>7. CASE \E p \in 1 .. count : Left(p)
  <2>1. PICK p \in 1 .. count : Left(p)
    BY <1>7
  <2>2. \A n \in 1 .. count : n # p => \E m \in 1 .. count' : Entry(m)' = Entry(n)
    <3> SUFFICES ASSUME NEW n \in 1 .. count, n # p
                 PROVE  \E m \in 1 .. count' : Entry(m)' = Entry(n)
      OBVIOUS
    <3>1. n < p => n \in 1 .. count' /\ Entry(n)' = Entry(n)
      BY <1>1, <2>1 DEF Left, MovedUp
    <3>2. n > p => n - 1 \in 1 .. count' /\ Entry(n - 1)' = Entry(n)
      <4> SUFFICES ASSUME n > p PROVE n - 1 \in 1 .. count' /\ Entry(n - 1)' = Entry(n)
        OBVIOUS
      <4>1. n - 1 \in 1 .. count - 1 /\ count' = count - 1 /\ ~(n - 1 < p) /\ (n - 1) + 1 = n
        BY <1>1, <2>1 DEF Left, MovedUp
      <4> QED BY <2>1, <4>1 DEF Left, MovedUp
    <3> QED BY <1>1, <3>1, <3>2
  <2>3. \A u \in Thread : ~InSomeQueue(u)' => u = Entry(p) \/ ~InSomeQueue(u)
    BY <1>2, <1>3, <2>2
  <2>4. policy = "fcfs" /\ in_or_not' = [in_or_not EXCEPT ![Entry(p)] = 0]
    BY <2>1 DEF Left
  <2> QED BY <1>1, <1>4, <2>3, <2>4
<1>8. CASE \E p \in 1 .. count : Replaced(p)
  <2>1. PICK p \in 1 .. count : Replaced(p)
    BY <1>8
  <2>2. \A n \in 1 .. count : n # p => \E m \in 1 .. count' : Entry(m)' = Entry(n)
    <3> SUFFICES ASSUME NEW n \in 1 .. count, n # p
                 PROVE  \E m \in 1 .. count' : Entry(m)' = Entry(n)
      OBVIOUS
    <3>1. n # count => n \in 1 .. count' /\ Entry(n)' = Entry(n)
      BY <1>1, <2>1 DEF Replaced
    <3>2. n = count => p \in 1 .. count' /\ Entry(p)' = Entry(n)
      BY <1>1, <2>1 DEF Replaced
    <3> QED BY <3>1, <3>2
  <2>3. \A u \in Thread : ~InSomeQueue(u)' => u = Entry(p) \/ ~InSomeQueue(u)
    BY <1>2, <1>3, <2>2
  <2>4. policy = "rand" /\ in_or_not' = in_or_not /\ in_or_not[Entry(p)] = 0
    BY <1>4, <2>1 DEF Replaced
  <2>5. \A n \in 1 .. count' : in_or_not'[Entry(n)'] = 0
    <3>1. \A n \in 1 .. count' : \E m \in 1 .. count : Entry(n)' = Entry(m)
      BY <1>1, <2>1 DEF Replaced
    <3> QED BY <1>4, <2>4, <3>1
  <2> QED BY <1>4, <2>3, <2>4, <2>5
<1> QED BY <1>5, <1>6, <1>7, <1>8, ArrayEffects

-----------------------------------------------------------------------------
(* What the calls of queue.c do to the lists.                              *)

LEMMA Links ==
  ASSUME TypeOK, NEW q \in WaitQueue
  PROVE  /\ Nth(q, 1) = head[q] /\ size[q] \in Nat /\ size[q] <= Capacity
         /\ \A n \in Nat \ {0} : Nth(q, n + 1) = next[Nth(q, n)]
<1>1. size[q] \in Nat /\ size[q] <= Capacity
  BY Constants DEF TypeOK
<1> QED BY <1>1, ChainLinks DEF Nth

(* To find a list after a call, follow its new links.                      *)
LEMMA NewList ==
  ASSUME NEW q \in WaitQueue, NEW k \in Nat, NEW s,
         k > 0 => s[1] = head'[q],
         \A n \in 1 .. k - 1 : s[n + 1] = next'[s[n]]
  PROVE  \A n \in 1 .. k : Nth(q, n)' = s[n]
  BY ChainIs DEF Nth

SameThreads(r) ==
  /\ size'[r] = size[r]
  /\ \A n \in 1 .. size[r] : Nth(r, n)' = Nth(r, n)

(* A call that writes no link of a list's threads leaves the list alone.   *)
LEMMA ListKept ==
  ASSUME TypeOK, ListsOK, NEW r \in WaitQueue,
         head'[r] = head[r], tail'[r] = tail[r], size'[r] = size[r],
         \A n \in 1 .. size[r] : /\ next'[Nth(r, n)] = next[Nth(r, n)]
                                 /\ prev'[Nth(r, n)] = prev[Nth(r, n)]
  PROVE  SameThreads(r) /\ WellLinked(r)'
<1>1. /\ Nth(r, 1) = head[r] /\ size[r] \in Nat
      /\ \A n \in Nat \ {0} : Nth(r, n + 1) = next[Nth(r, n)]
  BY Links
<1>3. \A n \in 1 .. size[r] : Nth(r, n)' = Nth(r, n)
  <2> DEFINE s == [n \in 1 .. size[r] |-> Nth(r, n)]
  <2>1. /\ size[r] > 0 => s[1] = head'[r]
        /\ \A n \in 1 .. size[r] - 1 : s[n + 1] = next'[s[n]]
    <3>1. \A n \in 1 .. size[r] - 1 :
            n \in Nat \ {0} /\ n \in 1 .. size[r] /\ n + 1 \in 1 .. size[r]
      BY <1>1
    <3>2. size[r] > 0 => 1 \in 1 .. size[r]
      BY <1>1
    <3> QED BY <1>1, <3>1, <3>2
  <2>2. \A n \in 1 .. size[r] : s[n] = Nth(r, n)
    OBVIOUS
  <2> HIDE DEF s
  <2> QED BY <1>1, <2>1, <2>2, NewList
<1>4. SameThreads(r)
  BY <1>3 DEF SameThreads
<1>5. ASSUME size[r] > 0
      PROVE  /\ prev'[head'[r]] = Null /\ next'[tail'[r]] = Null
             /\ \A n : n = size'[r] => Nth(r, n)' = tail'[r]
             /\ \A n \in 2 .. size[r] : prev'[Nth(r, n)'] = Nth(r, n - 1)'
  <2>1. /\ prev[head[r]] = Null /\ Nth(r, size[r]) = tail[r] /\ next[tail[r]] = Null
        /\ \A n \in 2 .. size[r] : prev[Nth(r, n)] = Nth(r, n - 1)
    BY <1>5 DEF ListsOK, WellLinked
  <2>2. 1 \in 1 .. size[r] /\ size[r] \in 1 .. size[r]
        /\ \A n \in 2 .. size[r] : n \in 1 .. size[r] /\ n - 1 \in 1 .. size[r]
    BY <1>1, <1>5
  <2> QED BY <1>1, <1>3, <2>1, <2>2
<1>6. WellLinked(r)'
  BY <1>5 DEF WellLinked, Nth
<1> QED BY <1>4, <1>6

(* The k-th thread of q has left it, or t is its last one now.             *)
Unlinked(q, k) ==
  /\ size'[q] = size[q] - 1
  /\ \A n \in 1 .. size[q] - 1 : Nth(q, n)' = IF n < k THEN Nth(q, n) ELSE Nth(q, n + 1)
Linked(q, t) ==
  /\ size'[q] = size[q] + 1
  /\ \A n \in 1 .. size[q] : Nth(q, n)' = Nth(q, n)
  /\ \A n : n = size[q] + 1 => Nth(q, n)' = t

(* What a call on list q needs to know of the list before it.              *)
LEMMA ListFacts ==
  ASSUME TypeOK, ListsOK, NEW q \in WaitQueue
  PROVE  /\ \A n \in 1 .. size[q] : Nth(q, n) \in Thread /\ Nth(q, n) # Null
         /\ \A n, m \in 1 .. size[q] : Nth(q, n) = Nth(q, m) => n = m
         /\ \A r \in WaitQueue : r # q =>
              \A n \in 1 .. size[r], m \in 1 .. size[q] : Nth(r, n) # Nth(q, m)
         /\ \A n \in 1 .. size[q] :
              /\ next[Nth(q, n)] = IF n = size[q] THEN Null ELSE Nth(q, n + 1)
              /\ prev[Nth(q, n)] = IF n = 1 THEN Null ELSE Nth(q, n - 1)
<1>1. /\ Nth(q, 1) = head[q] /\ size[q] \in Nat
      /\ \A n \in Nat \ {0} : Nth(q, n + 1) = next[Nth(q, n)]
  BY Links
<1>2. /\ \A n \in 1 .. size[q] : Nth(q, n) \in Thread
      /\ \A r \in WaitQueue : \A n \in 1 .. size[r], m \in 1 .. size[q] :
           Nth(r, n) = Nth(q, m) => r = q /\ n = m
      /\ WellLinked(q)
  BY DEF ListsOK
<1>3. ASSUME NEW n \in 1 .. size[q]
      PROVE  /\ next[Nth(q, n)] = IF n = size[q] THEN Null ELSE Nth(q, n + 1)
             /\ prev[Nth(q, n)] = IF n = 1 THEN Null ELSE Nth(q, n - 1)
  <2>1. /\ prev[head[q]] = Null /\ Nth(q, size[q]) = tail[q] /\ next[tail[q]] = Null
        /\ \A m \in 2 .. size[q] : prev[Nth(q, m)] = Nth(q, m - 1)
    BY <1>1, <1>2 DEF WellLinked
  <2>2. n \in Nat \ {0} /\ (n # 1 => n \in 2 .. size[q])
    BY <1>1
  <2> QED BY <1>1, <2>1, <2>2
<1>4. \A n, m \in 1 .. size[q] : Nth(q, n) = Nth(q, m) => n = m
  BY <1>2
<1> QED BY <1>2, <1>3, <1>4, Constants

LEMMA PushLinks ==
  ASSUME TypeOK, ListsOK, NEW q \in WaitQueue, NEW t \in Thread, queue_push(q, t)
  PROVE  /\ Linked(q, t) /\ WellLinked(q)'
         /\ \A r \in WaitQueue : r # q => SameThreads(r) /\ WellLinked(r)'
<1> DEFINE k == size[q]
<1>1. /\ Nth(q, 1) = head[q] /\ size[q] \in Nat
      /\ \A n \in Nat \ {0} : Nth(q, n + 1) = next[Nth(q, n)]
  BY Links
<1>2. /\ next \in [Thread -> Thread \cup {Null}] /\ prev \in [Thread -> Thread \cup {Null}]
      /\ head \in [WaitQueue -> Thread \cup {Null}] /\ tail \in [WaitQueue -> Thread \cup {Null}]
      /\ DOMAIN size = WaitQueue
  BY DEF TypeOK
<1>3. /\ ~InSomeQueue(t) /\ size' = [size EXCEPT ![q] = @ + 1] /\ tail' = [tail EXCEPT ![q] = t]
      /\ size[q] = 0 => /\ head' = [head EXCEPT ![q] = t]
                        /\ next' = [next EXCEPT ![t] = Null]
                        /\ prev' = [prev EXCEPT ![t] = Null]
      /\ size[q] # 0 => /\ next' = [next EXCEPT ![tail[q]] = t, ![t] = Null]
                        /\ prev' = [prev EXCEPT ![t] = tail[q]]
                        /\ head' = head
  BY DEF queue_push
<1>4. \A r \in WaitQueue : \A n \in 1 .. size[r] : Nth(r, n) # t /\ Nth(r, n) \in Thread
  BY <1>3, QueuedIs, ListFacts
<1>5. size[q] # 0 => size[q] \in 1 .. size[q] /\ tail[q] = Nth(q, size[q]) /\ tail[q] \in Thread
  <2>1. size[q] # 0 => size[q] > 0 /\ size[q] \in 1 .. size[q]
    BY <1>1
  <2> QED BY <2>1, <1>4 DEF ListsOK, WellLinked
<1>6. size'[q] = size[q] + 1 /\ tail'[q] = t
      /\ \A r \in WaitQueue : r # q => /\ size'[r] = size[r] /\ head'[r] = head[r]
                                       /\ tail'[r] = tail[r]
  BY <1>2, <1>3
<1>7. /\ next'[t] = Null /\ prev'[t] = IF size[q] = 0 THEN Null ELSE tail[q]
      /\ size[q] # 0 => next'[tail[q]] = t
      /\ head'[q] = IF size[q] = 0 THEN t ELSE head[q]
      /\ \A u \in Thread : u # t => prev'[u] = prev[u]
                                    /\ (size[q] = 0 \/ u # tail[q] => next'[u] = next[u])
  <2>1. size[q] # 0 => tail[q] # t
    BY <1>4, <1>5
  <2> QED BY <1>2, <1>3, <1>5, <2>1
<1>8. \A r \in WaitQueue : r # q => SameThreads(r) /\ WellLinked(r)'
  <2> SUFFICES ASSUME NEW r \in WaitQueue, r # q PROVE SameThreads(r) /\ WellLinked(r)'
    OBVIOUS
  <2>1. \A n \in 1 .. size[r] : size[q] = 0 \/ Nth(r, n) # tail[q]
    BY <1>5, ListFacts
  <2>2. \A n \in 1 .. size[r] : /\ next'[Nth(r, n)] = next[Nth(r, n)]
                                /\ prev'[Nth(r, n)] = prev[Nth(r, n)]
    BY <1>4, <1>7, <2>1
  <2> QED BY <1>6, <2>2, ListKept
<1>9. \A n \in 1 .. k + 1 : Nth(q, n)' = IF n = k + 1 THEN t ELSE Nth(q, n)
  <2> DEFINE s == [n \in 1 .. k + 1 |-> IF n = k + 1 THEN t ELSE Nth(q, n)]
  <2>1. k + 1 \in Nat /\ 1 \in 1 .. k + 1
    BY <1>1
  <2>2. s[1] = head'[q]
    BY <1>1, <1>7, <2>1
  <2>3. ASSUME NEW n \in 1 .. (k + 1) - 1 PROVE s[n + 1] = next'[s[n]]
    <3>1. n \in 1 .. k /\ n + 1 \in 1 .. k + 1 /\ n \in 1 .. k + 1 /\ n # k + 1 /\ k # 0
      BY <1>1
    <3>2. s[n] = Nth(q, n) /\ Nth(q, n) \in Thread /\ Nth(q, n) # t
      BY <1>4, <3>1
    <3>3. CASE n = k
      BY <1>5, <1>7, <3>1, <3>2, <3>3
    <3>4. CASE n # k
      <4>1. Nth(q, n) # tail[q] /\ n + 1 # k + 1 /\ n \in Nat \ {0}
        BY <1>1, <1>5, <3>1, <3>4, ListFacts
      <4>2. s[n + 1] = Nth(q, n + 1)
        BY <3>1, <4>1
      <4>3. Nth(q, n + 1) = next[Nth(q, n)] /\ next'[Nth(q, n)] = next[Nth(q, n)]
        BY <1>1, <1>7, <3>2, <4>1
      <4> HIDE DEF s
      <4> QED BY <3>2, <4>2, <4>3
    <3> QED BY <3>3, <3>4
  <2>4. \A n \in 1 .. k + 1 : s[n] = IF n = k + 1 THEN t ELSE Nth(q, n)
    OBVIOUS
  <2> HIDE DEF s
  <2>5. \A n \in 1 .. k + 1 : Nth(q, n)' = s[n]
    <3> DEFINE K == k + 1
    <3>1. K \in Nat /\ (K > 0 => s[1] = head'[q]) /\ \A n \in 1 .. K - 1 : s[n + 1] = next'[s[n]]
      BY <2>1, <2>2, <2>3
    <3> HIDE DEF K
    <3>2. \A n \in 1 .. K : Nth(q, n)' = s[n]
      BY <3>1, NewList
    <3> QED BY <3>2 DEF K
  <2> QED BY <2>4, <2>5
<1>10. Linked(q, t)
  <2>1. \A n \in 1 .. k : n \in 1 .. k + 1 /\ n # k + 1
    BY <1>1
  <2>2. k + 1 \in 1 .. k + 1
    BY <1>1
  <2> QED BY <1>6, <1>9, <2>1, <2>2 DEF Linked
<1>11. WellLinked(q)'
  <2>1. prev'[head'[q]] = Null
    <3>1. size[q] # 0 => head[q] \in Thread /\ head[q] # t /\ prev[head[q]] = Null
      <4>1. size[q] # 0 => size[q] > 0 /\ 1 \in 1 .. size[q]
        BY <1>1
      <4> QED BY <1>1, <1>4, <4>1 DEF ListsOK, WellLinked
    <3> QED BY <1>7, <3>1
  <2>2. \A n : n = size'[q] => Nth(q, n)' = tail'[q]
    BY <1>6, <1>10 DEF Linked
  <2>3. next'[tail'[q]] = Null
    BY <1>6, <1>7
  <2>4. ASSUME NEW n \in 2 .. k + 1 PROVE prev'[Nth(q, n)'] = Nth(q, n - 1)'
    <3>1. n - 1 \in 1 .. k + 1 /\ n - 1 # k + 1 /\ n \in 1 .. k + 1 /\ k # 0
      BY <1>1
    <3>2. Nth(q, n - 1)' = Nth(q, n - 1) /\ Nth(q, n)' = IF n = k + 1 THEN t ELSE Nth(q, n)
      BY <1>9, <3>1
    <3>3. CASE n = k + 1
      <4>1. n - 1 = k
        BY <1>1, <3>3
      <4> QED BY <1>5, <1>7, <3>1, <3>2, <3>3, <4>1
    <3>4. CASE n # k + 1
      <4>1. n \in 1 .. k /\ n # 1
        BY <1>1, <3>4
      <4> QED BY <1>4, <1>7, <3>2, <3>4, <4>1, ListFacts
    <3> QED BY <3>3, <3>4
  <2> QED BY <1>6, <2>1, <2>2, <2>3, <2>4 DEF WellLinked, Nth
<1> QED BY <1>8, <1>10, <1>11

(* Both queue_pop and queue_remove close the gap the thread leaves.        *)
LEMMA UnlinkLinks ==
  ASSUME TypeOK, ListsOK, NEW q \in WaitQueue, NEW k \in 1 .. size[q],
         /\ size'[q] = size[q] - 1
         /\ head'[q] = IF k = 1 THEN next[Nth(q, k)] ELSE head[q]
         /\ tail'[q] = IF k = size[q] THEN prev[Nth(q, k)] ELSE tail[q],
         \A r \in WaitQueue : r # q => /\ size'[r] = size[r] /\ head'[r] = head[r]
                                       /\ tail'[r] = tail[r],
         \A u \in Thread : u # Nth(q, k) =>
            /\ next'[u] = IF u = prev[Nth(q, k)] THEN next[Nth(q, k)] ELSE next[u]
            /\ prev'[u] = IF u = next[Nth(q, k)] THEN prev[Nth(q, k)] ELSE prev[u]
  PROVE  /\ Unlinked(q, k) /\ WellLinked(q)'
         /\ \A r \in WaitQueue : r # q => SameThreads(r) /\ WellLinked(r)'
<1> DEFINE N == size[q]
           t == Nth(q, k)
<1>1. /\ Nth(q, 1) = head[q] /\ size[q] \in Nat
      /\ \A n \in Nat \ {0} : Nth(q, n + 1) = next[Nth(q, n)]
  BY Links
<1>2. /\ \A n \in 1 .. N : Nth(q, n) \in Thread /\ Nth(q, n) # Null
      /\ \A n, m \in 1 .. N : Nth(q, n) = Nth(q, m) => n = m
      /\ \A r \in WaitQueue : r # q =>
           \A n \in 1 .. size[r], m \in 1 .. N : Nth(r, n) # Nth(q, m)
      /\ \A n \in 1 .. N : /\ next[Nth(q, n)] = IF n = N THEN Null ELSE Nth(q, n + 1)
                           /\ prev[Nth(q, n)] = IF n = 1 THEN Null ELSE Nth(q, n - 1)
  BY ListFacts
<1>3. /\ t \in Thread /\ next[t] = IF k = N THEN Null ELSE Nth(q, k + 1)
      /\ prev[t] = IF k = 1 THEN Null ELSE Nth(q, k - 1)
      /\ k # N => k + 1 \in 1 .. N
      /\ k # 1 => k - 1 \in 1 .. N
  BY <1>1, <1>2
<1>4. /\ tail[q] = Nth(q, N) /\ N \in 1 .. N /\ 1 \in 1 .. N
  BY <1>1 DEF ListsOK, WellLinked
<1>5. \A r \in WaitQueue : r # q => SameThreads(r) /\ WellLinked(r)'
  <2> SUFFICES ASSUME NEW r \in WaitQueue, r # q PROVE SameThreads(r) /\ WellLinked(r)'
    OBVIOUS
  <2>1. \A n \in 1 .. size[r] : Nth(r, n) \in Thread /\ Nth(r, n) # Null
    BY ListFacts
  <2>2. \A n \in 1 .. size[r] : Nth(r, n) # t /\ Nth(r, n) # next[t] /\ Nth(r, n) # prev[t]
    BY <1>2, <1>3, <2>1
  <2>3. \A n \in 1 .. size[r] : /\ next'[Nth(r, n)] = next[Nth(r, n)]
                                /\ prev'[Nth(r, n)] = prev[Nth(r, n)]
    BY <2>1, <2>2
  <2> QED BY <2>3, ListKept
<1> DEFINE old(n) == IF n < k THEN n ELSE n + 1
<1>6. \A n \in 1 .. N - 1 : /\ old(n) \in 1 .. N /\ old(n) # k
                            /\ Nth(q, old(n)) \in Thread /\ Nth(q, old(n)) # t
  <2>1. \A n \in 1 .. N - 1 : old(n) \in 1 .. N /\ old(n) # k
    BY <1>1
  <2> HIDE DEF old
  <2> QED BY <1>2, <2>1
<1>7. \A n \in 1 .. N - 1 : Nth(q, n)' = Nth(q, old(n))
  <2> DEFINE s == [n \in 1 .. N - 1 |-> Nth(q, old(n))]
  <2>1. N - 1 \in Nat
    BY <1>1
  <2>2. ASSUME N - 1 > 0 PROVE s[1] = head'[q]
    <3>1. s[1] = Nth(q, old(1))
      BY <1>1, <2>2
    <3>2. k = 1 => old(1) = 2 /\ k # N /\ k + 1 = 2
      BY <1>1, <2>2
    <3>3. k # 1 => old(1) = 1
      BY <1>1
    <3> HIDE DEF s, old
    <3> QED BY <1>1, <1>3, <3>1, <3>2, <3>3
  <2>3. ASSUME NEW n \in 1 .. (N - 1) - 1 PROVE s[n + 1] = next'[s[n]]
    <3>1. n \in 1 .. N - 1 /\ n + 1 \in 1 .. N - 1 /\ n \in Nat \ {0}
      BY <1>1
    <3>2. s[n] = Nth(q, old(n)) /\ s[n + 1] = Nth(q, old(n + 1))
      BY <3>1
    <3>3. /\ Nth(q, old(n)) \in Thread /\ Nth(q, old(n)) # t
          /\ old(n) \in 1 .. N
      BY <1>6, <3>1
    <3>4. CASE n = k - 1
      <4>1. old(n) = k - 1 /\ old(n + 1) = k + 1 /\ k # 1 /\ k # N
        BY <1>1, <3>1, <3>4
      <4> HIDE DEF s, old
      <4> QED BY <1>3, <3>2, <3>3, <4>1
    <3>5. CASE n # k - 1
      <4>1. old(n + 1) = old(n) + 1 /\ old(n) # k - 1 /\ old(n) # N /\ old(n) \in Nat \ {0}
        BY <1>1, <3>1, <3>5
      <4> HIDE DEF s, old
      <4>2. Nth(q, old(n)) # prev[t]
        BY <1>2, <1>3, <3>3, <4>1
      <4>3. next'[Nth(q, old(n))] = next[Nth(q, old(n))]
        BY <3>3, <4>2
      <4> QED BY <1>1, <3>2, <4>1, <4>3
    <3> QED BY <3>4, <3>5
  <2>4. \A n \in 1 .. N - 1 : s[n] = Nth(q, old(n))
    OBVIOUS
  <2> HIDE DEF s, old
  <2>5. \A n \in 1 .. N - 1 : Nth(q, n)' = s[n]
    <3> DEFINE K == N - 1
    <3>1. K \in Nat /\ (K > 0 => s[1] = head'[q]) /\ \A n \in 1 .. K - 1 : s[n + 1] = next'[s[n]]
      BY <2>1, <2>2, <2>3
    <3> HIDE DEF K
    <3>2. \A n \in 1 .. K : Nth(q, n)' = s[n]
      BY <3>1, NewList
    <3> QED BY <3>2 DEF K
  <2> QED BY <2>4, <2>5
<1>8. Unlinked(q, k)
  <2>1. \A n \in 1 .. N - 1 : Nth(q, old(n)) = IF n < k THEN Nth(q, n) ELSE Nth(q, n + 1)
    OBVIOUS
  <2> HIDE DEF old
  <2> QED BY <1>7, <2>1 DEF Unlinked
<1>9. ASSUME N - 1 > 0
      PROVE  /\ prev'[head'[q]] = Null /\ next'[tail'[q]] = Null
             /\ \A n : n = N - 1 => Nth(q, n)' = tail'[q]
             /\ \A n \in 2 .. N - 1 : prev'[Nth(q, n)'] = Nth(q, n - 1)'
  <2>1. 1 \in 1 .. N - 1 /\ N - 1 \in 1 .. N - 1
    BY <1>1, <1>9
  <2>2. prev'[head'[q]] = Null
    <3>1. CASE k = 1
      <4>1. k # N
        BY <1>1, <1>9, <3>1
      <4>2. head'[q] = Nth(q, k + 1) /\ k + 1 \in 1 .. N /\ next[t] = Nth(q, k + 1)
            /\ Nth(q, k + 1) # t /\ prev[t] = Null
        <5>1. k + 1 # k
          OBVIOUS
        <5> QED BY <1>2, <1>3, <3>1, <4>1, <5>1
      <4> QED BY <1>2, <4>2
    <3>2. CASE k # 1
      <4>1. head'[q] = Nth(q, 1) /\ prev[Nth(q, 1)] = Null /\ Nth(q, 1) # t
        BY <1>1, <1>2, <1>4, <3>2
      <4>2. Nth(q, 1) # next[t]
        <5>1. k + 1 # 1
          BY <1>1
        <5> QED BY <1>2, <1>3, <1>4, <5>1
      <4> QED BY <1>2, <1>4, <4>1, <4>2
    <3> QED BY <3>1, <3>2
  <2>3. next'[tail'[q]] = Null /\ tail'[q] = Nth(q, old(N - 1))
    <3>1. CASE k = N
      <4>1. k # 1 /\ old(N - 1) = k - 1 /\ k - 1 # k
        BY <1>1, <1>9, <3>1
      <4> HIDE DEF old
      <4>2. tail'[q] = Nth(q, k - 1) /\ prev[t] = Nth(q, k - 1) /\ next[t] = Null
            /\ Nth(q, k - 1) # t /\ Nth(q, k - 1) \in Thread
        BY <1>2, <1>3, <3>1, <4>1
      <4> QED BY <4>1, <4>2
    <3>2. CASE k # N
      <4>1. old(N - 1) = N /\ k - 1 # N
        BY <1>1, <3>2
      <4> HIDE DEF old
      <4>2. tail'[q] = Nth(q, N) /\ next[Nth(q, N)] = Null /\ Nth(q, N) # t
            /\ Nth(q, N) # prev[t] /\ Nth(q, N) \in Thread
        BY <1>2, <1>3, <1>4, <3>2, <4>1
      <4> QED BY <4>1, <4>2
    <3> QED BY <3>1, <3>2
  <2>4. \A n : n = N - 1 => Nth(q, n)' = tail'[q]
    <3> HIDE DEF old
    <3> QED BY <1>7, <2>1, <2>3
  <2>5. ASSUME NEW n \in 2 .. N - 1 PROVE prev'[Nth(q, n)'] = Nth(q, n - 1)'
    <3>1. n \in 1 .. N - 1 /\ n - 1 \in 1 .. N - 1
      BY <1>1
    <3>2. Nth(q, n)' = Nth(q, old(n)) /\ Nth(q, n - 1)' = Nth(q, old(n - 1))
          /\ Nth(q, old(n)) \in Thread /\ Nth(q, old(n)) # t /\ old(n) \in 1 .. N
      <4> HIDE DEF old
      <4> QED BY <1>6, <1>7, <3>1
    <3>3. CASE n = k
      <4>1. old(n) = k + 1 /\ old(n - 1) = k - 1 /\ k # N /\ k # 1
        BY <1>1, <3>1, <3>3
      <4> HIDE DEF old
      <4> QED BY <1>3, <3>2, <4>1
    <3>4. CASE n # k
      <4>1. old(n - 1) = old(n) - 1 /\ old(n) # k + 1 /\ old(n) # 1
        BY <1>1, <3>1, <3>4
      <4> HIDE DEF old
      <4>2. Nth(q, old(n)) # next[t]
        BY <1>2, <1>3, <3>2, <4>1
      <4> QED BY <1>2, <3>2, <4>1, <4>2
    <3> QED BY <3>3, <3>4
  <2> QED BY <2>2, <2>3, <2>4, <2>5
<1>10. WellLinked(q)'
  <2>1. size'[q] = N - 1
    OBVIOUS
  <2> QED BY <1>9, <2>1 DEF WellLinked, Nth
<1> QED BY <1>5, <1>8, <1>10

LEMMA PopLinks ==
  ASSUME TypeOK, ListsOK, NEW q \in WaitQueue, queue_pop(q)
  PROVE  /\ 1 \in 1 .. size[q] /\ Unlinked(q, 1) /\ WellLinked(q)'
         /\ \A r \in WaitQueue : r # q => SameThreads(r) /\ WellLinked(r)'
         /\ in_or_not' = [in_or_not EXCEPT ![Nth(q, 1)] = 0] /\ ret' = Nth(q, 1)
<1> DEFINE t == Nth(q, 1)
<1>1. Nth(q, 1) = head[q] /\ size[q] \in Nat
  BY Links
<1>2. /\ next \in [Thread -> Thread \cup {Null}] /\ prev \in [Thread -> Thread \cup {Null}]
      /\ head \in [WaitQueue -> Thread \cup {Null}] /\ tail \in [WaitQueue -> Thread \cup {Null}]
      /\ DOMAIN size = WaitQueue
  BY DEF TypeOK
<1>3. /\ head' = [head EXCEPT ![q] = next[t]]
      /\ tail' = IF size[q] = 1 THEN [tail EXCEPT ![q] = Null] ELSE tail
      /\ prev' = [u \in Thread |-> IF u = t \/ (size[q] > 1 /\ u = next[t]) THEN Null ELSE prev[u]]
      /\ next' = [next EXCEPT ![t] = Null] /\ size' = [size EXCEPT ![q] = @ - 1] /\ size[q] # 0
      /\ in_or_not' = [in_or_not EXCEPT ![t] = 0] /\ ret' = t
  BY <1>1 DEF queue_pop
<1>4. 1 \in 1 .. size[q]
  BY <1>1, <1>3
<1>5. /\ t \in Thread /\ prev[t] = Null /\ next[t] = IF 1 = size[q] THEN Null ELSE Nth(q, 1 + 1)
  BY <1>4, ListFacts
<1>6. /\ size'[q] = size[q] - 1
      /\ head'[q] = next[t] /\ tail'[q] = IF 1 = size[q] THEN prev[t] ELSE tail[q]
  BY <1>2, <1>3, <1>5
<1>7. \A r \in WaitQueue : r # q => /\ size'[r] = size[r] /\ head'[r] = head[r]
                                    /\ tail'[r] = tail[r]
  BY <1>2, <1>3
<1>8. \A u \in Thread : u # t =>
            /\ next'[u] = IF u = prev[t] THEN next[t] ELSE next[u]
            /\ prev'[u] = IF u = next[t] THEN prev[t] ELSE prev[u]
  <2>1. size[q] > 1 <=> ~(1 = size[q])
    BY <1>1, <1>3
  <2> QED BY <1>2, <1>3, <1>5, <2>1, Constants
<1> HIDE DEF t
<1>9. /\ Unlinked(q, 1) /\ WellLinked(q)'
      /\ \A r \in WaitQueue : r # q => SameThreads(r) /\ WellLinked(r)'
  BY <1>4, <1>6, <1>7, <1>8, UnlinkLinks DEF t
<1> QED BY <1>3, <1>4, <1>9 DEF t

LEMMA RemoveLinks ==
  ASSUME TypeOK, ListsOK, NEW q \in WaitQueue, NEW t \in Thread, queue_remove(q, t)
  PROVE  \E k \in 1 .. size[q] :
           /\ Nth(q, k) = t /\ Unlinked(q, k) /\ WellLinked(q)'
           /\ \A r \in WaitQueue : r # q => SameThreads(r) /\ WellLinked(r)'
           /\ in_or_not' = [in_or_not EXCEPT ![t] = 0] /\ ret' = t
<1>1. PICK k \in 1 .. size[q] : Nth(q, k) = t
  BY DEF queue_remove
<1>2. /\ next \in [Thread -> Thread \cup {Null}] /\ prev \in [Thread -> Thread \cup {Null}]
      /\ head \in [WaitQueue -> Thread \cup {Null}] /\ tail \in [WaitQueue -> Thread \cup {Null}]
      /\ DOMAIN size = WaitQueue
  BY DEF TypeOK
<1>3. /\ head' = IF prev[t] = Null THEN [head EXCEPT ![q] = next[t]] ELSE head
      /\ tail' = IF next[t] = Null THEN [tail EXCEPT ![q] = prev[t]] ELSE tail
      /\ next' = NextWithout(t) /\ prev' = PrevWithout(t) /\ size' = [size EXCEPT ![q] = @ - 1]
      /\ in_or_not' = [in_or_not EXCEPT ![t] = 0] /\ ret' = t
  BY DEF queue_remove
<1>4. /\ prev[t] = Null <=> k = 1
      /\ next[t] = Null <=> k = size[q]
  <2>1. size[q] \in Nat
    BY Links
  <2>2. (k # 1 => k - 1 \in 1 .. size[q]) /\ (k # size[q] => k + 1 \in 1 .. size[q])
    BY <2>1
  <2>3. /\ next[t] = IF k = size[q] THEN Null ELSE Nth(q, k + 1)
        /\ prev[t] = IF k = 1 THEN Null ELSE Nth(q, k - 1)
        /\ \A n \in 1 .. size[q] : Nth(q, n) # Null
    BY <1>1, ListFacts
  <2> QED BY <2>2, <2>3
<1>5. /\ size'[q] = size[q] - 1
      /\ head'[q] = IF k = 1 THEN next[t] ELSE head[q]
      /\ tail'[q] = IF k = size[q] THEN prev[t] ELSE tail[q]
  BY <1>2, <1>3, <1>4
<1>6. \A r \in WaitQueue : r # q => /\ size'[r] = size[r] /\ head'[r] = head[r]
                                    /\ tail'[r] = tail[r]
  BY <1>2, <1>3
<1>7. \A u \in Thread : u # t =>
            /\ next'[u] = IF u = prev[t] THEN next[t] ELSE next[u]
            /\ prev'[u] = IF u = next[t] THEN prev[t] ELSE prev[u]
  BY <1>2, <1>3 DEF NextWithout, PrevWithout
<1>8. /\ Unlinked(q, k) /\ WellLinked(q)'
      /\ \A r \in WaitQueue : r # q => SameThreads(r) /\ WellLinked(r)'
  BY <1>1, <1>5, <1>6, <1>7, UnlinkLinks
<1> QED BY <1>1, <1>3, <1>8

(* A call of queue.c leaves the threads of the lists where they are, adds  *)
(* one that is queued nowhere, or takes one out.                           *)
Pushed(q, t) ==
  /\ ~InSomeQueue(t) /\ Linked(q, t) /\ in_or_not' = [in_or_not EXCEPT ![t] = 1] /\ ret' = 0
  /\ \A r \in WaitQueue : r # q => SameThreads(r)
TakenOff(q, k) ==
  /\ Unlinked(q, k) /\ in_or_not' = [in_or_not EXCEPT ![Nth(q, k)] = 0] /\ ret' = Nth(q, k)
  /\ \A r \in WaitQueue : r # q => SameThreads(r)
ListsUnmoved ==
  in_or_not' = in_or_not /\ \A r \in WaitQueue : SameThreads(r)

LEMMA ListEffects ==
  ASSUME TypeOK, ListsOK, ListCall
  PROVE  /\ \A r \in WaitQueue : WellLinked(r)' /\ (r \notin created' => size'[r] = 0)
         /\ \/ /\ ListsUnmoved
               /\ \E q \in WaitQueue : queue_create(q) \/ queue_destroy(q)
            \/ \E q \in WaitQueue, t \in Thread : queue_push(q, t) /\ Pushed(q, t)
            \/ \E q \in WaitQueue : \E k \in 1 .. size[q] :
                 (queue_pop(q) \/ \E t \in Thread : queue_remove(q, t)) /\ TakenOff(q, k)
<1>0. /\ \A r \in WaitQueue : r \notin created => size[r] = 0
      /\ size \in [WaitQueue -> 0 .. Capacity] /\ head \in [WaitQueue -> Thread \cup {Null}]
      /\ tail \in [WaitQueue -> Thread \cup {Null}]
  BY DEF ListsOK, TypeOK
<1>1. ASSUME NEW q \in WaitQueue, queue_create(q) \/ queue_destroy(q)
      PROVE  /\ ListsUnmoved
             /\ \A r \in WaitQueue : WellLinked(r)' /\ (r \notin created' => size'[r] = 0)
  <2>1. /\ size[q] = 0 /\ size' = size /\ next' = next /\ prev' = prev /\ in_or_not' = in_or_not
        /\ \A r \in WaitQueue : r # q => head'[r] = head[r] /\ tail'[r] = tail[r]
        /\ created' = created \cup {q} \/ created' = created \ {q}
    BY <1>0, <1>1 DEF queue_create, queue_destroy
  <2>2. \A r \in WaitQueue : r # q => SameThreads(r) /\ WellLinked(r)'
    BY <2>1, ListKept
  <2>3. SameThreads(q) /\ WellLinked(q)'
    <3>1. size'[q] = 0
      BY <2>1
    <3>2. WellLinked(q)'
      BY <3>1 DEF WellLinked
    <3>3. \A n \in 1 .. size[q] : FALSE
      BY <2>1
    <3> QED BY <2>1, <3>2, <3>3 DEF SameThreads
  <2> QED BY <1>0, <2>1, <2>2, <2>3 DEF ListsUnmoved
<1>2. ASSUME NEW q \in WaitQueue, NEW t \in Thread, queue_push(q, t)
      PROVE  /\ Pushed(q, t)
             /\ \A r \in WaitQueue : WellLinked(r)' /\ (r \notin created' => size'[r] = 0)
  <2>1. /\ ~InSomeQueue(t) /\ in_or_not' = [in_or_not EXCEPT ![t] = 1] /\ ret' = 0
        /\ created' = created /\ q \in created
    BY <1>2 DEF queue_push
  <2>2. /\ Linked(q, t) /\ WellLinked(q)'
        /\ \A r \in WaitQueue : r # q => SameThreads(r) /\ WellLinked(r)'
    BY <1>2, PushLinks
  <2> QED BY <1>0, <2>1, <2>2 DEF Pushed, SameThreads
<1>3. ASSUME NEW q \in WaitQueue, queue_pop(q) \/ \E t \in Thread : queue_remove(q, t)
      PROVE  /\ \E k \in 1 .. size[q] : TakenOff(q, k)
             /\ \A r \in WaitQueue : WellLinked(r)' /\ (r \notin created' => size'[r] = 0)
  <2>1. created' = created /\ q \in created
    BY <1>3 DEF queue_pop, queue_remove
  <2>2. PICK k \in 1 .. size[q] :
          /\ Unlinked(q, k) /\ WellLinked(q)'
          /\ \A r \in WaitQueue : r # q => SameThreads(r) /\ WellLinked(r)'
          /\ in_or_not' = [in_or_not EXCEPT ![Nth(q, k)] = 0] /\ ret' = Nth(q, k)
    <3>1. CASE queue_pop(q)
      BY <3>1, PopLinks
    <3>2. CASE \E t \in Thread : queue_remove(q, t)
      BY <3>2, RemoveLinks
    <3> QED BY <1>3, <3>1, <3>2
  <2> QED BY <1>0, <2>1, <2>2 DEF TakenOff, SameThreads
<1> QED BY <1>1, <1>2, <1>3 DEF ListCall

LEMMA TypeList ==
  ASSUME TypeOK, ListsOK, ListCall
  PROVE  TypeOK'
<1>1. /\ policy' = policy /\ UNCHANGED arrayVars
      /\ policy \in {"fcfs", "rand"} /\ slots \in [Slot -> Thread \cup {Null}]
      /\ count \in 0 .. Capacity /\ start \in 0 .. Capacity /\ end \in 0 .. Capacity
  BY ListCallKeeps DEF TypeOK
<1>2. /\ next \in [Thread -> Thread \cup {Null}] /\ prev \in [Thread -> Thread \cup {Null}]
      /\ head \in [WaitQueue -> Thread \cup {Null}] /\ tail \in [WaitQueue -> Thread \cup {Null}]
      /\ size \in [WaitQueue -> 0 .. Capacity] /\ created \subseteq WaitQueue
      /\ in_or_not \in [Thread -> {0, 1}] /\ ret \in Thread \cup {Null, 0}
      /\ Capacity \in Nat \ {0} /\ 0 \in 0 .. Capacity
  BY Constants DEF TypeOK
<1> SUFFICES /\ next' \in [Thread -> Thread \cup {Null}] /\ prev' \in [Thread -> Thread \cup {Null}]
             /\ head' \in [WaitQueue -> Thread \cup {Null}]
             /\ tail' \in [WaitQueue -> Thread \cup {Null}]
             /\ size' \in [WaitQueue -> 0 .. Capacity] /\ created' \subseteq WaitQueue
             /\ in_or_not' \in [Thread -> {0, 1}] /\ ret' \in Thread \cup {Null, 0}
  BY <1>1 DEF TypeOK, arrayVars
<1>3. CASE \E q \in WaitQueue : queue_create(q)
  BY <1>2, <1>3 DEF queue_create
<1>4. CASE \E q \in WaitQueue : queue_destroy(q)
  BY <1>2, <1>4 DEF queue_destroy
<1>5. CASE \E q \in WaitQueue : queue_pop(q)
  <2>1. PICK q \in WaitQueue : queue_pop(q)
    BY <1>5
  <2> DEFINE t == head[q]
  <2>2. /\ head' = [head EXCEPT ![q] = next[t]]
        /\ tail' = IF size[q] = 1 THEN [tail EXCEPT ![q] = Null] ELSE tail
        /\ prev' = [u \in Thread |-> IF u = t \/ (size[q] > 1 /\ u = next[t]) THEN Null ELSE prev[u]]
        /\ next' = [next EXCEPT ![t] = Null] /\ size' = [size EXCEPT ![q] = @ - 1] /\ size[q] # 0
        /\ in_or_not' = [in_or_not EXCEPT ![t] = 0] /\ ret' = t /\ created' = created
    BY <2>1 DEF queue_pop
  <2>3. t \in Thread
    <3>1. Nth(q, 1) = t /\ 1 \in 1 .. size[q]
      BY <2>1, Links, PopLinks
    <3> QED BY <3>1, ListFacts
  <2> HIDE DEF t
  <2>4. next[t] \in Thread \cup {Null} /\ size[q] - 1 \in 0 .. Capacity
    BY <1>2, <2>2, <2>3
  <2> QED BY <1>2, <2>2, <2>3, <2>4
<1>6. CASE \E q \in WaitQueue, t \in Thread : queue_push(q, t)
  <2>1. PICK q \in WaitQueue, t \in Thread : queue_push(q, t)
    BY <1>6
  <2>2. /\ tail' = [tail EXCEPT ![q] = t] /\ size' = [size EXCEPT ![q] = @ + 1]
        /\ size[q] # Capacity
        /\ in_or_not' = [in_or_not EXCEPT ![t] = 1] /\ ret' = 0 /\ created' = created
        /\ head' = head \/ head' = [head EXCEPT ![q] = t]
        /\ next' = [next EXCEPT ![t] = Null] \/ next' = [next EXCEPT ![tail[q]] = t, ![t] = Null]
        /\ prev' = [prev EXCEPT ![t] = Null] \/ prev' = [prev EXCEPT ![t] = tail[q]]
    BY <2>1 DEF queue_push
  <2>3. tail[q] \in Thread \cup {Null} /\ size[q] + 1 \in 0 .. Capacity
    BY <1>2, <2>2
  <2>4. /\ next' \in [Thread -> Thread \cup {Null}] /\ prev' \in [Thread -> Thread \cup {Null}]
        /\ head' \in [WaitQueue -> Thread \cup {Null}]
    BY <1>2, <2>2, <2>3
  <2> QED BY <1>2, <2>2, <2>3, <2>4
<1>7. CASE \E q \in WaitQueue, t \in Thread : queue_remove(q, t)
  <2>1. PICK q \in WaitQueue, t \in Thread : queue_remove(q, t)
    BY <1>7
  <2>2. /\ head' = IF prev[t] = Null THEN [head EXCEPT ![q] = next[t]] ELSE head
        /\ tail' = IF next[t] = Null THEN [tail EXCEPT ![q] = prev[t]] ELSE tail
        /\ next' = NextWithout(t) /\ prev' = PrevWithout(t) /\ size' = [size EXCEPT ![q] = @ - 1]
        /\ in_or_not' = [in_or_not EXCEPT ![t] = 0] /\ ret' = t /\ created' = created
    BY <2>1 DEF queue_remove
  <2>3. next[t] \in Thread \cup {Null} /\ prev[t] \in Thread \cup {Null}
        /\ size[q] - 1 \in 0 .. Capacity
    <3>1. \E k \in 1 .. size[q] : TRUE
      BY <2>1 DEF queue_remove
    <3>2. size[q] # 0
      BY <1>2, <3>1
    <3> QED BY <1>2, <3>2
  <2>4. next' \in [Thread -> Thread \cup {Null}] /\ prev' \in [Thread -> Thread \cup {Null}]
    BY <1>2, <2>2, <2>3 DEF NextWithout, PrevWithout
  <2> QED BY <1>2, <2>2, <2>3, <2>4
<1> QED BY <1>3, <1>4, <1>5, <1>6, <1>7 DEF ListCall

LEMMA ListsOKList ==
  ASSUME TypeOK, ListsOK, ListCall
  PROVE  ListsOK'
<1>1. \A r \in WaitQueue : size[r] \in Nat
  BY Links
<1>2. /\ \A q \in WaitQueue : \A n \in 1 .. size[q] : Nth(q, n) \in Thread
      /\ \A q, r \in WaitQueue : \A n \in 1 .. size[q], m \in 1 .. size[r] :
           Nth(q, n) = Nth(r, m) => q = r /\ n = m
  BY DEF ListsOK
<1> SUFFICES /\ \A q \in WaitQueue : \A n \in 1 .. size'[q] : Nth(q, n)' \in Thread
             /\ \A q, r \in WaitQueue : \A n \in 1 .. size'[q], m \in 1 .. size'[r] :
                  Nth(q, n)' = Nth(r, m)' => q = r /\ n = m
  BY ListEffects DEF ListsOK
<1>3. CASE ListsUnmoved
  BY <1>2, <1>3 DEF ListsUnmoved, SameThreads
<1>4. CASE \E q \in WaitQueue, t \in Thread : Pushed(q, t)
  <2>1. PICK q \in WaitQueue, t \in Thread : Pushed(q, t)
    BY <1>4
  <2>2. \A r \in WaitQueue : \A n \in 1 .. size[r] : Nth(r, n) # t
    BY <2>1, QueuedIs DEF Pushed
  <2>3. \A r \in WaitQueue : \A n \in 1 .. size'[r] :
          \/ n \in 1 .. size[r] /\ Nth(r, n)' = Nth(r, n)
          \/ r = q /\ n = size'[q] /\ Nth(r, n)' = t
    <3> SUFFICES ASSUME NEW r \in WaitQueue, NEW n \in 1 .. size'[r]
                 PROVE  \/ n \in 1 .. size[r] /\ Nth(r, n)' = Nth(r, n)
                        \/ r = q /\ n = size'[q] /\ Nth(r, n)' = t
      OBVIOUS
    <3>1. r # q => n \in 1 .. size[r] /\ Nth(r, n)' = Nth(r, n)
      BY <2>1 DEF Pushed, SameThreads
    <3>2. r = q => n \in 1 .. size[r] \/ n = size[r] + 1
      BY <1>1, <2>1 DEF Pushed, Linked
    <3> QED BY <2>1, <3>1, <3>2 DEF Pushed, Linked
  <2> QED BY <1>2, <2>2, <2>3
<1>5. CASE \E q \in WaitQueue : \E k \in 1 .. size[q] : TakenOff(q, k)
  <2>1. PICK q \in WaitQueue : \E k \in 1 .. size[q] : TakenOff(q, k)
    BY <1>5
  <2>2. PICK k \in 1 .. size[q] : TakenOff(q, k)
    BY <2>1
  <2> DEFINE old(r, n) == IF r = q /\ ~(n < k) THEN n + 1 ELSE n
  <2>3. ASSUME NEW r \in WaitQueue, NEW n \in 1 .. size'[r]
        PROVE  old(r, n) \in 1 .. size[r] /\ Nth(r, n)' = Nth(r, old(r, n))
    <3>1. CASE r = q
      <4>1. n \in 1 .. size[q] - 1 /\ (n < k \/ ~(n < k))
        BY <2>2, <3>1 DEF TakenOff, Unlinked
      <4>2. n \in 1 .. size[q] /\ n + 1 \in 1 .. size[q]
        BY <1>1, <4>1
      <4>3. Nth(q, n)' = IF n < k THEN Nth(q, n) ELSE Nth(q, n + 1)
        BY <2>2, <4>1 DEF TakenOff, Unlinked
      <4> QED BY <3>1, <4>2, <4>3
    <3>2. CASE r # q
      BY <2>2, <3>2 DEF TakenOff, SameThreads
    <3> QED BY <3>1, <3>2
  <2>4. \A r \in WaitQueue : \A n, m \in 1 .. size'[r] : old(r, n) = old(r, m) => n = m
    <3> SUFFICES ASSUME NEW r \in WaitQueue, NEW n \in 1 .. size'[r], NEW m \in 1 .. size'[r],
                        old(r, n) = old(r, m)
                 PROVE  n = m
      OBVIOUS
    <3>1. n \in Int /\ m \in Int /\ k \in Int
      OBVIOUS
    <3>2. (IF r = q /\ ~(n < k) THEN n + 1 ELSE n) = (IF r = q /\ ~(m < k) THEN m + 1 ELSE m)
      OBVIOUS
    <3> QED BY <3>1, <3>2
  <2> HIDE DEF old
  <2> QED BY <1>2, <2>3, <2>4
<1> QED BY <1>3, <1>4, <1>5, ListEffects

LEMMA FlagsOKList ==
  ASSUME TypeOK, ArrayOK, ListsOK, FlagsOK, ListCall
  PROVE  FlagsOK'
<1>1. /\ policy' = policy /\ count' = count /\ \A n : Entry(n)' = Entry(n)
      /\ in_or_not \in [Thread -> {0, 1}]
  BY ListCallKeeps DEF TypeOK, arrayVars
<1>2. \A r \in WaitQueue : size[r] \in Nat
  BY Links
<1> DEFINE inArray(u) == \E n \in 1 .. count : Entry(n) = u
<1>3. \A u : InSomeQueue(u) <=>
        inArray(u) \/ \E q \in WaitQueue : \E n \in 1 .. size[q] : Nth(q, n) = u
  BY QueuedIs
<1>4. \A u : InSomeQueue(u)' <=>
        inArray(u) \/ \E q \in WaitQueue : \E n \in 1 .. size'[q] : Nth(q, n)' = u
  <2>1. TypeOK'
    BY TypeList
  <2> QED BY <1>1, <2>1, QueuedIsNext
<1>5. /\ \A u \in Thread : ~InSomeQueue(u) => in_or_not[u] = 0
      /\ policy = "rand" => \A n \in 1 .. count : in_or_not[Entry(n)] = 0
  BY DEF FlagsOK, PushNeverAsserts
<1> SUFFICES /\ \A u \in Thread : ~InSomeQueue(u)' => in_or_not'[u] = 0
             /\ policy = "rand" => \A n \in 1 .. count : in_or_not'[Entry(n)] = 0
  BY <1>1 DEF FlagsOK, PushNeverAsserts
<1>6. CASE ListsUnmoved
  <2>1. \A u : InSomeQueue(u)' <=> InSomeQueue(u)
    <3> HIDE DEF inArray
    <3> QED BY <1>3, <1>4, <1>6 DEF ListsUnmoved, SameThreads
  <2> QED BY <1>5, <1>6, <2>1 DEF ListsUnmoved
<1>7. CASE \E q \in WaitQueue, t \in Thread : Pushed(q, t)
  <2>1. PICK q \in WaitQueue, t \in Thread : Pushed(q, t)
    BY <1>7
  <2>2. \A r \in WaitQueue : \A n \in 1 .. size[r] : n \in 1 .. size'[r] /\ Nth(r, n)' = Nth(r, n)
    BY <1>2, <2>1 DEF Pushed, Linked, SameThreads
  <2>3. \E n \in 1 .. size'[q] : Nth(q, n)' = t
    <3>1. size[q] + 1 \in 1 .. size'[q]
      BY <1>2, <2>1 DEF Pushed, Linked
    <3>2. PICK n \in 1 .. size'[q] : n = size[q] + 1
      BY <3>1
    <3> QED BY <2>1, <3>2 DEF Pushed, Linked
  <2>4. \A u : ~InSomeQueue(u)' => u # t /\ ~InSomeQueue(u)
    <3> HIDE DEF inArray
    <3> QED BY <1>3, <1>4, <2>2, <2>3
  <2>5. in_or_not' = [in_or_not EXCEPT ![t] = 1] /\ \A n \in 1 .. count : Entry(n) # t
    BY <1>3, <2>1 DEF Pushed
  <2> QED BY <1>1, <1>5, <2>4, <2>5
<1>8. CASE \E q \in WaitQueue : \E k \in 1 .. size[q] : TakenOff(q, k)
  <2>1. PICK q \in WaitQueue : \E k \in 1 .. size[q] : TakenOff(q, k)
    BY <1>8
  <2>2. PICK k \in 1 .. size[q] : TakenOff(q, k)
    BY <2>1
  <2>3. \A r \in WaitQueue : \A n \in 1 .. size[r] :
          \/ r = q /\ n = k
          \/ \E m \in 1 .. size'[r] : Nth(r, m)' = Nth(r, n)
    <3> SUFFICES ASSUME NEW r \in WaitQueue, NEW n \in 1 .. size[r], ~(r = q /\ n = k)
                 PROVE  \E m \in 1 .. size'[r] : Nth(r, m)' = Nth(r, n)
      OBVIOUS
    <3>1. CASE r # q
      BY <2>2, <3>1 DEF TakenOff, SameThreads
    <3>2. CASE r = q /\ n < k
      <4>1. n \in 1 .. size[q] - 1 /\ size'[q] = size[q] - 1
        BY <1>2, <2>2, <3>2 DEF TakenOff, Unlinked
      <4> QED BY <2>2, <3>2, <4>1 DEF TakenOff, Unlinked
    <3>3. CASE r = q /\ n > k
      <4>1. /\ n - 1 \in 1 .. size[q] - 1 /\ size'[q] = size[q] - 1
            /\ ~(n - 1 < k) /\ (n - 1) + 1 = n
        BY <1>2, <2>2, <3>3 DEF TakenOff, Unlinked
      <4>2. Nth(q, n - 1)' = Nth(q, n)
        BY <2>2, <4>1 DEF TakenOff, Unlinked
      <4> QED BY <3>3, <4>1, <4>2
    <3> QED BY <1>2, <3>1, <3>2, <3>3
  <2>4. \A u : ~InSomeQueue(u)' => u = Nth(q, k) \/ ~InSomeQueue(u)
    <3> HIDE DEF inArray
    <3> QED BY <1>3, <1>4, <2>3
  <2>5. in_or_not' = [in_or_not EXCEPT ![Nth(q, k)] = 0]
    BY <2>2 DEF TakenOff
  <2>6. \A u \in Thread : in_or_not'[u] = in_or_not[u] \/ in_or_not'[u] = 0
    BY <1>1, <2>5
  <2>7. ASSUME policy = "rand", NEW n \in 1 .. count PROVE in_or_not'[Entry(n)] = 0
    <3>1. in_or_not[Entry(n)] = 0 /\ Entry(n) \in Thread
      BY <1>5, <2>7 DEF ArrayOK
    <3> QED BY <1>1, <2>5, <3>1
  <2>8. \A u \in Thread : ~InSomeQueue(u)' => in_or_not'[u] = 0
    BY <1>1, <1>5, <2>4, <2>5, <2>6
  <2> QED BY <2>7, <2>8
<1> QED BY <1>6, <1>7, <1>8, ListEffects

LEMMA QueueStep == QueueInv /\ [Next]_vars => QueueInv'
<1> SUFFICES ASSUME QueueInv, [Next]_vars PROVE QueueInv'
  OBVIOUS
<1>1. TypeOK /\ ArrayOK /\ ListsOK /\ FlagsOK
  BY DEF QueueInv
<1>2. CASE ArrayCall
  <2>1. TypeOK' /\ ArrayOK' /\ FlagsOK'
    BY <1>1, <1>2, TypeArray, ArrayOKArray, FlagsOKArray
  <2>2. ListsOK'
    BY <1>1, <1>2, ArrayCallKeeps DEF ListsOK, WellLinked, Nth, listVars
  <2> QED BY <2>1, <2>2 DEF QueueInv
<1>3. CASE ListCall
  <2>1. TypeOK' /\ ListsOK' /\ FlagsOK'
    BY <1>1, <1>3, TypeList, ListsOKList, FlagsOKList
  <2>2. ArrayOK'
    BY <1>1, <1>3, ListCallKeeps DEF ArrayOK, At, arrayVars
  <2> QED BY <2>1, <2>2 DEF QueueInv
<1>4. CASE UNCHANGED vars
  BY <1>1, <1>4 DEF vars, arrayVars, listVars, QueueInv, TypeOK, ArrayOK, ListsOK, FlagsOK,
     WellLinked, PushNeverAsserts, InSomeQueue, ArraySeq, ArraySet, Entry, Nth, Wrapped, At
<1> QED BY <1>2, <1>3, <1>4 DEF Next, ArrayCall, ListCall

(* The entries of the ready queue are threads, each one once, and start is *)
(* where the next one goes; the links of each list lead through its        *)
(* threads and back, each in one list and once; flags are down outside.    *)
THEOREM QueueInvariant == Spec => []QueueInv
  BY QueueInit, QueueStep, PTL DEF Spec

(* The indices of fcfs.c and the counters of fcfs.c, rand.c and queue.c    *)
(* never leave the array and the capacity of a list.                       *)
THEOREM QueueTypes == Spec => []TypeOK
<1>1. QueueInv => TypeOK
  BY DEF QueueInv
<1> QED BY <1>1, QueueInvariant, PTL

(* The assertion of queue_push holds at every call thread.c makes.         *)
THEOREM PushIsSafe == Spec => []PushNeverAsserts
<1>1. QueueInv => PushNeverAsserts
  BY DEF QueueInv, FlagsOK
<1> QED BY <1>1, QueueInvariant, PTL

(* No call of queue.c leaves a link that disagrees with its neighbour's.   *)
THEOREM LinksAgree == Spec => []ListsWellLinked
<1>1. QueueInv => ListsWellLinked
  BY DEF QueueInv, ListsOK, WellLinked, ListsWellLinked, TypeOK
<1> QED BY <1>1, QueueInvariant, PTL

-----------------------------------------------------------------------------
(* The calls are the calls of AbstractQueues.                              *)

Ready == IF policy = "fcfs" THEN ArraySeq ELSE ArraySet
Waiting == [q \in WaitQueue |-> ListSeq(q)]

LEMMA SameOperators ==
  ASSUME NEW s, NEW e
  PROVE  Abstract!RemoveFirst(s, e) = RemoveFirst(s, e) /\ Abstract!ToSet(s) = ToSet(s)
  BY DEF Abstract!RemoveFirst, RemoveFirst, Abstract!ToSet, ToSet, Abstract!RemoveAt, RemoveAt,
     Abstract!SelectInSeq, SelectInSeq, Abstract!Min, Min

(* What the mapped sequences and sets hold.                                *)
LEMMA ReadyIs ==
  ASSUME TypeOK, ArrayOK
  PROVE  /\ policy = "fcfs" => /\ Ready \in Seq(Thread) /\ Len(Ready) = count
                               /\ IsInjective(Ready)
                               /\ \A n \in 1 .. count : Ready[n] = Entry(n)
         /\ policy = "rand" => Ready = {Entry(n) : n \in 1 .. count}
         /\ \A u : u \in Abstract!ReadySet <=> \E n \in 1 .. count : Entry(n) = u
<1>1. count \in Nat /\ policy \in {"fcfs", "rand"}
  BY Indices
<1>2. /\ \A n \in 1 .. count : Entry(n) \in Thread
      /\ \A n, m \in 1 .. count : Entry(n) = Entry(m) => n = m
  BY DEF ArrayOK
<1>3. ASSUME policy = "fcfs"
      PROVE  /\ Ready \in Seq(Thread) /\ Len(Ready) = count
             /\ IsInjective(Ready)
             /\ \A n \in 1 .. count : Ready[n] = Entry(n)
  <2>1. Ready = [n \in 1 .. count |-> Entry(n)]
    BY <1>3, ArrayIs DEF Ready
  <2>2. Ready \in Seq(Thread) /\ Len(Ready) = count /\ DOMAIN Ready = 1 .. count
    BY <1>1, <1>2, <2>1
  <2> QED BY <1>2, <2>1, <2>2 DEF IsInjective
<1>4. ASSUME policy = "rand" PROVE Ready = {Entry(n) : n \in 1 .. count}
  BY <1>4, ArrayIs DEF Ready
<1>5. Abstract!ReadySet = IF policy = "fcfs" THEN ToSet(Ready) ELSE Ready
  BY SameOperators DEF Abstract!ReadySet, Ready
<1>6. policy = "fcfs" => \A u : u \in ToSet(Ready) <=> \E n \in 1 .. count : Entry(n) = u
  BY <1>1, <1>3 DEF ToSet
<1> QED BY <1>1, <1>3, <1>4, <1>5, <1>6

LEMMA WaitingIs ==
  ASSUME TypeOK, ListsOK, NEW q \in WaitQueue
  PROVE  /\ Waiting[q] \in Seq(Thread) /\ Len(Waiting[q]) = size[q] /\ IsInjective(Waiting[q])
         /\ \A n \in 1 .. size[q] : Waiting[q][n] = Nth(q, n)
         /\ \A u : u \in ToSet(Waiting[q]) <=> \E n \in 1 .. size[q] : Nth(q, n) = u
<1>1. size[q] \in Nat
  BY Links
<1>2. /\ \A n \in 1 .. size[q] : Nth(q, n) \in Thread
      /\ \A n, m \in 1 .. size[q] : Nth(q, n) = Nth(q, m) => n = m
  BY ListFacts
<1> DEFINE w == Waiting[q]
<1>3. w = [n \in 1 .. size[q] |-> Nth(q, n)]
  BY DEF Waiting, ListSeq
<1> HIDE DEF w
<1>4. w \in Seq(Thread) /\ Len(w) = size[q] /\ DOMAIN w = 1 .. size[q]
      /\ \A n \in 1 .. size[q] : w[n] = Nth(q, n)
  BY <1>1, <1>2, <1>3
<1>5. IsInjective(w) /\ \A u : u \in ToSet(w) <=> \E n \in 1 .. size[q] : Nth(q, n) = u
  BY <1>2, <1>4 DEF IsInjective, ToSet
<1> QED BY <1>4, <1>5 DEF w

LEMMA ReadyIsNext ==
  (TypeOK /\ ArrayOK =>
     /\ policy = "fcfs" => /\ Ready \in Seq(Thread) /\ Len(Ready) = count
                           /\ \A n \in 1 .. count : Ready[n] = Entry(n)
     /\ policy = "rand" => Ready = {Entry(n) : n \in 1 .. count})'
<1>1. TypeOK /\ ArrayOK =>
     /\ policy = "fcfs" => /\ Ready \in Seq(Thread) /\ Len(Ready) = count
                           /\ \A n \in 1 .. count : Ready[n] = Entry(n)
     /\ policy = "rand" => Ready = {Entry(n) : n \in 1 .. count}
  BY ReadyIs
<1> QED BY <1>1, PTL

LEMMA WaitingIsNext ==
  (TypeOK /\ ListsOK => \A q \in WaitQueue :
     /\ Waiting[q] \in Seq(Thread) /\ Len(Waiting[q]) = size[q]
     /\ \A n \in 1 .. size[q] : Waiting[q][n] = Nth(q, n))'
<1>1. TypeOK /\ ListsOK => \A q \in WaitQueue :
     /\ Waiting[q] \in Seq(Thread) /\ Len(Waiting[q]) = size[q]
     /\ \A n \in 1 .. size[q] : Waiting[q][n] = Nth(q, n)
  BY WaitingIs
<1> QED BY <1>1, PTL

LEMMA QueuedAgrees ==
  ASSUME TypeOK, ArrayOK, ListsOK, NEW t
  PROVE  Abstract!Queued(t) <=> InSomeQueue(t)
<1>1. Abstract!Queued(t) <=>
        t \in Abstract!ReadySet \/ \E q \in WaitQueue : t \in ToSet(Waiting[q])
  BY SameOperators DEF Abstract!Queued, Waiting
<1> QED BY <1>1, ReadyIs, WaitingIs, QueuedIs

LEMMA SameWaiting ==
  ASSUME ArrayCall
  PROVE  Waiting' = Waiting /\ policy' = policy
<1>1. \A q \in WaitQueue : size'[q] = size[q]
  BY ArrayCallKeeps DEF listVars
<1>2. \A q \in WaitQueue : ListSeq(q)' = ListSeq(q)
  BY <1>1, ArrayCallKeeps DEF ListSeq
<1> QED BY <1>2, ArrayCallKeeps DEF Waiting

LEMMA SameReady ==
  ASSUME ListCall
  PROVE  Ready' = Ready /\ policy' = policy
  BY ListCallKeeps DEF Ready, ArraySeq, ArraySet, arrayVars

(* The scheduler's calls, one by one.                                      *)
LEMMA EnqueueRefines ==
  ASSUME TypeOK, ArrayOK, ListsOK, NEW t \in Thread, fcfs_enqueue(t) \/ rand_enqueue(t)
  PROVE  Abstract!Enqueue(t)
<1>1. ArrayCall /\ ~InSomeQueue(t) /\ ret' = 0
  BY DEF ArrayCall, fcfs_enqueue, rand_enqueue
<1>2. /\ count' = count + 1 /\ \A n \in 1 .. count : Entry(n)' = Entry(n)
      /\ Entry(count)' = t
  BY EnqueueEntries
<1>3. TypeOK' /\ ArrayOK' /\ Waiting' = Waiting /\ policy' = policy
      /\ count \in Nat /\ policy \in {"fcfs", "rand"}
  BY <1>1, TypeArray, ArrayOKArray, SameWaiting, Indices
<1>4. \A n \in 1 .. count + 1 : Entry(n)' = IF n = count + 1 THEN t ELSE Entry(n)
  <2>1. \A n : n = count + 1 => Entry(n)' = t
    BY <1>2 DEF Entry
  <2>2. \A n \in 1 .. count + 1 : n # count + 1 => n \in 1 .. count
    BY <1>3
  <2> QED BY <1>2, <2>1, <2>2
<1>5. Ready' = IF policy = "fcfs" THEN Append(Ready, t) ELSE Ready \cup {t}
  <2>1. CASE policy = "fcfs"
    <3> DEFINE a == Append(Ready, t)
               b == Ready'
    <3>1. Ready \in Seq(Thread) /\ Len(Ready) = count /\ \A n \in 1 .. count : Ready[n] = Entry(n)
      BY <2>1, ReadyIs
    <3>2. /\ b \in Seq(Thread) /\ Len(b) = count + 1 /\ \A n \in 1 .. count + 1 : b[n] = Entry(n)'
      BY <1>2, <1>3, <2>1, ReadyIsNext
    <3>3. /\ a \in Seq(Thread) /\ Len(a) = count + 1
          /\ (\A n \in 1 .. count : a[n] = Ready[n]) /\ a[count + 1] = t
      BY <3>1, AppendProperties
    <3> HIDE DEF a, b
    <3>4. \A n \in 1 .. count + 1 : n # count + 1 => n \in 1 .. count
      BY <1>3
    <3>5. \A n \in 1 .. count + 1 : b[n] = a[n]
      BY <1>4, <3>1, <3>2, <3>3, <3>4
    <3>6. b = a
      BY <3>2, <3>3, <3>5, SamePlaces
    <3> QED BY <2>1, <3>6 DEF a, b
  <2>2. CASE policy = "rand"
    <3>1. Ready = {Entry(n) : n \in 1 .. count} /\ Ready' = {Entry(n)' : n \in 1 .. count + 1}
      BY <1>2, <1>3, <2>2, ReadyIs, ReadyIsNext
    <3>2. /\ \A n \in 1 .. count : n \in 1 .. count + 1 /\ n # count + 1
          /\ \A n \in 1 .. count + 1 : n # count + 1 => n \in 1 .. count
          /\ count + 1 \in 1 .. count + 1
      BY <1>3
    <3>3. Ready' = Ready \cup {t}
      BY <1>4, <3>1, <3>2
    <3> QED BY <2>2, <3>3
  <2> QED BY <1>3, <2>1, <2>2
<1>6. ~Abstract!Queued(t)
  BY <1>1, QueuedAgrees
<1> QED BY <1>1, <1>3, <1>5, <1>6 DEF Abstract!Enqueue, Ready, Waiting

LEMMA LeavesRefines ==
  ASSUME TypeOK, ArrayOK, ArrayCall, NEW p \in 1 .. count, Left(p) \/ Replaced(p)
  PROVE  Abstract!Leaves(Entry(p))
<1>1. TypeOK' /\ ArrayOK' /\ Waiting' = Waiting /\ policy' = policy
      /\ count \in Nat /\ policy \in {"fcfs", "rand"} /\ ret' = Entry(p) /\ count' = count - 1
  BY TypeArray, ArrayOKArray, SameWaiting, Indices DEF Left, Replaced, MovedUp
<1>2. CASE policy = "fcfs"
  <2> DEFINE s == Ready
             a == RemoveFirst(s, s[p])
             b == Ready'
  <2>1. /\ s \in Seq(Thread) /\ Len(s) = count /\ IsInjective(s)
        /\ \A n \in 1 .. count : s[n] = Entry(n)
    BY <1>2, ReadyIs
  <2>2. b \in Seq(Thread) /\ Len(b) = count - 1 /\ \A n \in 1 .. count - 1 : b[n] = Entry(n)'
    BY <1>1, <1>2, ReadyIsNext
  <2>3. \A n \in 1 .. count - 1 : Entry(n)' = IF n < p THEN Entry(n) ELSE Entry(n + 1)
    BY <1>2 DEF Left, Replaced, MovedUp
  <2> HIDE DEF s
  <2>4. /\ a \in Seq(Thread) /\ Len(a) = count - 1
        /\ \A n \in 1 .. count - 1 : a[n] = IF n < p THEN s[n] ELSE s[n + 1]
    BY <2>1, RemovedPlace
  <2> HIDE DEF a, b
  <2>5. \A n \in 1 .. count - 1 : n \in 1 .. count /\ n + 1 \in 1 .. count
    BY <1>1
  <2>6. \A n \in 1 .. count - 1 : a[n] = b[n]
    BY <2>1, <2>2, <2>3, <2>4, <2>5
  <2>7. b = a
    BY <2>2, <2>4, <2>6, SamePlaces
  <2>8. Ready' = RemoveFirst(Ready, Entry(p))
    BY <2>1, <2>7 DEF a, b, s
  <2>9. Entry(p) \in Abstract!ReadySet
    BY ReadyIs
  <2> QED BY <1>1, <1>2, <2>8, <2>9, SameOperators DEF Abstract!Leaves, Ready, Waiting
<1>3. CASE policy = "rand"
  <2>1. Ready = {Entry(n) : n \in 1 .. count} /\ Ready' = {Entry(n)' : n \in 1 .. count - 1}
    BY <1>1, <1>3, ReadyIs, ReadyIsNext
  <2>2. \A n \in 1 .. count - 1 : Entry(n)' = Entry(IF n = p THEN count ELSE n)
    BY <1>3 DEF Left, Replaced
  <2>3. \A n, m \in 1 .. count : Entry(n) = Entry(m) => n = m
    BY DEF ArrayOK
  <2>4. Ready' = Ready \ {Entry(p)}
    <3>1. \A n \in 1 .. count - 1 : n \in 1 .. count /\ n # count /\ count \in 1 .. count
      BY <1>1
    <3>2. \A n \in 1 .. count - 1 : Entry(n)' \in Ready /\ Entry(n)' # Entry(p)
      <4> SUFFICES ASSUME NEW n \in 1 .. count - 1
                   PROVE  Entry(n)' \in Ready /\ Entry(n)' # Entry(p)
        OBVIOUS
      <4>1. CASE n = p
        <5>1. Entry(n)' = Entry(count) /\ count # p /\ count \in 1 .. count
          BY <2>2, <3>1, <4>1
        <5> QED BY <2>1, <2>3, <5>1
      <4>2. CASE n # p
        <5>1. Entry(n)' = Entry(n) /\ n \in 1 .. count
          BY <2>2, <3>1, <4>2
        <5> QED BY <2>1, <2>3, <4>2, <5>1
      <4> QED BY <4>1, <4>2
    <3>3. ASSUME NEW n \in 1 .. count, n # p PROVE Entry(n) \in Ready'
      <4>1. CASE n = count
        <5>1. p \in 1 .. count - 1 /\ Entry(p)' = Entry(n)
          BY <1>1, <2>2, <3>3, <4>1
        <5> QED BY <2>1, <5>1
      <4>2. CASE n # count
        <5>1. n \in 1 .. count - 1 /\ Entry(n)' = Entry(n)
          BY <1>1, <2>2, <3>3, <4>2
        <5> QED BY <2>1, <5>1
      <4> QED BY <4>1, <4>2
    <3> QED BY <2>1, <3>2, <3>3
  <2>5. Entry(p) \in Abstract!ReadySet
    BY ReadyIs
  <2> QED BY <1>1, <1>3, <2>4, <2>5, SameOperators DEF Abstract!Leaves, Ready, Waiting
<1> QED BY <1>1, <1>2, <1>3

LEMMA DequeueRefines ==
  ASSUME TypeOK, ArrayOK, fcfs_dequeue \/ rand_dequeue
  PROVE  Abstract!Dequeue
<1>0. ArrayCall /\ \A n \in 1 .. count : Entry(n) \in Thread
  BY DEF ArrayCall, ArrayOK
<1>1. CASE fcfs_dequeue
  <2>1. 1 \in 1 .. count /\ Left(1) /\ policy = "fcfs"
    BY <1>1, DequeueEntries DEF Left
  <2>2. Abstract!Leaves(Entry(1))
    BY <1>0, <2>1, LeavesRefines
  <2>3. Entry(1) = Head(Ready)
    <3>1. Ready \in Seq(Thread) /\ Len(Ready) = count /\ Ready[1] = Entry(1)
      BY <2>1, ReadyIs
    <3> QED BY <2>1, <3>1
  <2> QED BY <1>0, <2>1, <2>2, <2>3 DEF Abstract!Dequeue, Ready
<1>2. CASE rand_dequeue
  <2>1. PICK i \in 0 .. count - 1 : TakeOut(i)
    BY <1>2 DEF rand_dequeue
  <2>2. policy = "rand"
    BY <1>2 DEF rand_dequeue
  <2>3. PICK p \in 1 .. count : Replaced(p)
    BY <2>1, <2>2, TakenOut DEF Replaced
  <2>4. Abstract!Leaves(Entry(p)) /\ Entry(p) \in Thread
    BY <1>0, <2>3, LeavesRefines
  <2> QED BY <2>2, <2>4 DEF Abstract!Dequeue
<1> QED BY <1>1, <1>2

LEMMA RemoveRefines ==
  ASSUME TypeOK, ArrayOK, NEW t \in Thread, fcfs_remove(t) \/ rand_remove(t)
  PROVE  Abstract!RemoveReady(t)
<1>0. ArrayCall
  BY DEF ArrayCall
<1>1. CASE fcfs_remove(t)
  <2>1. PICK p \in 1 .. count : Left(p) /\ t = Entry(p)
    BY <1>1, RemoveEntries DEF Left
  <2> QED BY <1>0, <2>1, LeavesRefines DEF Abstract!RemoveReady
<1>2. CASE rand_remove(t)
  <2>1. PICK i \in 0 .. count - 1 : slots[i] = t /\ TakeOut(i)
    BY <1>2 DEF rand_remove
  <2>2. policy = "rand"
    BY <1>2 DEF rand_remove
  <2>3. PICK p \in 1 .. count : Replaced(p) /\ t = Entry(p)
    BY <2>1, <2>2, TakenOut DEF Replaced
  <2> QED BY <1>0, <2>3, LeavesRefines DEF Abstract!RemoveReady
<1> QED BY <1>1, <1>2

LEMMA NothingRefines ==
  ASSUME TypeOK, ArrayOK, dequeue_nothing
  PROVE  Abstract!DequeueNothing
<1>1. count \in Nat /\ count <= 0 /\ ret' = Null /\ UNCHANGED <<policy, arrayVars, listVars>>
  BY Indices DEF dequeue_nothing
<1>2. \A n \in 1 .. count : FALSE
  BY <1>1
<1>3. Abstract!ReadySet = {}
  BY <1>2, ReadyIs
<1>4. Ready' = Ready /\ Waiting' = Waiting
  BY <1>1 DEF Ready, Waiting, ArraySeq, ArraySet, ListSeq, Nth, arrayVars, listVars
<1> QED BY <1>1, <1>3, <1>4 DEF Abstract!DequeueNothing, Ready, Waiting

(* The calls of queue.c, one by one.                                       *)
LEMMA PushRefines ==
  ASSUME TypeOK, ArrayOK, ListsOK, NEW q \in WaitQueue, NEW t \in Thread, queue_push(q, t)
  PROVE  Abstract!Push(q, t)
<1>1. ListCall /\ ~InSomeQueue(t) /\ ret' = 0
  BY DEF ListCall, queue_push
<1>2. Linked(q, t) /\ \A r \in WaitQueue : r # q => SameThreads(r)
  BY PushLinks
<1>3. TypeOK' /\ ListsOK' /\ Ready' = Ready /\ policy' = policy
      /\ size[q] \in Nat /\ ~Abstract!Queued(t)
  BY <1>1, TypeList, ListsOKList, SameReady, Links, QueuedAgrees
<1> DEFINE w == Waiting
           z == Waiting'
           a == Append(w[q], t)
<1>4. \A r \in WaitQueue : /\ w[r] \in Seq(Thread) /\ Len(w[r]) = size[r]
                           /\ \A n \in 1 .. size[r] : w[r][n] = Nth(r, n)
  BY WaitingIs
<1>5. \A r \in WaitQueue : /\ z[r] \in Seq(Thread) /\ Len(z[r]) = size'[r]
                           /\ \A n \in 1 .. size'[r] : z[r][n] = Nth(r, n)'
  BY <1>3, WaitingIsNext
<1>6. w = [r \in WaitQueue |-> w[r]] /\ z = [r \in WaitQueue |-> z[r]]
  BY DEF Waiting
<1> HIDE DEF w, z
<1>7. /\ a \in Seq(Thread) /\ Len(a) = size[q] + 1
      /\ (\A n \in 1 .. size[q] : a[n] = w[q][n]) /\ a[size[q] + 1] = t
  BY <1>4, AppendProperties
<1> HIDE DEF a
<1>8. z[q] = a
  <2>1. \A n \in 1 .. size[q] + 1 : n # size[q] + 1 => n \in 1 .. size[q]
    BY <1>3
  <2>2. Len(z[q]) = size[q] + 1 /\ \A n \in 1 .. size[q] + 1 : z[q][n] = a[n]
    BY <1>2, <1>4, <1>5, <1>7, <2>1 DEF Linked
  <2> QED BY <1>5, <1>7, <2>2, SamePlaces
<1>9. ASSUME NEW r \in WaitQueue, r # q PROVE z[r] = w[r]
  <2>1. Len(z[r]) = Len(w[r]) /\ \A n \in 1 .. Len(z[r]) : z[r][n] = w[r][n]
    BY <1>2, <1>4, <1>5, <1>9 DEF SameThreads
  <2> QED BY <1>4, <1>5, <2>1, SamePlaces
<1>10. z = [w EXCEPT ![q] = a]
  BY <1>6, <1>8, <1>9
<1>11. Waiting' = [Waiting EXCEPT ![q] = Append(@, t)]
  BY <1>10 DEF w, z, a
<1> QED BY <1>1, <1>3, <1>11 DEF Abstract!Push, Ready, Waiting

(* A list without its k-th thread.                                         *)
LEMMA UnlinkRefines ==
  ASSUME TypeOK, ListsOK, ListCall, NEW q \in WaitQueue, NEW k \in 1 .. size[q], TakenOff(q, k)
  PROVE  /\ Waiting' = [Waiting EXCEPT ![q] = RemoveFirst(@, Nth(q, k))]
         /\ k = 1 => Waiting' = [Waiting EXCEPT ![q] = Tail(@)]
         /\ Nth(q, k) \in ToSet(Waiting[q]) /\ Waiting[q] # <<>>
         /\ Head(Waiting[q]) = Nth(q, 1)
<1>1. /\ Unlinked(q, k) /\ \A r \in WaitQueue : r # q => SameThreads(r)
      /\ TypeOK' /\ ListsOK' /\ size[q] \in Nat
  BY TypeList, ListsOKList, Links DEF TakenOff
<1> DEFINE w == Waiting
           z == Waiting'
           s == w[q]
           a == RemoveFirst(s, s[k])
           b == Tail(s)
<1>2. \A r \in WaitQueue : /\ w[r] \in Seq(Thread) /\ Len(w[r]) = size[r] /\ IsInjective(w[r])
                           /\ \A n \in 1 .. size[r] : w[r][n] = Nth(r, n)
  BY WaitingIs
<1>3. \A r \in WaitQueue : /\ z[r] \in Seq(Thread) /\ Len(z[r]) = size'[r]
                           /\ \A n \in 1 .. size'[r] : z[r][n] = Nth(r, n)'
  BY <1>1, WaitingIsNext
<1>4. w = [r \in WaitQueue |-> w[r]] /\ z = [r \in WaitQueue |-> z[r]]
  BY DEF Waiting
<1>5. Nth(q, k) \in ToSet(Waiting[q])
  BY WaitingIs
<1> HIDE DEF w, z, s
<1>6. /\ s \in Seq(Thread) /\ Len(s) = size[q] /\ IsInjective(s) /\ s = w[q]
      /\ \A n \in 1 .. size[q] : s[n] = Nth(q, n)
  BY <1>2 DEF s
<1>7. /\ a \in Seq(Thread) /\ Len(a) = size[q] - 1
      /\ \A n \in 1 .. size[q] - 1 : a[n] = IF n < k THEN s[n] ELSE s[n + 1]
  <2>1. k \in 1 .. Len(s) /\ Len(s) = size[q] /\ s \in Seq(Thread) /\ IsInjective(s)
    BY <1>6
  <2>2. /\ a \in Seq(Thread) /\ Len(a) = Len(s) - 1
        /\ \A n \in 1 .. Len(s) - 1 : a[n] = IF n < k THEN s[n] ELSE s[n + 1]
    BY <2>1, RemovedPlace
  <2> QED BY <2>1, <2>2
<1>8. s # <<>> /\ 1 \in 1 .. size[q] /\ Head(s) = Nth(q, 1)
  <2>1. 1 \in 1 .. size[q]
    BY <1>1
  <2> QED BY <1>6, <2>1
<1>9. /\ b \in Seq(Thread) /\ Len(b) = size[q] - 1
      /\ \A n \in 1 .. size[q] - 1 : b[n] = s[n + 1]
  BY <1>6, <1>8, HeadTailProperties
<1>10. Len(z[q]) = size[q] - 1
       /\ \A n \in 1 .. size[q] - 1 : z[q][n] = IF n < k THEN s[n] ELSE s[n + 1]
  <2>1. \A n \in 1 .. size[q] - 1 : n \in 1 .. size[q] /\ n + 1 \in 1 .. size[q]
    BY <1>1
  <2> QED BY <1>1, <1>3, <1>6, <2>1 DEF Unlinked
<1> HIDE DEF a, b
<1>11. z[q] = a
  <2>1. \A n \in 1 .. size[q] - 1 : z[q][n] = a[n]
    BY <1>7, <1>10
  <2> QED BY <1>3, <1>7, <1>10, <2>1, SamePlaces
<1>12. ASSUME k = 1 PROVE z[q] = b
  <2>1. \A n \in 1 .. size[q] - 1 : z[q][n] = b[n]
    BY <1>9, <1>10, <1>12
  <2> QED BY <1>3, <1>9, <1>10, <2>1, SamePlaces
<1>13. ASSUME NEW r \in WaitQueue, r # q PROVE z[r] = w[r]
  <2>1. Len(z[r]) = Len(w[r]) /\ \A n \in 1 .. Len(z[r]) : z[r][n] = w[r][n]
    BY <1>1, <1>2, <1>3, <1>13 DEF SameThreads
  <2>2. z[r] \in Seq(Thread) /\ w[r] \in Seq(Thread)
    BY <1>2, <1>3
  <2> QED BY <2>1, <2>2, SamePlaces
<1>14. z = [w EXCEPT ![q] = a] /\ (k = 1 => z = [w EXCEPT ![q] = b])
  BY <1>4, <1>11, <1>12, <1>13
<1>15. a = RemoveFirst(w[q], Nth(q, k)) /\ b = Tail(w[q])
  BY <1>6 DEF a, b
<1> QED BY <1>5, <1>8, <1>14, <1>15 DEF w, z, s

LEMMA PopRefines ==
  ASSUME TypeOK, ListsOK, NEW q \in WaitQueue, queue_pop(q)
  PROVE  Abstract!Pop(q)
<1>1. ListCall
  BY DEF ListCall
<1>2. 1 \in 1 .. size[q] /\ TakenOff(q, 1) /\ ret' = Nth(q, 1)
  BY PopLinks DEF TakenOff
<1>3. /\ Waiting' = [Waiting EXCEPT ![q] = Tail(@)] /\ Waiting[q] # <<>>
      /\ Head(Waiting[q]) = Nth(q, 1)
  BY <1>1, <1>2, UnlinkRefines
<1>4. Ready' = Ready /\ policy' = policy
  BY <1>1, SameReady
<1> QED BY <1>2, <1>3, <1>4 DEF Abstract!Pop, Ready, Waiting

LEMMA TakeRefines ==
  ASSUME TypeOK, ListsOK, NEW q \in WaitQueue, NEW t \in Thread, queue_remove(q, t)
  PROVE  Abstract!RemoveFrom(q, t)
<1>1. ListCall
  BY DEF ListCall
<1>2. PICK k \in 1 .. size[q] : TakenOff(q, k) /\ ret' = t /\ Nth(q, k) = t
  BY RemoveLinks DEF TakenOff
<1>3. /\ Waiting' = [Waiting EXCEPT ![q] = RemoveFirst(@, t)] /\ t \in ToSet(Waiting[q])
  BY <1>1, <1>2, UnlinkRefines
<1>4. Ready' = Ready /\ policy' = policy
  BY <1>1, SameReady
<1> QED BY <1>2, <1>3, <1>4, SameOperators DEF Abstract!RemoveFrom, Ready, Waiting

(* queue_create and queue_destroy are not seen.                            *)
LEMMA QuietRefines ==
  ASSUME TypeOK, ListsOK, NEW q \in WaitQueue, queue_create(q) \/ queue_destroy(q)
  PROVE  UNCHANGED Abstract!vars
<1>1. ListCall /\ ret' = ret
  BY DEF ListCall, queue_create, queue_destroy
<1>2. Ready' = Ready /\ policy' = policy
  BY <1>1, SameReady
<1>3. \A r \in WaitQueue : SameThreads(r)
  <2>1. size[q] = 0 /\ size' = size /\ next' = next
        /\ \A r \in WaitQueue : r # q => head'[r] = head[r]
    <3>1. size \in [WaitQueue -> 0 .. Capacity] /\ head \in [WaitQueue -> Thread \cup {Null}]
          /\ \A r \in WaitQueue : r \notin created => size[r] = 0
      BY DEF TypeOK, ListsOK
    <3> QED BY <3>1 DEF queue_create, queue_destroy
  <2>2. \A r \in WaitQueue : r # q => \A n : Nth(r, n)' = Nth(r, n)
    BY <2>1 DEF Nth
  <2>3. \A n \in 1 .. size[q] : FALSE
    BY <2>1
  <2> QED BY <2>1, <2>2, <2>3 DEF SameThreads
<1>4. Waiting' = Waiting
  <2>1. \A r \in WaitQueue : ListSeq(r)' = ListSeq(r)
    BY <1>3 DEF ListSeq, SameThreads
  <2> QED BY <2>1 DEF Waiting
<1> QED BY <1>1, <1>2, <1>4 DEF Abstract!vars, Ready, Waiting

CallsMatch ==
  /\ fcfs_dequeue \/ rand_dequeue => Abstract!Dequeue
  /\ dequeue_nothing => Abstract!DequeueNothing
  /\ \A t \in Thread :
       /\ fcfs_enqueue(t) \/ rand_enqueue(t) => Abstract!Enqueue(t)
       /\ fcfs_remove(t) \/ rand_remove(t) => Abstract!RemoveReady(t)
  /\ \A q \in WaitQueue :
       /\ queue_create(q) \/ queue_destroy(q) => UNCHANGED Abstract!vars
       /\ queue_pop(q) => Abstract!Pop(q)
  /\ \A q \in WaitQueue, t \in Thread :
       /\ queue_push(q, t) => Abstract!Push(q, t)
       /\ queue_remove(q, t) => Abstract!RemoveFrom(q, t)

LEMMA CallMatches == QueueInv => CallsMatch
<1> SUFFICES ASSUME TypeOK, ArrayOK, ListsOK PROVE CallsMatch
  BY DEF QueueInv
<1>1. /\ fcfs_dequeue \/ rand_dequeue => Abstract!Dequeue
      /\ dequeue_nothing => Abstract!DequeueNothing
  BY DequeueRefines, NothingRefines
<1>2. ASSUME NEW t \in Thread
      PROVE  /\ fcfs_enqueue(t) \/ rand_enqueue(t) => Abstract!Enqueue(t)
             /\ fcfs_remove(t) \/ rand_remove(t) => Abstract!RemoveReady(t)
  BY EnqueueRefines, RemoveRefines
<1>3. ASSUME NEW q \in WaitQueue
      PROVE  /\ queue_create(q) \/ queue_destroy(q) => UNCHANGED Abstract!vars
             /\ queue_pop(q) => Abstract!Pop(q)
  BY QuietRefines, PopRefines
<1>4. ASSUME NEW q \in WaitQueue, NEW t \in Thread
      PROVE  /\ queue_push(q, t) => Abstract!Push(q, t)
             /\ queue_remove(q, t) => Abstract!RemoveFrom(q, t)
  BY PushRefines, TakeRefines
<1> QED BY <1>1, <1>2, <1>3, <1>4 DEF CallsMatch

LEMMA InitRefines == Init => Abstract!Init
<1> SUFFICES ASSUME Init PROVE Abstract!Init
  OBVIOUS
<1>1. QueueInv /\ count = 0 /\ ret = Null /\ \A q \in WaitQueue : size[q] = 0
  BY QueueInit DEF Init
<1>2. TypeOK /\ ArrayOK /\ ListsOK /\ policy \in {"fcfs", "rand"}
  BY <1>1 DEF QueueInv, TypeOK
<1>3. Ready = IF policy = "fcfs" THEN <<>> ELSE {}
  <2>1. policy = "fcfs" => Ready \in Seq(Thread) /\ Len(Ready) = 0
    BY <1>1, <1>2, ReadyIs
  <2>2. policy = "rand" => Ready = {Entry(n) : n \in 1 .. 0}
    BY <1>1, <1>2, ReadyIs
  <2> QED BY <1>2, <2>1, <2>2
<1>4. Waiting = [q \in WaitQueue |-> <<>>]
  <2>1. \A q \in WaitQueue : Waiting[q] \in Seq(Thread) /\ Len(Waiting[q]) = 0
    BY <1>1, <1>2, WaitingIs
  <2>2. \A q \in WaitQueue : Waiting[q] = <<>>
    BY <2>1
  <2> QED BY <2>2 DEF Waiting
<1> QED BY <1>1, <1>2, <1>3, <1>4 DEF Abstract!Init, Ready, Waiting

LEMMA StepRefines == QueueInv /\ [Next]_vars => [Abstract!Next]_(Abstract!vars)
<1> SUFFICES ASSUME QueueInv, [Next]_vars PROVE Abstract!Next \/ UNCHANGED Abstract!vars
  OBVIOUS
<1>1. CallsMatch
  BY CallMatches
<1>2. CASE UNCHANGED vars
  BY <1>2 DEF vars, arrayVars, listVars, Abstract!vars, ArraySeq, ArraySet, ListSeq, Nth
<1>3. CASE fcfs_dequeue \/ rand_dequeue \/ dequeue_nothing
  BY <1>1, <1>3 DEF CallsMatch, Abstract!Next
<1>4. ASSUME NEW t \in Thread,
             fcfs_enqueue(t) \/ fcfs_remove(t) \/ rand_enqueue(t) \/ rand_remove(t)
      PROVE  Abstract!Next
  BY <1>1, <1>4 DEF CallsMatch, Abstract!Next
<1>5. ASSUME NEW q \in WaitQueue, queue_create(q) \/ queue_destroy(q) \/ queue_pop(q)
      PROVE  Abstract!Next \/ UNCHANGED Abstract!vars
  BY <1>1, <1>5 DEF CallsMatch, Abstract!Next
<1>6. ASSUME NEW q \in WaitQueue, NEW t \in Thread, queue_push(q, t) \/ queue_remove(q, t)
      PROVE  Abstract!Next
  BY <1>1, <1>6 DEF CallsMatch, Abstract!Next
<1> QED BY <1>2, <1>3, <1>4, <1>5, <1>6 DEF Next

(* Each call of fcfs.c, rand.c and queue.c does to the sequence or the set *)
(* what the call of that name promises: fcfs_dequeue and queue_pop return  *)
(* the oldest thread, a remove returns the thread asked for and keeps the  *)
(* order of the others, and no call disturbs another container.            *)
THEOREM CallsAreAsPromised == Spec => [][CallsMatch]_vars
<1>1. QueueInv /\ [Next]_vars => [CallsMatch]_vars
  BY CallMatches
<1> QED BY <1>1, QueueInvariant, PTL DEF Spec

(* The arrays and the linked lists are the sequences of AbstractQueues,    *)
(* which is how thread.c is modelled to see them.                          *)
THEOREM QueuesAreSequences == Spec => ImplementsQueues
  BY InitRefines, StepRefines, QueueInvariant, PTL DEF Spec, ImplementsQueues, Abstract!Spec

=============================================================================
