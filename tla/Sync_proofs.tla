----------------------------- MODULE Sync_proofs -----------------------------
(***************************************************************************)
(* The invariant of module Sync and its proof: that of the threads, which  *)
(* the lock and condition variable calls keep, and what those calls add to *)
(* it.  Proved for every number of threads, locks and condition variables, *)
(* both schedulers, and, where it is not said otherwise, with thread_kill. *)
(***************************************************************************)
EXTENDS Sync, Threads_proofs

Alive(t) == state[t] \notin {"FREE", "ZOMBIE"}

(* Threads sleep in lock_acquire(l).                                       *)
Awaited(l) == \E t \in Tid : state[t] = "SLEEPING" /\ wait_queue[t] = LockQueue(l)

SyncTypes ==
  /\ holder \in [Locks -> Tid \cup {NoThread}]
  /\ locks \subseteq Locks /\ cvs \subseteq Cvs

(* The thread that holds a lock is its queue's owner, alive, not killed,   *)
(* and not inside a call that waits for this lock.                         *)
Holding ==
  \A l \in Locks : holder[l] # NoThread =>
    /\ l \in locks /\ owner[l] = holder[l]
    /\ Alive(holder[l]) /\ holder[l] \notin killed
    /\ cont[holder[l]] # InAcquire(l)
    /\ \A c \in Cvs : LockOf[c] = l => cont[holder[l]] # InCvWait(c)

(* A call uses a lock or cv that exists; a thread sleeps in the queue of   *)
(* the call it is in, and has a queue only while it sleeps.                *)
InCalls ==
  /\ \A c \in cvs : LockOf[c] \in locks
  /\ \A t \in Tid : Alive(t) =>
       /\ \A l \in Locks : cont[t] = InAcquire(l) => l \in locks
       /\ \A c \in Cvs : cont[t] \in {CvRelease(c), InCvWait(c)} => c \in cvs
  /\ \A t \in Tid : state[t] = "SLEEPING" =>
       /\ \A l \in Locks : wait_queue[t] = LockQueue(l) <=> cont[t] = InAcquire(l)
       /\ \A c \in Cvs : wait_queue[t] = CvQueue(c) <=> cont[t] = InCvWait(c)
  /\ \A t \in Tid : state[t] # "SLEEPING" => wait_queue[t] = NoQueue

(* Between the two halves of cv_wait nobody has the lock, and if threads   *)
(* still wait for it, the one just woken is ready.                         *)
Releasing ==
  \A t \in Tid, c \in Cvs : cont[t] = CvRelease(c) =>
    /\ cpu = "kernel" /\ t = current /\ holder[LockOf[c]] = NoThread
    /\ Awaited(LockOf[c]) => ready # <<>>

(* cv_wait leaves the owner of the lock's queue as it was.  As long as     *)
(* somebody waits in that queue for the free lock, that owner is still in  *)
(* its cv_wait.                                                            *)
StaleOwner ==
  \A l \in Locks : holder[l] = NoThread /\ owner[l] # NoThread /\ Awaited(l) =>
    /\ Alive(owner[l]) /\ owner[l] \notin killed
    /\ \E c \in Cvs :
         LockOf[c] = l /\ cont[owner[l]] \in {CvRelease(c), InCvWait(c)}

SyncInv ==
  /\ IInv /\ SyncTypes
  /\ cpu # "halted" => Holding /\ InCalls /\ Releasing /\ StaleOwner

-----------------------------------------------------------------------------
LockCont == {InAcquire(l) : l \in Locks} \cup {CvRelease(c) : c \in Cvs}
              \cup {InCvWait(c) : c \in Cvs}

LEMMA SyncNames ==
  /\ \A l \in Locks : LockQueue(l) \in Queue /\ InAcquire(l) \in LockCont
  /\ \A c \in Cvs : /\ CvQueue(c) \in Queue /\ LockOf[c] \in Locks
                    /\ CvRelease(c) \in LockCont /\ InCvWait(c) \in LockCont
  /\ LockCont \subseteq Cont /\ User \notin LockCont
  /\ \A t \in Tid : InWait(t) \notin LockCont
  /\ \A l \in Locks : LockQueue(l) # NoQueue /\ \A t \in Tid : LockQueue(l) # JoinQueue(t)
  /\ \A c \in Cvs : CvQueue(c) # NoQueue /\ \A t \in Tid : CvQueue(c) # JoinQueue(t)
  /\ \A l \in Locks, c \in Cvs :
       /\ LockQueue(l) # CvQueue(c) /\ InAcquire(l) # InCvWait(c)
       /\ InAcquire(l) # CvRelease(c)
  /\ \A c, d \in Cvs :
       /\ InCvWait(c) # CvRelease(d) /\ (CvQueue(c) = CvQueue(d) => c = d)
       /\ (InCvWait(c) = InCvWait(d) => c = d) /\ (CvRelease(c) = CvRelease(d) => c = d)
  /\ \A l, m \in Locks :
       (LockQueue(l) = LockQueue(m) => l = m) /\ (InAcquire(l) = InAcquire(m) => l = m)
<1>1. /\ \A l \in Locks : LockQueue(l) \in Queue /\ InAcquire(l) \in LockCont
      /\ \A c \in Cvs : /\ CvQueue(c) \in Queue /\ LockOf[c] \in Locks
                        /\ CvRelease(c) \in LockCont /\ InCvWait(c) \in LockCont
      /\ LockCont \subseteq Cont
  BY LockOfAssumption DEF Queue, LockCont, Cont
<1>2. User \notin LockCont /\ \A t \in Tid : InWait(t) \notin LockCont
  BY DEF User, InWait, LockCont, InAcquire, CvRelease, InCvWait
<1>3. /\ \A l \in Locks : LockQueue(l) # NoQueue /\ \A t \in Tid : LockQueue(l) # JoinQueue(t)
      /\ \A c \in Cvs : CvQueue(c) # NoQueue /\ \A t \in Tid : CvQueue(c) # JoinQueue(t)
      /\ \A l \in Locks, c \in Cvs : LockQueue(l) # CvQueue(c)
      /\ \A c, d \in Cvs : CvQueue(c) = CvQueue(d) => c = d
      /\ \A l, m \in Locks : LockQueue(l) = LockQueue(m) => l = m
  BY DEF LockQueue, CvQueue, JoinQueue, NoQueue
<1>4. /\ \A l \in Locks, c \in Cvs :
           InAcquire(l) # InCvWait(c) /\ InAcquire(l) # CvRelease(c)
      /\ \A c, d \in Cvs :
           /\ InCvWait(c) # CvRelease(d) /\ (InCvWait(c) = InCvWait(d) => c = d)
           /\ (CvRelease(c) = CvRelease(d) => c = d)
      /\ \A l, m \in Locks : InAcquire(l) = InAcquire(m) => l = m
  BY DEF InAcquire, InCvWait, CvRelease
<1> QED BY <1>1, <1>2, <1>3, <1>4

-----------------------------------------------------------------------------
(* The invariant of the threads under the lock and cv calls.               *)

(* thread_wakeup splits a queue into those it wakes and those it leaves.   *)
LEMMA WokenSplits ==
  ASSUME BaseTypes, NoRepeats, NEW q \in Queue, NEW all \in BOOLEAN
  PROVE  LET w == Woken(q, all)
             r == StillWaiting(q, all)
         IN  /\ w \in Seq(Tid) /\ IsInjective(w) /\ r \in Seq(Tid) /\ IsInjective(r)
             /\ ToSet(w) \subseteq Tid
             /\ ToSet(w) \cap ToSet(r) = {} /\ ToSet(w) \cup ToSet(r) = ToSet(waiters[q])
             /\ waiters[q] # <<>> => w # <<>> /\ ToSet(w) # {}
<1> DEFINE s == waiters[q]
<1>1. s \in Seq(Tid) /\ IsInjective(s)
  BY DEF BaseTypes, NoRepeats
<1>2. ToSet(s) \subseteq Tid /\ (s = <<>> <=> ToSet(s) = {}) /\ ToSet(<<>>) = {}
      /\ IsInjective(<<>>) /\ <<>> \in Seq(Tid)
  BY <1>1, QueueEmpty
<1>3. CASE all \/ s = <<>>
  <2>1. Woken(q, all) = s /\ StillWaiting(q, all) = <<>>
    BY <1>3 DEF Woken, StillWaiting
  <2> HIDE DEF s
  <2> QED BY <1>1, <1>2, <2>1 DEF s
<1>4. CASE ~all /\ s # <<>>
  <2>1. Woken(q, all) = <<Head(s)>> /\ StillWaiting(q, all) = Tail(s)
    BY <1>4 DEF Woken, StillWaiting
  <2>2. /\ Head(s) \in ToSet(s) /\ Head(s) \in Tid
        /\ Tail(s) \in Seq(Tid) /\ IsInjective(Tail(s))
        /\ ToSet(Tail(s)) = ToSet(s) \ {Head(s)}
    BY <1>1, <1>4, QueueTail
  <2> DEFINE h == Head(s)
             rest == Tail(s)
  <2>3. h \in Tid /\ <<h>> \in Seq(Tid) /\ IsInjective(<<h>>) /\ ToSet(<<h>>) = {h} /\ <<h>> # <<>>
    <3>1. h \in Tid
      BY <2>2
    <3> HIDE DEF h
    <3> QED BY <3>1 DEF ToSet, IsInjective
  <2>4. /\ h \in ToSet(s) /\ rest \in Seq(Tid) /\ IsInjective(rest)
        /\ ToSet(rest) = ToSet(s) \ {h}
    BY <2>2
  <2>5. Woken(q, all) = <<h>> /\ StillWaiting(q, all) = rest
    BY <2>1
  <2> HIDE DEF h, rest
  <2> QED BY <2>3, <2>4, <2>5
<1> QED BY <1>3, <1>4

(* Blocking fewer threads, or on a thread that is not blocked.             *)
LEMMA OwnerChange ==
  ASSUME NoWaitCycle,
         \A t \in Tid : Blocked(t)' =>
           /\ Blocked(t)
           /\ \/ BlockedBy(t)' = BlockedBy(t)
              \/ BlockedBy(t)' \notin Tid
              \/ \E u \in Tid : BlockedBy(t)' = u /\ ~Blocked(u)'
  PROVE  NoWaitCycle'
<1> SUFFICES ASSUME NEW S \in SUBSET Tid, S # {},
                    \A t \in S : Blocked(t)' /\ BlockedBy(t)' \in S
             PROVE  FALSE
  BY DEF NoWaitCycle
<1>1. \A t \in S : Blocked(t) /\ BlockedBy(t)' = BlockedBy(t)
  OBVIOUS
<1> QED BY <1>1 DEF NoWaitCycle

(* Taking or giving up a lock moves no thread.                             *)
LEMMA QuietStep ==
  ASSUME IInv, cpu \in {"user", "kernel"}, cpu' = "user",
         (cpu = "user" /\ cont' = cont) \/ cont' = [cont EXCEPT ![current] = User],
         UNCHANGED <<current, resumed, threadVars, ready, waiters, stackVars>>,
         owner' \in [Locks -> Tid \cup {NoThread}],
         \A l \in Locks : owner'[l] \in {owner[l], NoThread, current}
  PROVE  IInv'
<1> USE Names DEF IInv, threadVars, stackVars
<1>1. BaseTypes'
  <2>1. cont' \in [Tid -> Cont]
    BY DEF BaseTypes
  <2> QED BY <2>1 DEF BaseTypes
<1>2. NoRepeats' /\ QueueDiscipline' /\ TidsMarked'
  BY DEF NoRepeats, QueueDiscipline, TidsMarked
<1>3. CurrentOK'
  BY DEF CurrentOK, OnlyCurrentRuns, KilledNeverRuns
<1>4. Joining'
  <2>1. \A t \in Tid : cont'[t] = cont[t] \/ (t = current /\ cont'[t] = User)
    BY DEF BaseTypes
  <2>2. state[current] = "RUNNING" /\ current \in Tid /\ cont'[current] = User
    BY DEF CurrentOK, OnlyCurrentRuns, BaseTypes, Joining
  <2> QED BY <2>1, <2>2 DEF Joining
<1>5. NoWaitCycle'
  <2>1. ~Blocked(current)' /\ current \in Tid
    BY DEF Blocked, CurrentOK, OnlyCurrentRuns, BaseTypes
  <2>2. ASSUME NEW t \in Tid, Blocked(t)'
        PROVE  /\ Blocked(t)
               /\ BlockedBy(t)' \in {BlockedBy(t), NoThread, current}
    <3>1. wait_queue[t] \in Queue
      BY <2>2 DEF Blocked, BaseTypes
    <3>2. \A q \in Queue : q[1] = "lock" => q[2] \in Locks
      BY DEF Queue, JoinQueue, LockQueue, CvQueue
    <3> QED BY <2>2, <3>1, <3>2 DEF Blocked, BlockedBy, OwnerOf
  <2> QED BY <2>1, <2>2, OwnerChange
<1> QED BY <1>1, <1>2, <1>3, <1>4, <1>5

(* thread_wakeup of a queue other than a join queue.                       *)
LEMMA WakeStep ==
  ASSUME IInv, cpu = "user", cpu' \in {"user", "kernel"},
         NEW q \in Queue, NEW all \in BOOLEAN, \A t \in Tid : q # JoinQueue(t),
         Wakeup(q, all), state' = WakeState(state, q, all),
         NEW k \in Cont, \A t \in Tid : k # InWait(t), cpu' = "user" => k = User,
         cont' = [cont EXCEPT ![current] = k],
         owner' \in [Locks -> Tid \cup {NoThread}],
         \A l \in Locks : owner'[l] \in {owner[l], NoThread},
         UNCHANGED <<current, resumed, tid_used, killed, w_exit, stackVars>>
  PROVE  IInv'
<1> USE Names DEF IInv, stackVars
<1> DEFINE w == Woken(q, all)
           r == StillWaiting(q, all)
<1>1. /\ w \in Seq(Tid) /\ IsInjective(w) /\ r \in Seq(Tid) /\ IsInjective(r)
      /\ ToSet(w) \subseteq Tid
      /\ ToSet(w) \cap ToSet(r) = {} /\ ToSet(w) \cup ToSet(r) = ToSet(waiters[q])
  BY WokenSplits
<1>2. /\ ready' = ready \o w
      /\ waiters' = [waiters EXCEPT ![q] = r]
      /\ wait_queue' = [t \in Tid |-> IF t \in ToSet(w) THEN NoQueue ELSE wait_queue[t]]
      /\ state' = [t \in Tid |-> IF t \in ToSet(w) THEN "READY" ELSE state[t]]
  BY DEF Wakeup, WakeState
<1> HIDE DEF w, r
<1>3. \A t \in Tid : t \in ToSet(waiters[q]) <=> state[t] = "SLEEPING" /\ wait_queue[t] = q
  BY DEF QueueDiscipline
<1>4. current \in Tid /\ state[current] = "RUNNING" /\ current \notin killed
      /\ current \notin ToSet(w)
  BY <1>1, <1>3 DEF CurrentOK, OnlyCurrentRuns, KilledNeverRuns, BaseTypes
<1>5. /\ ready' \in Seq(Tid) /\ IsInjective(ready')
      /\ ToSet(ready') = ToSet(ready) \cup ToSet(w)
  <2>1. ToSet(ready) \cap ToSet(w) = {}
    BY <1>1, <1>3 DEF QueueDiscipline
  <2>2. ready \in Seq(Tid) /\ IsInjective(ready)
    BY DEF BaseTypes, NoRepeats
  <2> QED BY <1>1, <1>2, <2>1, <2>2, QueueConcat
<1>6. BaseTypes'
  <2>1. cont' \in [Tid -> Cont] /\ waiters' \in [Queue -> Seq(Tid)]
    BY <1>1, <1>2 DEF BaseTypes
  <2>2. /\ state' \in [Tid -> {"FREE", "READY", "RUNNING", "SLEEPING", "ZOMBIE"}]
        /\ wait_queue' \in [Tid -> Queue \cup {NoQueue}]
    BY <1>2 DEF BaseTypes
  <2> QED BY <1>5, <2>1, <2>2 DEF BaseTypes
<1>7. NoRepeats'
  BY <1>1, <1>2, <1>5 DEF NoRepeats, BaseTypes
<1>8. QueueDiscipline'
  <2>1. \A t \in ToSet(ready') : state'[t] = "READY"
    <3>1. \A t \in ToSet(ready) : t \in Tid /\ state[t] = "READY"
      BY QueueEmpty DEF QueueDiscipline, BaseTypes
    <3> QED BY <1>1, <1>2, <1>5, <3>1
  <2>2. \A p \in Queue, t \in Tid :
          t \in ToSet(waiters'[p]) <=> state'[t] = "SLEEPING" /\ wait_queue'[t] = p
    <3> SUFFICES ASSUME NEW p \in Queue, NEW t \in Tid
                 PROVE  t \in ToSet(waiters'[p])
                          <=> state'[t] = "SLEEPING" /\ wait_queue'[t] = p
      OBVIOUS
    <3>1. t \in ToSet(waiters[p]) <=> state[t] = "SLEEPING" /\ wait_queue[t] = p
      BY DEF QueueDiscipline
    <3>2. waiters'[p] = IF p = q THEN r ELSE waiters[p]
      BY <1>2 DEF BaseTypes
    <3>3. t \in ToSet(w) => state[t] = "SLEEPING" /\ wait_queue[t] = q
      BY <1>1, <1>3
    <3>4. /\ state'[t] = IF t \in ToSet(w) THEN "READY" ELSE state[t]
          /\ wait_queue'[t] = IF t \in ToSet(w) THEN NoQueue ELSE wait_queue[t]
      BY <1>2
    <3> QED BY <1>1, <3>1, <3>2, <3>3, <3>4
  <2>3. \A t \in Tid : state'[t] = "SLEEPING" => wait_queue'[t] # NoQueue
    BY <1>2 DEF QueueDiscipline
  <2> QED BY <1>7, <2>1, <2>2, <2>3 DEF QueueDiscipline, NoRepeats
<1>9. CurrentOK'
  BY <1>2, <1>4 DEF CurrentOK, OnlyCurrentRuns, KilledNeverRuns
<1>10. TidsMarked'
  BY <1>1, <1>2, <1>3 DEF TidsMarked
<1>11. Joining'
  <2>1. cont'[current] = k /\ \A t \in Tid \ {current} : cont'[t] = cont[t]
    BY <1>4 DEF BaseTypes
  <2> SUFFICES ASSUME NEW t \in Tid, NEW u \in Tid
      PROVE  /\ state'[u] = "SLEEPING" /\ wait_queue'[u] = JoinQueue(t)
                  => state'[t] \notin {"FREE", "ZOMBIE"} /\ cont'[u] = InWait(t)
             /\ cont'[u] = InWait(t) =>
                  /\ state'[u] = "SLEEPING" => wait_queue'[u] = JoinQueue(t)
                  /\ state'[u] \in {"READY", "RUNNING"} /\ u \notin killed'
                       => state'[t] = "ZOMBIE" /\ t \in w_exit'
    BY <2>1 DEF Joining
  <2>2. CASE u = current
    BY <1>2, <1>4, <2>1, <2>2
  <2>3. CASE u # current
    <3>1. u \in ToSet(w) => cont[u] # InWait(t)
      BY <1>1, <1>3 DEF Joining
    <3>2. /\ cont[u] = InWait(t) /\ state[u] \in {"READY", "RUNNING"} /\ u \notin killed
                => state[t] = "ZOMBIE" /\ t \in w_exit
          /\ cont[u] = InWait(t) /\ state[u] = "SLEEPING" => wait_queue[u] = JoinQueue(t)
          /\ state[u] = "SLEEPING" /\ wait_queue[u] = JoinQueue(t)
               => state[t] \notin {"FREE", "ZOMBIE"} /\ cont[u] = InWait(t)
      BY DEF Joining
    <3>3. t \in ToSet(w) => state[t] # "ZOMBIE"
      BY <1>1, <1>3
    <3> QED BY <1>2, <2>1, <2>3, <3>1, <3>2, <3>3
  <2> QED BY <2>2, <2>3
<1>12. NoWaitCycle'
  <2>1. ASSUME NEW t \in Tid, Blocked(t)'
        PROVE  Blocked(t) /\ BlockedBy(t)' \in {BlockedBy(t), NoThread}
    <3>1. wait_queue'[t] = wait_queue[t] /\ state[t] = "SLEEPING" /\ wait_queue[t] \in Queue
      BY <1>2, <2>1 DEF Blocked, BaseTypes
    <3>2. \A p \in Queue : p[1] = "lock" => p[2] \in Locks
      BY DEF Queue, JoinQueue, LockQueue, CvQueue
    <3> QED BY <2>1, <3>1, <3>2 DEF Blocked, BlockedBy, OwnerOf
  <2> QED BY <2>1, OwnerChange
<1> QED BY <1>6, <1>7, <1>8, <1>9, <1>10, <1>11, <1>12

(* The part of SyncInv about threads is kept by every step.                *)
LEMMA SyncNextIInv ==
  ASSUME SyncInv, [SyncNext]_allVars
  PROVE  IInv'
<1> USE Names, SyncNames DEF SyncInv
<1>0. /\ current \in Tid /\ LockCont \subseteq Cont /\ User \in Cont
      /\ owner \in [Locks -> Tid \cup {NoThread}]
      /\ cont \in [Tid -> Cont]
      /\ cpu = "user" => cont = [cont EXCEPT ![current] = User]
  BY DEF IInv, BaseTypes, Joining
<1>1. CASE ThreadCalls \/ WaitResumed \/ Switching \/ Ended \/ UNCHANGED allVars
  <2>1. [Next]_vars
    BY <1>1 DEF ThreadCalls, Next, Calls, allVars
  <2> QED BY <2>1, NextIInv
<1>2. ASSUME NEW l \in Locks, LockCreate(l) \/ LockDestroy(l) PROVE IInv'
  <2>1. CASE LockCreate(l)
    BY <1>0, <2>1, QuietStep DEF LockCreate
  <2>2. CASE LockDestroy(l)
    BY <1>0, <2>2, StutterStep DEF LockDestroy
  <2> QED BY <1>2, <2>1, <2>2
<1>3. ASSUME NEW c \in Cvs, CvCreate(c) \/ CvDestroy(c) PROVE IInv'
  BY <1>0, <1>3, StutterStep DEF CvCreate, CvDestroy
<1>4. ASSUME NEW l \in Locks, Take(l), cpu \in {"user", "kernel"} PROVE IInv'
  BY <1>0, <1>4, QuietStep DEF Take
<1>5. ASSUME NEW q \in Queue, GiveUp(q), cpu \in {"user", "kernel"} PROVE IInv'
  BY <1>0, <1>5, QuietStep DEF GiveUp, queueVars
<1>6. ASSUME NEW l \in Locks, SleepFor(l), cpu \in {"user", "kernel"} PROVE IInv'
  BY <1>0, <1>6, SleepStep DEF SleepFor
<1>7. ASSUME NEW c \in Cvs, SleepOn(CvQueue(c), InCvWait(c)), cpu = "kernel",
             UNCHANGED <<tid_used, killed, w_exit, owner, stackVars>>
      PROVE  IInv'
  BY <1>0, <1>7, SleepStep
<1>8. ASSUME NEW l \in Locks, LockRelease(l) PROVE IInv'
  BY <1>0, <1>8, WakeStep DEF LockRelease, GiveBack
<1>9. ASSUME NEW c \in Cvs, CvWait(c) PROVE IInv'
  <2> DEFINE q == LockQueue(LockOf[c])
             k == CvRelease(c)
  <2>1. q \in Queue /\ (\A t \in Tid : q # JoinQueue(t)) /\ k \in Cont
        /\ \A t \in Tid : k # InWait(t)
    BY <1>0
  <2>2. /\ Wakeup(q, FALSE) /\ state' = WakeState(state, q, FALSE)
        /\ cpu = "user" /\ cpu' = "kernel" /\ cont' = [cont EXCEPT ![current] = k]
        /\ UNCHANGED <<current, resumed, tid_used, killed, w_exit, owner, stackVars>>
    BY <1>9 DEF CvWait
  <2> HIDE DEF q, k
  <2> QED BY <1>0, <2>1, <2>2, WakeStep
<1>10. ASSUME NEW c \in Cvs, CvSignal(c) \/ CvBroadcast(c) PROVE IInv'
  <2>1. PICK all \in BOOLEAN : CvNotify(c, all)
    BY <1>10 DEF CvSignal, CvBroadcast
  <2> QED BY <1>0, <2>1, WakeStep DEF CvNotify
<1>11. CASE LockCalls
  BY <1>2, <1>3, <1>4, <1>6, <1>8, <1>9, <1>10, <1>11 DEF LockCalls, LockAcquire
<1>12. CASE LockResumed
  BY <1>4, <1>5, <1>6, <1>7, <1>12 DEF LockResumed, AcquireResumed, CvSleep
<1> QED BY <1>1, <1>11, <1>12 DEF SyncNext

-----------------------------------------------------------------------------
(* What a step of the threads leaves of what the lock and cv calls look at.*)
LockQueues == {LockQueue(l) : l \in Locks} \cup {CvQueue(c) : c \in Cvs}

ThreadStep ==
  ThreadCalls \/ WaitResumed \/ Switching \/ Ended \/ UNCHANGED vars

ThreadFrame ==
  /\ owner' = owner
  /\ cpu = "kernel" => cont[current] \notin LockCont \/ UNCHANGED vars
  /\ \A t \in Tid :
       /\ cont'[t] = cont[t] \/ cont'[t] \notin LockCont
       /\ Alive(t)' /\ cont'[t] \in LockCont => Alive(t)
       /\ Alive(t) /\ cont[t] \in LockCont => cont'[t] = cont[t]
       /\ Alive(t) /\ ~Alive(t)' =>
            t = current /\ (t \in killed \/ (cont[t] = User /\ MayExit))
       /\ t \in killed' => t \in killed \/ MayBeKilled(t)
       /\ state'[t] = "SLEEPING" /\ (wait_queue'[t] \in LockQueues \/ cont'[t] \in LockCont)
            => state[t] = "SLEEPING" /\ wait_queue'[t] = wait_queue[t]
       /\ state'[t] # "SLEEPING" => wait_queue'[t] = NoQueue

LEMMA ThreadStepFrame ==
  ASSUME IInv, InCalls, cpu # "halted", cpu' # "halted", ThreadStep
  PROVE  ThreadFrame
<1> USE Names, SyncNames DEF Alive
<1>0. /\ current \in Tid /\ cont \in [Tid -> Cont]
      /\ state \in [Tid -> {"FREE", "READY", "RUNNING", "SLEEPING", "ZOMBIE"}]
      /\ wait_queue \in [Tid -> Queue \cup {NoQueue}]
      /\ killed \subseteq Tid
      /\ \A t \in Tid : state[t] # "SLEEPING" => wait_queue[t] = NoQueue
      /\ cpu = "user" => cont[current] = User
      /\ \A t \in Tid : state[t] = "RUNNING" <=>
                           t = current /\ cpu \in {"user", "dispatch", "kernel"}
      /\ \A t \in Tid : NoQueue \notin LockQueues /\ JoinQueue(t) \notin LockQueues
  BY DEF IInv, BaseTypes, InCalls, Joining, CurrentOK, OnlyCurrentRuns, LockQueues
<1>1. ASSUME NEW next \in ToSet(ready), YieldSwitch(next) PROVE ThreadFrame
  <2>1. next \in Tid /\ state[next] = "READY"
    BY QueueEmpty DEF IInv, QueueDiscipline, BaseTypes
  <2> QED BY <1>0, <1>1, <2>1 DEF YieldSwitch, ThreadFrame
<1>2. ASSUME NEW t \in Tid, ThreadCreate(t) \/ ThreadCreateNoStack(t)
      PROVE  ThreadFrame
  <2>1. CASE ThreadCreateNoStack(t)
    BY <1>0, <2>1 DEF ThreadCreateNoStack, queueVars, ThreadFrame
  <2>2. CASE ThreadCreate(t)
    <3>1. state[t] = "FREE"
      BY <1>0, <2>2 DEF ThreadCreate, PickTid, IInv, TidsMarked
    <3> QED BY <1>0, <2>2, <3>1 DEF ThreadCreate, ThreadFrame
  <2> QED BY <1>2, <2>1, <2>2
<1>3. ASSUME NEW t \in Tid, MayBeKilled(t), ThreadKill(t) PROVE ThreadFrame
  BY <1>0, <1>3 DEF ThreadKill, ThreadFrame
<1>4. ASSUME NEW t \in Tid, WaitReap(t) PROVE ThreadFrame
  BY <1>0, <1>4 DEF WaitReap, Destroy, Reapable, ThreadFrame
<1>5. ASSUME NEW t \in Tid, WaitSleep(t) PROVE ThreadFrame
  <2>1. PICK next \in Tid :
          /\ Dequeues(next)
          /\ state' = [state EXCEPT ![current] = "SLEEPING", ![next] = "RUNNING"]
    BY <1>5 DEF WaitSleep, SleepOn
  <2>2. state[next] = "READY"
    BY <2>1 DEF Dequeues, IInv, QueueDiscipline
  <2>3. /\ owner' = owner /\ killed' = killed /\ cpu = "user"
        /\ wait_queue' = [wait_queue EXCEPT ![current] = JoinQueue(t)]
        /\ cont' = [cont EXCEPT ![current] = InWait(t)]
    BY <1>5 DEF WaitSleep, SleepOn
  <2> QED BY <1>0, <2>1, <2>2, <2>3 DEF ThreadFrame
<1>6. ASSUME BeginExit, cpu \in {"user", "dispatch", "again"},
             cpu = "user" => MayExit, cpu = "dispatch" => current \in killed
      PROVE  ThreadFrame
  <2> DEFINE q == JoinQueue(current)
             W == waiters[q]
  <2>1. Woken(q, TRUE) = W /\ W \in Seq(Tid) /\ q \in Queue
    BY <1>0 DEF Woken, IInv, BaseTypes
  <2>2. \A t \in Tid : t \in ToSet(W) <=> state[t] = "SLEEPING" /\ wait_queue[t] = q
    BY <2>1 DEF IInv, QueueDiscipline
  <2>3. /\ state' = [t \in Tid |-> IF t \in ToSet(W) THEN "READY"
                                    ELSE IF t = current THEN "ZOMBIE" ELSE state[t]]
        /\ wait_queue' = [t \in Tid |-> IF t \in ToSet(W) THEN NoQueue ELSE wait_queue[t]]
        /\ cont' = cont /\ owner' = owner /\ killed' = killed
    BY <1>0, <1>6, <2>1 DEF BeginExit, WakeState, Wakeup
  <2> HIDE DEF W
  <2>4. cpu = "again" => state[current] = "ZOMBIE"
    BY DEF IInv, CurrentOK
  <2> QED BY <1>0, <1>6, <2>2, <2>3, <2>4 DEF ThreadFrame
<1>7. ASSUME WaitResumed PROVE ThreadFrame
  <2>1. cont[current] \notin LockCont
    BY <1>7 DEF WaitResumed, LockCont, InAcquire, CvRelease, InCvWait
  <2>2. UNCHANGED <<state, killed, wait_queue, owner>>
        /\ cont' = [cont EXCEPT ![current] = User]
    BY <1>7, JoinerReapsNobody DEF WaitResumed
  <2> QED BY <1>0, <2>1, <2>2 DEF ThreadFrame
<1>8. ASSUME ExitSwitch PROVE ThreadFrame
  <2>1. PICK next \in Tid : /\ Dequeues(next)
                            /\ state' = [state EXCEPT ![next] = "RUNNING"]
    BY <1>8 DEF ExitSwitch
  <2>2. state[next] = "READY"
    BY <2>1 DEF Dequeues, IInv, QueueDiscipline
  <2> QED BY <1>0, <1>8, <2>1, <2>2 DEF ExitSwitch, ThreadFrame
<1>9. ASSUME ExitSwitchReturns \/ Dispatch \/ UNCHANGED vars PROVE ThreadFrame
  BY <1>0, <1>9 DEF ExitSwitchReturns, Dispatch, vars, threadVars, queueVars, ThreadFrame
<1> QED
  BY <1>1, <1>2, <1>3, <1>4, <1>5, <1>6, <1>7, <1>8, <1>9
  DEF ThreadStep, ThreadCalls, Switching, Ended, ProcessEnd, YieldAny, YieldTo,
      Dequeues, ThreadExit, KilledExit, KilledExitAgain, SeenKilled

LEMMA ThreadsKeepSync ==
  ASSUME SyncInv, ThreadStep, UNCHANGED syncVars
  PROVE  SyncInv'
<1> USE Names, SyncNames
<1>1. SyncTypes'
  BY DEF SyncInv, SyncTypes, syncVars
<1>2. IInv'
  <2>1. [Next]_vars
    BY DEF ThreadStep, ThreadCalls, Next, Calls
  <2> QED BY <2>1, NextIInv DEF SyncInv
<1> SUFFICES ASSUME cpu' # "halted"
             PROVE  Holding' /\ InCalls' /\ Releasing' /\ StaleOwner'
  BY <1>1, <1>2 DEF SyncInv
<1>3. cpu # "halted"
  BY DEF ThreadStep, ThreadCalls, WaitResumed, Switching, Ended, YieldAny, YieldTo,
     YieldSwitch, ThreadCreate, ThreadCreateNoStack, ThreadKill, WaitReap, WaitSleep,
     ThreadExit, KilledExit, KilledExitAgain, ProcessEnd, ExitSwitch,
     ExitSwitchReturns, Dispatch, vars
<1>4. IInv /\ SyncTypes /\ Holding /\ InCalls /\ Releasing /\ StaleOwner
  BY <1>3 DEF SyncInv
<1>5. ThreadFrame
  BY <1>3, <1>4, ThreadStepFrame
<1>6. /\ holder' = holder /\ locks' = locks /\ cvs' = cvs /\ owner' = owner
      /\ holder \in [Locks -> Tid \cup {NoThread}]
      /\ owner \in [Locks -> Tid \cup {NoThread}]
      /\ cont \in [Tid -> Cont]
  BY <1>4, <1>5 DEF syncVars, SyncTypes, ThreadFrame, IInv, BaseTypes
<1>7. Holding'
  <2> SUFFICES ASSUME NEW l \in Locks, holder[l] # NoThread
               PROVE  /\ l \in locks /\ owner[l] = holder[l]
                      /\ Alive(holder[l])' /\ holder[l] \notin killed'
                      /\ cont'[holder[l]] # InAcquire(l)
                      /\ \A c \in Cvs : LockOf[c] = l => cont'[holder[l]] # InCvWait(c)
    BY <1>6 DEF Holding, Alive
  <2>1. /\ l \in locks /\ owner[l] = holder[l] /\ holder[l] \in Tid
        /\ Alive(holder[l]) /\ holder[l] \notin killed
        /\ cont[holder[l]] # InAcquire(l)
        /\ \A c \in Cvs : LockOf[c] = l => cont[holder[l]] # InCvWait(c)
    BY <1>4, <1>6 DEF Holding
  <2> DEFINE h == holder[l]
  <2>2. /\ cont'[h] = cont[h] \/ cont'[h] \notin LockCont
        /\ Alive(h) /\ ~Alive(h)' => h = current /\ (h \in killed \/ MayExit)
        /\ h \in killed' => h \in killed \/ MayBeKilled(h)
    BY <1>5, <1>6, <2>1 DEF ThreadFrame
  <2> QED BY <1>6, <2>1, <2>2 DEF MayExit, MayBeKilled, Alive
<1>8. InCalls'
  <2>1. \A l \in Locks : LockQueue(l) \in LockQueues
    BY DEF LockQueues
  <2>2. \A c \in Cvs : CvQueue(c) \in LockQueues
    BY DEF LockQueues
  <2>3. ASSUME NEW t \in Tid, Alive(t)'
        PROVE  /\ \A l \in Locks : cont'[t] = InAcquire(l) => l \in locks
               /\ \A c \in Cvs : cont'[t] \in {CvRelease(c), InCvWait(c)} => c \in cvs
    BY <1>4, <1>5, <2>3 DEF InCalls, ThreadFrame
  <2>4. ASSUME NEW t \in Tid, state'[t] = "SLEEPING"
        PROVE  /\ \A l \in Locks : wait_queue'[t] = LockQueue(l) <=> cont'[t] = InAcquire(l)
               /\ \A c \in Cvs : wait_queue'[t] = CvQueue(c) <=> cont'[t] = InCvWait(c)
    <3>1. CASE wait_queue'[t] \in LockQueues \/ cont'[t] \in LockCont
      <4>1. state[t] = "SLEEPING" /\ wait_queue'[t] = wait_queue[t]
        BY <1>5, <2>4, <3>1 DEF ThreadFrame
      <4>2. /\ \A l \in Locks : wait_queue[t] = LockQueue(l) <=> cont[t] = InAcquire(l)
            /\ \A c \in Cvs : wait_queue[t] = CvQueue(c) <=> cont[t] = InCvWait(c)
        BY <1>4, <4>1 DEF InCalls
      <4>3. cont[t] \in LockCont => cont'[t] = cont[t]
        BY <1>5, <4>1 DEF ThreadFrame, Alive
      <4>4. cont'[t] = cont[t] \/ cont'[t] \notin LockCont
        BY <1>5 DEF ThreadFrame
      <4> QED BY <4>1, <4>2, <4>3, <4>4
    <3>2. CASE ~(wait_queue'[t] \in LockQueues \/ cont'[t] \in LockCont)
      BY <2>1, <2>2, <3>2
    <3> QED BY <3>1, <3>2
  <2>5. \A t \in Tid : state'[t] # "SLEEPING" => wait_queue'[t] = NoQueue
    BY <1>5 DEF ThreadFrame
  <2> QED BY <1>4, <1>6, <2>3, <2>4, <2>5 DEF InCalls
<1>9. Releasing'
  <2>1. ASSUME NEW t \in Tid, NEW c \in Cvs, cont'[t] = CvRelease(c)
        PROVE  UNCHANGED vars
    <3>1. cont[t] = CvRelease(c) /\ CvRelease(c) \in LockCont
      BY <1>5, <2>1 DEF ThreadFrame
    <3>2. cpu = "kernel" /\ t = current /\ cont[current] = CvRelease(c)
      BY <1>4, <3>1 DEF Releasing
    <3> QED BY <1>5, <3>1, <3>2 DEF ThreadFrame
  <2>2. UNCHANGED vars => Releasing'
    BY <1>4, <1>6 DEF Releasing, Awaited, vars, threadVars, queueVars
  <2> QED BY <2>1, <2>2 DEF Releasing
<1>10. StaleOwner'
  <2>1. ASSUME NEW l \in Locks, Awaited(l)' PROVE Awaited(l)
    <3>1. LockQueue(l) \in LockQueues
      BY DEF LockQueues
    <3> QED BY <1>5, <2>1, <3>1 DEF Awaited, ThreadFrame
  <2> SUFFICES ASSUME NEW l \in Locks, holder[l] = NoThread, owner[l] # NoThread, Awaited(l)
               PROVE  /\ Alive(owner[l])' /\ owner[l] \notin killed'
                      /\ \E c \in Cvs :
                           LockOf[c] = l /\ cont'[owner[l]] \in {CvRelease(c), InCvWait(c)}
    BY <1>6, <2>1 DEF StaleOwner, Alive
  <2>2. /\ Alive(owner[l]) /\ owner[l] \notin killed /\ owner[l] \in Tid
        /\ \E c \in Cvs :
             LockOf[c] = l /\ cont[owner[l]] \in {CvRelease(c), InCvWait(c)}
    BY <1>4, <1>6 DEF StaleOwner
  <2> DEFINE o == owner[l]
  <2>3. /\ cont[o] \in LockCont => cont'[o] = cont[o] /\ cont[o] # User
        /\ ~Alive(o)' => o = current /\ (o \in killed \/ cont[o] = User)
        /\ o \in killed' => o \in killed \/ MayBeKilled(o)
    BY <1>5, <1>6, <2>2 DEF ThreadFrame
  <2> QED BY <1>6, <2>2, <2>3 DEF MayBeKilled, Alive
<1> QED BY <1>7, <1>8, <1>9, <1>10

-----------------------------------------------------------------------------
(* The lock and cv calls.                                                  *)

LEMMA SyncFacts ==
  ASSUME SyncInv, cpu \in {"user", "kernel"}
  PROVE  /\ IInv /\ SyncTypes /\ Holding /\ InCalls /\ Releasing /\ StaleOwner
         /\ state \in [Tid -> {"FREE", "READY", "RUNNING", "SLEEPING", "ZOMBIE"}]
         /\ cont \in [Tid -> Cont] /\ wait_queue \in [Tid -> Queue \cup {NoQueue}]
         /\ owner \in [Locks -> Tid \cup {NoThread}]
         /\ holder \in [Locks -> Tid \cup {NoThread}]
         /\ current \in Tid /\ NoThread \notin Tid /\ state[current] = "RUNNING"
         /\ Alive(current) /\ current \notin killed
         /\ cpu = "user" => /\ cont[current] = User
                            /\ \A t \in Tid, c \in Cvs : cont[t] # CvRelease(c)
BY Names DEF SyncInv, IInv, BaseTypes, SyncTypes, CurrentOK, OnlyCurrentRuns,
   KilledNeverRuns, Joining, Alive, Releasing

LEMMA CreateAndDestroy ==
  ASSUME SyncInv, IInv',
         \/ \E l \in Locks : LockCreate(l) \/ LockDestroy(l)
         \/ \E c \in Cvs : CvCreate(c) \/ CvDestroy(c)
  PROVE  SyncInv'
<1> USE Names, SyncNames
<1>1. ASSUME NEW l \in Locks, LockCreate(l) PROVE SyncInv'
  <2> USE DEF LockCreate, threadVars, stackVars
  <2>1. cpu = "user"
    BY <1>1
  <2>2. \A t \in Tid : Alive(t) => cont[t] # InAcquire(l)
    BY <1>1, <2>1, SyncFacts DEF InCalls
  <2>3. ~Awaited(l)
    BY <1>1, <2>1, <2>2, SyncFacts DEF InCalls, Awaited, Alive
  <2>4. SyncTypes'
    BY <1>1, <2>1, SyncFacts DEF SyncTypes
  <2>5. Holding'
    BY <1>1, <2>1, SyncFacts DEF Holding, Alive
  <2>6. InCalls'
    BY <1>1, <2>1, SyncFacts DEF InCalls, Alive
  <2>7. Releasing'
    BY <1>1, <2>1, SyncFacts DEF Releasing
  <2>8. StaleOwner'
    BY <1>1, <2>1, <2>3, SyncFacts DEF StaleOwner, Alive, Awaited
  <2> QED BY <2>4, <2>5, <2>6, <2>7, <2>8 DEF SyncInv
<1>2. ASSUME NEW l \in Locks, LockDestroy(l) PROVE SyncInv'
  <2> USE DEF LockDestroy, vars, threadVars, queueVars
  <2>1. cpu = "user"
    BY <1>2
  <2>2. \A t \in Tid : Alive(t) => cont[t] # InAcquire(l)
    BY <1>2 DEF NobodyInside, Alive
  <2>3. SyncTypes' /\ Holding' /\ Releasing' /\ StaleOwner'
    BY <1>2, <2>1, SyncFacts
    DEF SyncTypes, Holding, Releasing, StaleOwner, Alive, Awaited
  <2>4. InCalls'
    BY <1>2, <2>1, <2>2, SyncFacts DEF InCalls, Alive
  <2> QED BY <2>3, <2>4 DEF SyncInv
<1>3. ASSUME NEW c \in Cvs, CvCreate(c) PROVE SyncInv'
  <2> USE DEF CvCreate, vars, threadVars, queueVars
  <2>1. SyncTypes' /\ Holding' /\ Releasing' /\ StaleOwner' /\ InCalls'
    BY <1>3, SyncFacts
    DEF SyncTypes, Holding, Releasing, StaleOwner, Alive, Awaited, InCalls
  <2> QED BY <2>1 DEF SyncInv
<1>4. ASSUME NEW c \in Cvs, CvDestroy(c) PROVE SyncInv'
  <2> USE DEF CvDestroy, vars, threadVars, queueVars
  <2>1. cpu = "user"
    BY <1>4
  <2>2. \A t \in Tid : Alive(t) => cont[t] \notin {CvRelease(c), InCvWait(c)}
    BY <1>4, <2>1, SyncFacts DEF NobodyInside, Alive
  <2>3. SyncTypes' /\ Holding' /\ Releasing' /\ StaleOwner'
    BY <1>4, <2>1, SyncFacts
    DEF SyncTypes, Holding, Releasing, StaleOwner, Alive, Awaited
  <2>4. InCalls'
    BY <1>4, <2>1, <2>2, SyncFacts DEF InCalls, Alive
  <2> QED BY <2>3, <2>4 DEF SyncInv
<1> QED BY <1>1, <1>2, <1>3, <1>4

(* A thread gets a lock that is free.                                      *)
LEMMA TakeKeepsSync ==
  ASSUME SyncInv, IInv', NEW l \in Locks, Take(l), UNCHANGED <<locks, cvs>>,
         l \in locks, cpu \in {"user", "kernel"},
         \A c \in Cvs : /\ cont[current] # CvRelease(c)
                        /\ cont[current] = InCvWait(c) => LockOf[c] = l
  PROVE  SyncInv'
<1>0. \A m \in Locks \ {l}, c \in Cvs :
        LockOf[c] = m => cont[current] \notin {CvRelease(c), InCvWait(c)}
  OBVIOUS
<1> USE Names, SyncNames, SyncFacts DEF Take, threadVars
<1>1. cont'[current] = User /\ \A t \in Tid \ {current} : cont'[t] = cont[t]
  OBVIOUS
<1>2. \A m \in Locks : /\ holder'[m] = IF m = l THEN current ELSE holder[m]
                       /\ owner'[m] = IF m = l THEN current ELSE owner[m]
  OBVIOUS
<1>3. SyncTypes'
  BY DEF SyncTypes
<1>4. Holding'
  BY <1>1, <1>2 DEF Holding, Alive
<1>5. InCalls'
  BY <1>1 DEF InCalls, Alive
<1>6. Releasing'
  BY <1>1 DEF Releasing
<1>7. StaleOwner'
  <2> SUFFICES ASSUME NEW m \in Locks, m # l, holder[m] = NoThread,
                      owner[m] # NoThread, Awaited(m)
               PROVE  /\ Alive(owner[m])' /\ owner'[m] \notin killed'
                      /\ \E c \in Cvs :
                           LockOf[c] = m /\ cont'[owner'[m]] \in {CvRelease(c), InCvWait(c)}
    BY <1>2 DEF StaleOwner, Awaited
  <2>1. /\ Alive(owner[m]) /\ owner[m] \notin killed
        /\ \E c \in Cvs :
             LockOf[c] = m /\ cont[owner[m]] \in {CvRelease(c), InCvWait(c)}
    BY DEF StaleOwner
  <2>2. owner[m] # current /\ owner[m] \in Tid /\ owner'[m] = owner[m]
    BY <1>0, <1>2, <2>1
  <2> QED BY <1>1, <1>2, <2>1, <2>2 DEF Alive
<1> QED BY <1>3, <1>4, <1>5, <1>6, <1>7 DEF SyncInv

(* What thread_sleep does to the caller and to the thread that runs next.  *)
LEMMA SleepFacts ==
  ASSUME SyncInv, cpu \in {"user", "kernel"}, NEW q \in Queue, NEW k \in Cont,
         SleepOn(q, k)
  PROVE  /\ ~WalkMeetsCurrent(q) /\ cpu' = "dispatch"
         /\ cont'[current] = k /\ wait_queue'[current] = q /\ state'[current] = "SLEEPING"
         /\ \A t \in Tid \ {current} :
              /\ cont'[t] = cont[t] /\ wait_queue'[t] = wait_queue[t]
              /\ \/ state'[t] = state[t]
                 \/ state[t] = "READY" /\ state'[t] = "RUNNING" /\ t = current'
<1> USE SyncFacts
<1>1. PICK next \in Tid :
        /\ Dequeues(next) /\ current' = next
        /\ state' = [state EXCEPT ![current] = "SLEEPING", ![next] = "RUNNING"]
  BY DEF SleepOn, SwitchTo
<1>2. state[next] = "READY"
  BY <1>1 DEF Dequeues, IInv, QueueDiscipline
<1> QED BY <1>1, <1>2 DEF SleepOn, SwitchTo

(* A thread sleeps for a lock that is held, not by itself.                 *)
LEMMA SleepForKeepsSync ==
  ASSUME SyncInv, IInv', NEW l \in Locks, SleepFor(l), UNCHANGED <<locks, cvs>>,
         l \in locks, cpu \in {"user", "kernel"},
         \A c \in Cvs : /\ cont[current] # CvRelease(c)
                        /\ cont[current] = InCvWait(c) => LockOf[c] = l
  PROVE  SyncInv'
<1>0. \A m \in Locks \ {l}, c \in Cvs :
        LockOf[c] = m => cont[current] \notin {CvRelease(c), InCvWait(c)}
  OBVIOUS
<1> USE Names, SyncNames, SyncFacts
<1>1. /\ ~WalkMeetsCurrent(LockQueue(l)) /\ cpu' = "dispatch"
      /\ cont'[current] = InAcquire(l) /\ wait_queue'[current] = LockQueue(l)
      /\ state'[current] = "SLEEPING"
      /\ \A t \in Tid \ {current} :
           /\ cont'[t] = cont[t] /\ wait_queue'[t] = wait_queue[t]
           /\ \/ state'[t] = state[t]
              \/ state[t] = "READY" /\ state'[t] = "RUNNING"
  BY SleepFacts DEF SleepFor
<1>2. holder' = holder /\ owner' = owner /\ killed' = killed /\ holder[l] # NoThread
  BY DEF SleepFor
<1>3. holder[l] # current
  <2>1. OwnerOf(LockQueue(l)) = owner[l]
    BY DEF OwnerOf, LockQueue
  <2>2. owner[l] = holder[l]
    BY <1>2 DEF Holding
  <2> QED BY <1>1, <1>2, <2>1, <2>2 DEF WalkMeetsCurrent
<1>4. SyncTypes'
  BY <1>2 DEF SyncTypes
<1>5. Holding'
  <2> SUFFICES ASSUME NEW m \in Locks, holder[m] # NoThread
               PROVE  /\ m \in locks /\ owner[m] = holder[m]
                      /\ state'[holder[m]] \notin {"FREE", "ZOMBIE"}
                      /\ holder[m] \notin killed
                      /\ cont'[holder[m]] # InAcquire(m)
                      /\ \A c \in Cvs : LockOf[c] = m => cont'[holder[m]] # InCvWait(c)
    BY <1>2 DEF Holding, Alive
  <2>1. /\ m \in locks /\ owner[m] = holder[m] /\ holder[m] \in Tid
        /\ state[holder[m]] \notin {"FREE", "ZOMBIE"} /\ holder[m] \notin killed
        /\ cont[holder[m]] # InAcquire(m)
        /\ \A c \in Cvs : LockOf[c] = m => cont[holder[m]] # InCvWait(c)
    BY DEF Holding, Alive
  <2>2. CASE holder[m] = current
    BY <1>1, <1>3, <2>1, <2>2
  <2>3. CASE holder[m] # current
    BY <1>1, <2>1, <2>3
  <2> QED BY <2>2, <2>3
<1>6. InCalls'
  BY <1>1, <1>2 DEF InCalls, Alive
<1>7. Releasing'
  BY <1>1 DEF Releasing
<1>8. StaleOwner'
  <2> SUFFICES ASSUME NEW m \in Locks, holder[m] = NoThread, owner[m] # NoThread,
                      Awaited(m)'
               PROVE  /\ Alive(owner[m])' /\ owner'[m] \notin killed'
                      /\ \E c \in Cvs :
                           LockOf[c] = m /\ cont'[owner'[m]] \in {CvRelease(c), InCvWait(c)}
    BY <1>2 DEF StaleOwner
  <2>1. m # l
    BY <1>2
  <2>2. Awaited(m)
    BY <1>1, <2>1 DEF Awaited
  <2>3. /\ Alive(owner[m]) /\ owner[m] \notin killed
        /\ \E c \in Cvs :
             LockOf[c] = m /\ cont[owner[m]] \in {CvRelease(c), InCvWait(c)}
    BY <2>2 DEF StaleOwner
  <2>4. owner[m] # current
    BY <1>0, <2>1, <2>3
  <2> QED BY <1>1, <1>2, <2>3, <2>4 DEF Alive
<1> QED BY <1>4, <1>5, <1>6, <1>7, <1>8 DEF SyncInv

(* thread_sleep fails: the call returns without the lock.                  *)
LEMMA GiveUpKeepsSync ==
  ASSUME SyncInv, IInv', NEW q \in Queue, GiveUp(q), UNCHANGED <<locks, cvs>>,
         cpu = "kernel",
         \/ \E l \in Locks : /\ holder[l] # NoThread
                             /\ \A c \in Cvs : /\ cont[current] # CvRelease(c)
                                               /\ cont[current] = InCvWait(c) => LockOf[c] = l
         \/ \E c \in Cvs : cont[current] = CvRelease(c) /\ q = CvQueue(c)
  PROVE  SyncInv'
<1> USE Names, SyncNames, SyncFacts DEF GiveUp, threadVars, queueVars
<1>1. cont'[current] = User /\ \A t \in Tid \ {current} : cont'[t] = cont[t]
  OBVIOUS
<1>2. SyncTypes'
  BY DEF SyncTypes
<1>3. Holding' /\ InCalls'
  BY <1>1 DEF Holding, InCalls, Alive
<1>4. Releasing'
  BY <1>1 DEF Releasing
<1>5. StaleOwner'
  <2> SUFFICES ASSUME NEW m \in Locks, holder[m] = NoThread, owner[m] # NoThread,
                      Awaited(m)
               PROVE  /\ Alive(owner[m])' /\ owner'[m] \notin killed'
                      /\ \E c \in Cvs :
                           LockOf[c] = m /\ cont'[owner'[m]] \in {CvRelease(c), InCvWait(c)}
    BY DEF StaleOwner, Awaited
  <2>1. /\ Alive(owner[m]) /\ owner[m] \notin killed
        /\ \E c \in Cvs :
             LockOf[c] = m /\ cont[owner[m]] \in {CvRelease(c), InCvWait(c)}
    BY DEF StaleOwner
  <2>2. owner[m] # current
    <3>1. ASSUME NEW c \in Cvs, cont[current] = CvRelease(c), q = CvQueue(c),
                 LockOf[c] = m
          PROVE  FALSE
      <4>1. ~WalkMeetsCurrent(q)
        BY <3>1 DEF WalkMeetsCurrent, OwnerOf, CvQueue
      <4>2. ready # <<>>
        BY <3>1 DEF Releasing
      <4> QED BY <4>1, <4>2 DEF CannotSleep
    <3> QED BY <2>1, <3>1
  <2> QED BY <1>1, <2>1, <2>2 DEF Alive
<1> QED BY <1>2, <1>3, <1>4, <1>5 DEF SyncInv

(* What thread_wakeup does to a thread, and that it wakes one if any waits.*)
LEMMA WakeFacts ==
  ASSUME SyncInv, cpu = "user", NEW q \in Queue, NEW all \in BOOLEAN,
         Wakeup(q, all), state' = WakeState(state, q, all)
  PROVE  /\ \A t \in Tid :
              \/ state'[t] = state[t] /\ wait_queue'[t] = wait_queue[t]
              \/ /\ state[t] = "SLEEPING" /\ wait_queue[t] = q
                 /\ state'[t] = "READY" /\ wait_queue'[t] = NoQueue
         /\ (\E t \in Tid : state[t] = "SLEEPING" /\ wait_queue[t] = q) => ready' # <<>>
<1> USE SyncFacts DEF IInv
<1> DEFINE w == Woken(q, all)
<1>1. /\ w \in Seq(Tid) /\ ToSet(w) \subseteq ToSet(waiters[q]) /\ ToSet(w) \subseteq Tid
      /\ waiters[q] # <<>> => ToSet(w) # {}
  BY WokenSplits
<1>2. \A t \in Tid : t \in ToSet(waiters[q]) <=> state[t] = "SLEEPING" /\ wait_queue[t] = q
  BY DEF QueueDiscipline
<1>3. /\ ready' = ready \o w
      /\ wait_queue' = [t \in Tid |-> IF t \in ToSet(w) THEN NoQueue ELSE wait_queue[t]]
      /\ state' = [t \in Tid |-> IF t \in ToSet(w) THEN "READY" ELSE state[t]]
  BY DEF Wakeup, WakeState
<1> HIDE DEF w
<1>4. ASSUME NEW t \in Tid, state[t] = "SLEEPING" /\ wait_queue[t] = q PROVE ready' # <<>>
  <2>1. waiters[q] # <<>>
    <3>1. ToSet(<<>>) = {} /\ t \in ToSet(waiters[q])
      BY <1>2, <1>4 DEF ToSet
    <3> QED BY <3>1
  <2>2. ready \in Seq(Tid)
    BY DEF BaseTypes
  <2>3. ToSet(ready') = ToSet(ready) \cup ToSet(w)
    BY <1>1, <1>3, <2>2, ConcatElements
  <2> QED BY <1>1, <2>1, <2>3, QueueEmpty
<1> QED BY <1>1, <1>2, <1>3, <1>4

(* lock_release                                                            *)
LEMMA ReleaseKeepsSync ==
  ASSUME SyncInv, IInv', NEW l \in Locks, LockRelease(l)
  PROVE  SyncInv'
<1> USE Names, SyncNames, SyncFacts
<1>1. \A t \in Tid :
        \/ state'[t] = state[t] /\ wait_queue'[t] = wait_queue[t]
        \/ /\ state[t] = "SLEEPING" /\ wait_queue[t] = LockQueue(l)
           /\ state'[t] = "READY" /\ wait_queue'[t] = NoQueue
  <2>1. \A all \in BOOLEAN : \A t \in Tid :
          Wakeup(LockQueue(l), all) /\ state' = WakeState(state, LockQueue(l), all) =>
          \/ state'[t] = state[t] /\ wait_queue'[t] = wait_queue[t]
          \/ /\ state[t] = "SLEEPING" /\ wait_queue[t] = LockQueue(l)
             /\ state'[t] = "READY" /\ wait_queue'[t] = NoQueue
    BY WakeFacts DEF LockRelease
  <2> QED BY <2>1 DEF LockRelease
<1>2. /\ cpu = "user" /\ cpu' = "user" /\ cont' = cont /\ killed' = killed
      /\ locks' = locks /\ cvs' = cvs
      /\ \A m \in Locks : /\ holder'[m] = IF m = l THEN NoThread ELSE holder[m]
                          /\ owner'[m] = IF m = l THEN NoThread ELSE owner[m]
      /\ holder' \in [Locks -> Tid \cup {NoThread}]
  BY DEF LockRelease, GiveBack
<1>3. SyncTypes'
  BY <1>2 DEF SyncTypes
<1>4. Holding'
  BY <1>1, <1>2 DEF Holding, Alive
<1>5. InCalls'
  BY <1>1, <1>2 DEF InCalls, Alive
<1>6. Releasing'
  BY <1>2 DEF Releasing
<1>7. StaleOwner'
  <2>1. \A m \in Locks : Awaited(m)' => Awaited(m)
    BY <1>1 DEF Awaited
  <2>2. \A t \in Tid : Alive(t) => Alive(t)'
    BY <1>1 DEF Alive
  <2> QED BY <1>2, <2>1, <2>2 DEF StaleOwner
<1> QED BY <1>3, <1>4, <1>5, <1>6, <1>7 DEF SyncInv

(* cv_wait up to its thread_sleep                                          *)
LEMMA CvWaitKeepsSync ==
  ASSUME SyncInv, IInv', NEW c \in Cvs, CvWait(c)
  PROVE  SyncInv'
<1> USE Names, SyncNames, SyncFacts
<1> DEFINE l == LockOf[c]
<1>0. l \in Locks /\ LockQueue(l) \in Queue
  OBVIOUS
<1>1. /\ \A t \in Tid :
           \/ state'[t] = state[t] /\ wait_queue'[t] = wait_queue[t]
           \/ /\ state[t] = "SLEEPING" /\ wait_queue[t] = LockQueue(l)
              /\ state'[t] = "READY" /\ wait_queue'[t] = NoQueue
      /\ Awaited(l) => ready' # <<>>
  <2> DEFINE q == LockQueue(l)
  <2>1. q \in Queue /\ cpu = "user" /\ Wakeup(q, FALSE) /\ state' = WakeState(state, q, FALSE)
    BY <1>0 DEF CvWait
  <2> HIDE DEF q
  <2>2. /\ \A t \in Tid :
             \/ state'[t] = state[t] /\ wait_queue'[t] = wait_queue[t]
             \/ /\ state[t] = "SLEEPING" /\ wait_queue[t] = q
                /\ state'[t] = "READY" /\ wait_queue'[t] = NoQueue
        /\ (\E t \in Tid : state[t] = "SLEEPING" /\ wait_queue[t] = q) => ready' # <<>>
    BY <2>1, WakeFacts
  <2> QED BY <2>2 DEF q, Awaited
<1>2. /\ cpu = "user" /\ cpu' = "kernel" /\ killed' = killed /\ current' = current
      /\ locks' = locks /\ cvs' = cvs /\ owner' = owner /\ c \in cvs
      /\ holder[l] = current
      /\ \A m \in Locks : holder'[m] = IF m = l THEN NoThread ELSE holder[m]
      /\ holder' \in [Locks -> Tid \cup {NoThread}]
      /\ cont'[current] = CvRelease(c) /\ \A t \in Tid \ {current} : cont'[t] = cont[t]
  BY DEF CvWait
<1> HIDE DEF l
<1>3. SyncTypes'
  BY <1>2 DEF SyncTypes
<1>4. Holding'
  BY <1>1, <1>2 DEF Holding, Alive
<1>5. InCalls'
  BY <1>1, <1>2 DEF InCalls, Alive
<1>6. Awaited(l)' => Awaited(l)
  BY <1>1 DEF Awaited
<1>7. Releasing'
  <2> SUFFICES ASSUME NEW t \in Tid, NEW d \in Cvs, cont'[t] = CvRelease(d)
               PROVE  /\ cpu' = "kernel" /\ t = current' /\ holder'[LockOf[d]] = NoThread
                      /\ Awaited(LockOf[d])' => ready' # <<>>
    BY DEF Releasing
  <2>1. t = current /\ d = c
    BY <1>2
  <2> QED BY <1>0, <1>1, <1>2, <1>6, <2>1 DEF l
<1>8. StaleOwner'
  <2> SUFFICES ASSUME NEW m \in Locks, holder'[m] = NoThread, owner[m] # NoThread,
                      Awaited(m)'
               PROVE  /\ Alive(owner[m])' /\ owner[m] \notin killed'
                      /\ \E d \in Cvs :
                           LockOf[d] = m /\ cont'[owner[m]] \in {CvRelease(d), InCvWait(d)}
    BY <1>2 DEF StaleOwner, Alive
  <2>1. CASE m = l
    <3>1. owner[m] = current
      BY <1>2, <2>1 DEF Holding
    <3>2. Alive(current)'
      BY <1>1, <1>2 DEF Alive
    <3> QED BY <1>2, <2>1, <3>1, <3>2 DEF l
  <2>2. CASE m # l
    <3>1. Awaited(m) /\ holder[m] = NoThread
      BY <1>1, <1>2, <2>2 DEF Awaited
    <3>2. /\ Alive(owner[m]) /\ owner[m] \notin killed /\ owner[m] \in Tid
          /\ \E d \in Cvs :
               LockOf[d] = m /\ cont[owner[m]] \in {CvRelease(d), InCvWait(d)}
      BY <1>2, <3>1 DEF StaleOwner
    <3>3. owner[m] # current
      BY <1>2, <3>2
    <3> QED BY <1>1, <1>2, <3>2, <3>3 DEF Alive
  <2> QED BY <2>1, <2>2
<1> QED BY <1>3, <1>4, <1>5, <1>7, <1>8 DEF SyncInv

(* The thread_sleep of cv_wait                                             *)
LEMMA CvSleepKeepsSync ==
  ASSUME SyncInv, IInv', NEW c \in Cvs, cpu = "kernel", cont[current] = CvRelease(c),
         SleepOn(CvQueue(c), InCvWait(c)), UNCHANGED <<killed, owner, syncVars>>
  PROVE  SyncInv'
<1> USE Names, SyncNames, SyncFacts
<1>1. /\ cpu' = "dispatch"
      /\ cont'[current] = InCvWait(c) /\ wait_queue'[current] = CvQueue(c)
      /\ state'[current] = "SLEEPING"
      /\ \A t \in Tid \ {current} :
           /\ cont'[t] = cont[t] /\ wait_queue'[t] = wait_queue[t]
           /\ \/ state'[t] = state[t]
              \/ state[t] = "READY" /\ state'[t] = "RUNNING"
  BY SleepFacts
<1>2. holder' = holder /\ owner' = owner /\ killed' = killed /\ locks' = locks
      /\ cvs' = cvs /\ holder[LockOf[c]] = NoThread
  BY DEF syncVars, Releasing
<1>3. SyncTypes'
  BY <1>2 DEF SyncTypes
<1>4. Holding'
  BY <1>1, <1>2 DEF Holding, Alive
<1>5. InCalls'
  BY <1>1, <1>2 DEF InCalls, Alive
<1>6. Releasing'
  BY <1>1, <1>2 DEF Releasing
<1>7. StaleOwner'
  <2> SUFFICES ASSUME NEW m \in Locks, holder[m] = NoThread, owner[m] # NoThread,
                      Awaited(m)'
               PROVE  /\ Alive(owner[m])' /\ owner[m] \notin killed
                      /\ \E d \in Cvs :
                           LockOf[d] = m /\ cont'[owner[m]] \in {CvRelease(d), InCvWait(d)}
    BY <1>2 DEF StaleOwner, Alive
  <2>1. Awaited(m)
    BY <1>1 DEF Awaited
  <2>2. /\ Alive(owner[m]) /\ owner[m] \notin killed /\ owner[m] \in Tid
        /\ \E d \in Cvs :
             LockOf[d] = m /\ cont[owner[m]] \in {CvRelease(d), InCvWait(d)}
    BY <2>1 DEF StaleOwner
  <2>3. CASE owner[m] = current
    <3>1. LockOf[c] = m
      BY <2>2, <2>3
    <3> QED BY <1>1, <2>2, <2>3, <3>1 DEF Alive
  <2>4. CASE owner[m] # current
    BY <1>1, <2>2, <2>4 DEF Alive
  <2> QED BY <2>3, <2>4
<1> QED BY <1>3, <1>4, <1>5, <1>6, <1>7 DEF SyncInv

(* cv_signal and cv_broadcast                                              *)
LEMMA CvNotifyKeepsSync ==
  ASSUME SyncInv, IInv', NEW c \in Cvs, NEW all \in BOOLEAN, CvNotify(c, all)
  PROVE  SyncInv'
<1> USE Names, SyncNames, SyncFacts
<1>1. \A t \in Tid :
        \/ state'[t] = state[t] /\ wait_queue'[t] = wait_queue[t]
        \/ /\ state[t] = "SLEEPING" /\ wait_queue[t] = CvQueue(c)
           /\ state'[t] = "READY" /\ wait_queue'[t] = NoQueue
  BY WakeFacts DEF CvNotify
<1>2. /\ cpu = "user" /\ cpu' = "user" /\ cont' = cont /\ killed' = killed
      /\ locks' = locks /\ cvs' = cvs /\ holder' = holder /\ owner' = owner
  BY DEF CvNotify, syncVars
<1>3. SyncTypes'
  BY <1>2 DEF SyncTypes
<1>4. Holding'
  BY <1>1, <1>2 DEF Holding, Alive
<1>5. InCalls'
  BY <1>1, <1>2 DEF InCalls, Alive
<1>6. Releasing'
  BY <1>2 DEF Releasing
<1>7. StaleOwner'
  <2>1. \A m \in Locks : Awaited(m)' => Awaited(m)
    BY <1>1 DEF Awaited
  <2>2. \A t \in Tid : Alive(t) => Alive(t)'
    BY <1>1 DEF Alive
  <2> QED BY <1>2, <2>1, <2>2 DEF StaleOwner
<1> QED BY <1>3, <1>4, <1>5, <1>6, <1>7 DEF SyncInv

-----------------------------------------------------------------------------
(* The invariant of the locks.                                             *)

LEMMA SyncInitInv == SyncInit => SyncInv
<1> SUFFICES ASSUME SyncInit PROVE SyncInv
  OBVIOUS
<1>1. IInv
  BY InitIInv DEF SyncInit
<1>2. /\ holder = [l \in Locks |-> NoThread] /\ locks = {} /\ cvs = {}
      /\ owner = [l \in Locks |-> NoThread] /\ cont = [t \in Tid |-> User]
      /\ wait_queue = [t \in Tid |-> NoQueue]
      /\ state = [t \in Tid |-> IF t = 0 THEN "RUNNING" ELSE "FREE"]
  BY DEF SyncInit, Init
<1>3. SyncTypes /\ Holding /\ StaleOwner
  BY <1>2 DEF SyncTypes, Holding, StaleOwner
<1>4. InCalls /\ Releasing
  BY <1>2, SyncNames DEF InCalls, Releasing
<1> QED BY <1>1, <1>3, <1>4 DEF SyncInv

LEMMA SyncStep == SyncInv /\ [SyncNext]_allVars => SyncInv'
<1> SUFFICES ASSUME SyncInv, [SyncNext]_allVars PROVE SyncInv'
  OBVIOUS
<1> USE SyncNames
<1>0. IInv'
  BY SyncNextIInv
<1>1. CASE (ThreadCalls \/ WaitResumed \/ Switching \/ Ended) /\ UNCHANGED syncVars
  BY <1>1, ThreadsKeepSync DEF ThreadStep
<1>2. CASE UNCHANGED allVars
  BY <1>2, ThreadsKeepSync DEF ThreadStep, allVars
<1>3. ASSUME NEW l \in Locks, LockAcquire(l) PROVE SyncInv'
  <2>1. /\ cpu = "user" /\ l \in locks /\ UNCHANGED <<locks, cvs>>
        /\ Take(l) \/ SleepFor(l)
    BY <1>3 DEF LockAcquire
  <2>2. cont[current] = User
    BY <2>1, SyncFacts
  <2>3. \A c \in Cvs : /\ cont[current] # CvRelease(c)
                       /\ cont[current] = InCvWait(c) => LockOf[c] = l
    BY <2>2
  <2> QED BY <1>0, <2>1, <2>3, TakeKeepsSync, SleepForKeepsSync
<1>4. CASE LockCalls
  <2>1. \A l \in Locks : LockCreate(l) \/ LockDestroy(l) => SyncInv'
    BY <1>0, CreateAndDestroy
  <2>2. \A c \in Cvs : CvCreate(c) \/ CvDestroy(c) => SyncInv'
    BY <1>0, CreateAndDestroy
  <2>3. \A l \in Locks : LockRelease(l) => SyncInv'
    BY <1>0, ReleaseKeepsSync
  <2>4. \A c \in Cvs : CvWait(c) => SyncInv'
    BY <1>0, CvWaitKeepsSync
  <2>5. \A c \in Cvs : CvSignal(c) \/ CvBroadcast(c) => SyncInv'
    BY <1>0, CvNotifyKeepsSync DEF CvSignal, CvBroadcast
  <2> QED BY <1>3, <1>4, <2>1, <2>2, <2>3, <2>4, <2>5 DEF LockCalls
<1>5. ASSUME NEW l \in Locks, AcquireResumed(l) PROVE SyncInv'
  <2>1. /\ cpu = "kernel" /\ UNCHANGED <<locks, cvs>>
        /\ Take(l) \/ SleepFor(l) \/ (holder[l] # NoThread /\ GiveUp(LockQueue(l)))
        /\ \/ cont[current] = InAcquire(l)
           \/ \E c \in Cvs : LockOf[c] = l /\ cont[current] = InCvWait(c)
    BY <1>5 DEF AcquireResumed
  <2>2. l \in locks
    BY <2>1, SyncFacts DEF InCalls
  <2>3. \A c \in Cvs : /\ cont[current] # CvRelease(c)
                       /\ cont[current] = InCvWait(c) => LockOf[c] = l
    BY <2>1
  <2>4. CASE Take(l)
    BY <1>0, <2>1, <2>2, <2>3, <2>4, TakeKeepsSync
  <2>5. CASE SleepFor(l)
    BY <1>0, <2>1, <2>2, <2>3, <2>5, SleepForKeepsSync
  <2>6. CASE holder[l] # NoThread /\ GiveUp(LockQueue(l))
    BY <1>0, <2>1, <2>3, <2>6, GiveUpKeepsSync
  <2> QED BY <2>1, <2>4, <2>5, <2>6
<1>6. ASSUME NEW c \in Cvs, CvSleep(c) PROVE SyncInv'
  <2>1. cpu = "kernel" /\ cont[current] = CvRelease(c) /\ UNCHANGED <<locks, cvs>>
    BY <1>6 DEF CvSleep
  <2>2. CASE GiveUp(CvQueue(c))
    BY <1>0, <2>1, <2>2, GiveUpKeepsSync
  <2>3. CASE ~GiveUp(CvQueue(c))
    BY <1>0, <1>6, <2>1, <2>3, CvSleepKeepsSync DEF CvSleep, syncVars
  <2> QED BY <2>2, <2>3
<1>7. CASE LockResumed
  BY <1>5, <1>6, <1>7 DEF LockResumed
<1> QED BY <1>1, <1>2, <1>4, <1>7 DEF SyncNext

(* The calls of thread.c on threads, locks and cvs, in any order and from  *)
(* any number of threads, keep the invariant.                              *)
THEOREM SyncInvariant == SyncSpec => []SyncInv
<1> QED BY SyncInitInv, SyncStep, PTL DEF SyncSpec

(* Types, and queues no longer than their THREAD_MAX_THREADS slots.        *)
THEOREM SyncTypesOK == SyncSpec => []SyncTypeOK
<1>1. SyncInv => SyncTypeOK
  BY IInvTypeOK DEF SyncInv, SyncTypeOK, SyncTypes
<1> QED BY <1>1, SyncInvariant, PTL

(* With locks as well, no set of threads blocks itself: thread_sleep       *)
(* refuses the sleep that would close a cycle of joins and locks.          *)
THEOREM SyncNoCircularWait == SyncSpec => []NoWaitCycle
<1>1. SyncInv => NoWaitCycle
  BY DEF SyncInv, IInv
<1> QED BY <1>1, SyncInvariant, PTL

(* A lock is held by a live thread that is not in one of its queues; a     *)
(* lock or cv that lock_destroy or cv_destroy took away is in no use.      *)
THEOREM HoldersAreActive == SyncSpec => []HolderIsActive
<1>1. ASSUME SyncInv, cpu # "halted" PROVE HolderIsActive
  <2> USE SyncNames, Names
  <2>1. /\ Holding /\ InCalls /\ QueueDiscipline /\ SyncTypes
        /\ state \in [Tid -> {"FREE", "READY", "RUNNING", "SLEEPING", "ZOMBIE"}]
        /\ waiters \in [Queue -> Seq(Tid)]
    BY <1>1 DEF SyncInv, IInv, BaseTypes
  <2>2. ASSUME NEW l \in Locks, holder[l] # NoThread
        PROVE  /\ l \in locks /\ state[holder[l]] \in {"RUNNING", "READY", "SLEEPING"}
               /\ wait_queue[holder[l]] # LockQueue(l)
               /\ \A c \in Cvs : LockOf[c] = l => wait_queue[holder[l]] # CvQueue(c)
    <3> DEFINE h == holder[l]
    <3>1. /\ h \in Tid /\ l \in locks /\ Alive(h) /\ cont[h] # InAcquire(l)
          /\ \A c \in Cvs : LockOf[c] = l => cont[h] # InCvWait(c)
      BY <2>1, <2>2 DEF Holding, SyncTypes
    <3> HIDE DEF h
    <3>2. CASE state[h] = "SLEEPING"
      BY <2>1, <3>1, <3>2 DEF InCalls, h
    <3>3. CASE state[h] # "SLEEPING"
      BY <2>1, <3>1, <3>3 DEF InCalls, Alive, h
    <3> QED BY <3>2, <3>3
  <2>3. ASSUME NEW q \in Queue, \A t \in Tid : ~(state[t] = "SLEEPING" /\ wait_queue[t] = q)
        PROVE  waiters[q] = <<>>
    <3>1. waiters[q] \in Seq(Tid) /\ \A t \in Tid : t \notin ToSet(waiters[q])
      BY <1>1, <2>1, <2>3 DEF QueueDiscipline
    <3> QED BY <3>1, QueueEmpty
  <2>4. \A l \in Locks \ locks : waiters[LockQueue(l)] = <<>>
    BY <2>1, <2>3 DEF InCalls, Alive
  <2>5. \A c \in Cvs \ cvs : waiters[CvQueue(c)] = <<>>
    BY <2>1, <2>3 DEF InCalls, Alive
  <2>6. \A c \in Cvs : c \in cvs => LockOf[c] \in locks
    BY <2>1 DEF InCalls
  <2> QED BY <2>2, <2>4, <2>5, <2>6 DEF HolderIsActive
<1>2. SyncInv => HolderIsActive
  BY <1>1 DEF HolderIsActive
<1> QED BY <1>2, SyncInvariant, PTL

(* THREAD_DEADLOCK is said of real deadlocks only, although cv_wait leaves *)
(* a stale owner in the queue of the lock it gives back.  The witness is   *)
(* the set of the threads from which the walk cannot but reach the caller. *)
THEOREM DeadlocksAreReal == SyncSpec => []OnlyRealDeadlocks
<1>1. ASSUME SyncInv, cpu = "user", NEW q \in Queue, Needs(q) # NoThread,
             WalkMeetsCurrent(q)
      PROVE  \E S \in SUBSET Tid :
               /\ {current, Needs(q)} \subseteq S
               /\ \A t \in S \ {current} : Blocked(t) /\ Needs(wait_queue[t]) \in S
  <2> USE SyncNames, Names
  <2> DEFINE Closed(C) == \A t \in C \ {current} :
                            Blocked(t) /\ BlockedBy(t) # NoThread => BlockedBy(t) \in C
             G == {t \in Tid : \A C \in SUBSET Tid : Closed(C) /\ t \in C => current \in C}
  <2>1. /\ current \in Tid /\ cont[current] = User
        /\ Holding /\ InCalls /\ StaleOwner
        /\ owner \in [Locks -> Tid \cup {NoThread}]
        /\ holder \in [Locks -> Tid \cup {NoThread}]
        /\ wait_queue \in [Tid -> Queue \cup {NoQueue}]
        /\ \A t \in Tid, c \in Cvs : cont[t] # CvRelease(c)
    BY <1>1, SyncFacts
  <2>2. \A p \in Queue : /\ OwnerOf(p) \in Tid \cup {NoThread}
                         /\ Needs(p) # NoThread => Needs(p) = OwnerOf(p)
    BY <2>1 DEF Queue, JoinQueue, LockQueue, CvQueue, OwnerOf, Needs, Holding
  <2>3. Needs(q) \in G /\ current \in G
    BY <1>1, <2>1, <2>2 DEF WalkMeetsCurrent
  <2>4. ASSUME NEW t \in G \ {current}
        PROVE  Blocked(t) /\ BlockedBy(t) \in G
    <3>1. Blocked(t) /\ BlockedBy(t) # NoThread
      <4>1. ~Closed({t})
        OBVIOUS
      <4> QED BY <4>1
    <3>2. BlockedBy(t) \in Tid
      BY <2>1, <2>2, <3>1 DEF Blocked, BlockedBy
    <3>3. ASSUME NEW C \in SUBSET Tid, Closed(C), BlockedBy(t) \in C
          PROVE  current \in C
      <4>1. Closed(C \cup {t}) /\ t \in C \cup {t} /\ C \cup {t} \in SUBSET Tid
        BY <3>3
      <4>2. current \in C \cup {t}
        BY <4>1
      <4> QED BY <4>2
    <3> QED BY <3>1, <3>2, <3>3
  <2> HIDE DEF G
  <2>5. G \subseteq Tid
    BY DEF G
  <2>6. ASSUME NEW t \in G \ {current}
        PROVE  Needs(wait_queue[t]) \in G
    <3> DEFINE p == wait_queue[t]
    <3>1. /\ t \in Tid /\ state[t] = "SLEEPING" /\ p \in Queue
          /\ OwnerOf(p) \in G /\ OwnerOf(p) # NoThread
      BY <2>1, <2>4, <2>5 DEF Blocked, BlockedBy
    <3>2. ASSUME Needs(p) = NoThread PROVE FALSE
      <4>1. PICK l \in Locks : p = LockQueue(l) /\ holder[l] = NoThread /\ OwnerOf(p) = owner[l]
        BY <3>1, <3>2 DEF Queue, JoinQueue, LockQueue, CvQueue, OwnerOf, Needs
      <4>2. Awaited(l)
        BY <3>1, <4>1 DEF Awaited
      <4>3. PICK c \in Cvs : cont[owner[l]] = InCvWait(c)
        BY <2>1, <2>5, <3>1, <4>1, <4>2 DEF StaleOwner
      <4>4. owner[l] \in G \ {current}
        BY <2>1, <3>1, <4>1, <4>3
      <4>5. /\ Blocked(owner[l]) /\ BlockedBy(owner[l]) \in G /\ owner[l] \in Tid
        BY <2>4, <2>5, <4>4
      <4>6. wait_queue[owner[l]] = CvQueue(c)
        BY <2>1, <4>3, <4>5 DEF InCalls, Blocked
      <4>7. BlockedBy(owner[l]) = NoThread
        BY <4>6 DEF BlockedBy, OwnerOf, CvQueue
      <4> QED BY <2>5, <4>5, <4>7
    <3> QED BY <2>2, <3>1, <3>2
  <2> QED BY <2>3, <2>4, <2>5, <2>6
<1>2. SyncInv => OnlyRealDeadlocks
  BY <1>1 DEF OnlyRealDeadlocks
<1> QED BY <1>2, SyncInvariant, PTL

-----------------------------------------------------------------------------
(* The lock and cv calls do four things to the threads: nothing, take or   *)
(* give up a lock, wake threads, put the caller to sleep.                  *)
Quiet ==
  /\ cpu \in {"user", "kernel"} /\ cpu' = "user"
  /\ UNCHANGED <<current, resumed, threadVars, ready, waiters, stackVars>>

Waking(q, all) ==
  /\ cpu = "user" /\ cpu' \in {"user", "kernel"}
  /\ Wakeup(q, all) /\ state' = WakeState(state, q, all)
  /\ UNCHANGED <<current, resumed, killed, stackVars>>

Sleeping(q, k) ==
  /\ cpu \in {"user", "kernel"} /\ SleepOn(q, k)
  /\ UNCHANGED <<killed, stackVars>>

LEMMA StepKinds ==
  ASSUME [SyncNext]_allVars
  PROVE  \/ [Next]_vars
         \/ Quiet
         \/ \E q \in LockQueues, all \in BOOLEAN : Waking(q, all)
         \/ \E q \in LockQueues, k \in LockCont : Sleeping(q, k)
<1> USE SyncNames
<1>0. /\ \A l \in Locks : LockQueue(l) \in LockQueues
      /\ \A c \in Cvs : CvQueue(c) \in LockQueues
  BY DEF LockQueues
<1>1. CASE ThreadCalls \/ WaitResumed \/ Switching \/ Ended \/ UNCHANGED allVars
  BY <1>1 DEF ThreadCalls, Next, Calls, allVars
<1>2. ASSUME NEW l \in Locks, LockCreate(l) PROVE Quiet
  BY <1>2 DEF LockCreate, Quiet
<1>3. (\E l \in Locks : LockDestroy(l)) \/ (\E c \in Cvs : CvCreate(c) \/ CvDestroy(c))
        => [Next]_vars
  BY DEF LockDestroy, CvCreate, CvDestroy
<1>4. ASSUME cpu \in {"user", "kernel"}
      PROVE  /\ \A l \in Locks : Take(l) => Quiet
             /\ \A q \in Queue : GiveUp(q) => Quiet
             /\ \A l \in Locks : SleepFor(l) => Sleeping(LockQueue(l), InAcquire(l))
  BY <1>4 DEF Take, GiveUp, SleepFor, Quiet, Sleeping, queueVars
<1>5. \A l \in Locks : LockRelease(l) => Waking(LockQueue(l), FALSE)
  BY DEF LockRelease, Waking
<1>6. \A c \in Cvs : CvWait(c) => Waking(LockQueue(LockOf[c]), FALSE)
  BY DEF CvWait, Waking
<1>7. \A c \in Cvs : CvSignal(c) \/ CvBroadcast(c) =>
                       \E all \in BOOLEAN : Waking(CvQueue(c), all)
  BY DEF CvSignal, CvBroadcast, CvNotify, Waking
<1>8. CASE LockCalls
  BY <1>0, <1>2, <1>3, <1>4, <1>5, <1>6, <1>7, <1>8, ZenonT(60) DEF LockCalls, LockAcquire
<1>9. CASE LockResumed
  BY <1>0, <1>4, <1>9 DEF LockResumed, AcquireResumed, CvSleep, Sleeping
<1> QED BY <1>1, <1>8, <1>9 DEF SyncNext

-----------------------------------------------------------------------------
(* Without thread_kill: what Threads_proofs shows of the threads alone.    *)

LEMMA SyncNoKillStep ==
  ASSUME ~MayKill, SyncInv, NoKillInv, [SyncNext]_allVars
  PROVE  NoKillInv'
<1> USE Names, SyncNames
<1>0. /\ IInv /\ current \in Tid /\ ready \in Seq(Tid) /\ IsInjective(ready)
      /\ state \in [Tid -> {"FREE", "READY", "RUNNING", "SLEEPING", "ZOMBIE"}]
      /\ \A q \in LockQueues : q \in Queue
  BY DEF SyncInv, IInv, BaseTypes, NoRepeats, LockQueues
<1>1. CASE [Next]_vars
  BY <1>0, <1>1, NoKillStep
<1>2. CASE Quiet
  BY <1>2 DEF Quiet, threadVars, NoKillInv, NothingReadyIsLost
<1>3. ASSUME NEW q \in LockQueues, NEW all \in BOOLEAN, Waking(q, all)
      PROVE  NoKillInv'
  <2> DEFINE w == Woken(q, all)
  <2>1. w \in Seq(Tid)
    BY <1>0, WokenSplits DEF IInv
  <2>2. /\ ready' = ready \o w
        /\ state' = [t \in Tid |-> IF t \in ToSet(w) THEN "READY" ELSE state[t]]
    BY <1>3 DEF Waking, Wakeup, WakeState
  <2> HIDE DEF w
  <2>3. ToSet(ready') = ToSet(ready) \cup ToSet(w)
    BY <1>0, <2>1, <2>2, ConcatElements
  <2> QED BY <1>3, <2>2, <2>3 DEF Waking, NoKillInv, NothingReadyIsLost
<1>4. ASSUME NEW q \in LockQueues, NEW k \in LockCont, Sleeping(q, k)
      PROVE  NoKillInv'
  <2>1. PICK next \in Tid :
          /\ ready' = RemoveFirst(ready, next)
          /\ state' = [state EXCEPT ![current] = "SLEEPING", ![next] = "RUNNING"]
    BY <1>4 DEF Sleeping, SleepOn
  <2>2. ToSet(ready') = ToSet(ready) \ {next}
    BY <1>0, <2>1, QueueRemove
  <2> QED BY <1>0, <1>4, <2>1, <2>2
      DEF Sleeping, SleepOn, SwitchTo, NoKillInv, NothingReadyIsLost
<1> QED BY <1>1, <1>2, <1>3, <1>4, StepKinds

LEMMA SyncNoKillInvariance == ASSUME ~MayKill PROVE SyncSpec => []NoKillInv
<1>1. SyncInit => NoKillInv
  BY Names DEF SyncInit, Init, NoKillInv, NothingReadyIsLost
<1>2. SyncInv /\ NoKillInv /\ [SyncNext]_allVars => NoKillInv'
  BY SyncNoKillStep
<1> QED BY <1>1, <1>2, SyncInvariant, PTL DEF SyncSpec

(* No lock or cv call loses a READY thread: lock_release, cv_signal and    *)
(* cv_broadcast put those they wake in the ready queue.                    *)
THEOREM SyncNothingLost == ASSUME ~MayKill PROVE SyncSpec => []NothingReadyIsLost
<1>1. NoKillInv => NothingReadyIsLost
  BY DEF NoKillInv
<1> QED BY <1>1, SyncNoKillInvariance, PTL

LEMMA SyncStackStep ==
  ASSUME SyncInv, NoKillInv, StackInv, [SyncNext]_allVars
  PROVE  StackInv'
<1>1. CASE [Next]_vars
  BY <1>1, StackStep DEF SyncInv
<1>2. CASE Quiet
  BY <1>2 DEF Quiet, stackVars, StackInv, StackInUse, NoStackLeak
<1>3. ASSUME NEW q, NEW all, Waking(q, all) PROVE StackInv'
  BY <1>3 DEF Waking, stackVars, StackInv, StackInUse, NoStackLeak
<1>4. ASSUME NEW q, NEW k, Sleeping(q, k) PROVE StackInv'
  BY <1>4 DEF Sleeping, SleepOn, SwitchTo, stackVars, StackInv, StackInUse, NoStackLeak
<1> QED BY <1>1, <1>2, <1>3, <1>4, StepKinds

LEMMA SyncStackInvariance == ASSUME ~MayKill PROVE SyncSpec => []StackInv
<1>1. SyncInit => StackInv
  BY Names DEF SyncInit, Init, StackInv, StackInUse, NoStackLeak
<1>2. SyncInv /\ NoKillInv /\ StackInv /\ [SyncNext]_allVars => StackInv'
  BY SyncStackStep
<1> QED BY <1>1, <1>2, SyncInvariant, SyncNoKillInvariance, PTL DEF SyncSpec

(* With the lock and cv calls too, the processor's stack is not freed.     *)
THEOREM SyncStacksAlive == ASSUME ~MayKill PROVE SyncSpec => []StackInUse
<1>1. StackInv => StackInUse
  BY DEF StackInv, StackInUse
<1> QED BY <1>1, SyncStackInvariance, PTL

(* With the lock and cv calls too, no stack is leaked.                     *)
THEOREM SyncStacksOwned == ASSUME ~MayKill PROVE SyncSpec => []NoStackLeak
<1>1. StackInv => NoStackLeak
  BY DEF StackInv
<1> QED BY <1>1, SyncStackInvariance, PTL

-----------------------------------------------------------------------------
(* A queue changes at its end, at its head, or is emptied.                 *)
LEMMA QueueSteps ==
  ASSUME ~MayKill, IInv, [SyncNext]_allVars, NEW q \in Queue
  PROVE  \/ waiters'[q] = waiters[q]
         \/ current \notin ToSet(waiters[q]) /\ waiters'[q] = Append(waiters[q], current)
         \/ waiters[q] # <<>> /\ waiters'[q] = Tail(waiters[q])
         \/ waiters'[q] = <<>>
<1> USE Names, SyncNames
<1>0. /\ waiters \in [Queue -> Seq(Tid)] /\ current \in Tid
      /\ \A p \in LockQueues : p \in Queue
      /\ cpu \in {"user", "kernel"} => \A p \in Queue : current \notin ToSet(waiters[p])
  BY DEF IInv, BaseTypes, LockQueues, QueueDiscipline, CurrentOK, OnlyCurrentRuns
<1> DEFINE Goal == \/ waiters'[q] = waiters[q]
                   \/ /\ current \notin ToSet(waiters[q])
                      /\ waiters'[q] = Append(waiters[q], current)
                   \/ waiters[q] # <<>> /\ waiters'[q] = Tail(waiters[q])
                   \/ waiters'[q] = <<>>
<1>1. ASSUME NEW p \in Queue, NEW k, cpu \in {"user", "kernel"}, SleepOn(p, k)
      PROVE  Goal
  BY <1>0, <1>1 DEF SleepOn
<1>2. ASSUME NEW p \in Queue, NEW all \in BOOLEAN, Wakeup(p, all)
      PROVE  Goal
  BY <1>0, <1>2 DEF Wakeup, StillWaiting
<1>3. ASSUME [Next]_vars PROVE Goal
  <2>1. ASSUME NEW t \in Tid, WaitSleep(t) PROVE Goal
    BY <1>1, <2>1 DEF WaitSleep
  <2>2. ASSUME BeginExit PROVE Goal
    BY <1>0, <1>2, <2>2 DEF BeginExit
  <2>3. \A next \in Tid : YieldSwitch(next) => Goal
    BY DEF YieldSwitch
  <2>4. WaitResumed \/ ExitSwitch \/ ExitSwitchReturns \/ ProcessEnd \/ Dispatch => Goal
    BY DEF WaitResumed, ExitSwitch, ExitSwitchReturns, ProcessEnd, Dispatch, queueVars
  <2>5. \A t \in Tid : ThreadCreate(t) \/ ThreadCreateNoStack(t) \/ WaitReap(t) => Goal
    BY DEF ThreadCreate, ThreadCreateNoStack, WaitReap, queueVars
  <2>6. UNCHANGED vars => Goal
    BY DEF vars, queueVars
  <2> HIDE DEF Goal
  <2> QED BY <1>3, <2>1, <2>2, <2>3, <2>4, <2>5, <2>6
      DEF Next, Calls, ThreadExit, Switching, KilledExit, KilledExitAgain, Ended,
          YieldAny, YieldTo, ThreadKill
<1>4. Quiet => Goal
  BY DEF Quiet
<1>5. ASSUME NEW p \in LockQueues, NEW all \in BOOLEAN, Waking(p, all) PROVE Goal
  BY <1>0, <1>2, <1>5 DEF Waking
<1>6. ASSUME NEW p \in LockQueues, NEW k \in LockCont, Sleeping(p, k) PROVE Goal
  BY <1>0, <1>1, <1>6 DEF Sleeping
<1> HIDE DEF Goal
<1>7. Goal
  BY <1>3, <1>4, <1>5, <1>6, StepKinds
<1> QED BY <1>7 DEF Goal

(* thread_wakeup wakes in the order of arrival: a thread that is still in  *)
(* its queue after a step has everybody who came later still behind it.    *)
THEOREM WakeOrder == SyncSpec => WokenInOrder
<1>1. ASSUME SyncInv, [SyncNext]_allVars, ~MayKill, NEW q \in Queue,
             NEW i \in DOMAIN waiters[q], NEW j \in DOMAIN waiters[q], i < j,
             waiters[q][i] \in ToSet(waiters'[q])
      PROVE  waiters[q][j] \in ToSet(waiters'[q])
  <2> DEFINE s == waiters[q]
  <2>1. s \in Seq(Tid) /\ IsInjective(s) /\ current \in Tid /\ IInv
    BY <1>1 DEF SyncInv, IInv, BaseTypes, NoRepeats
  <2>2. s[i] \in ToSet(s) /\ s[j] \in ToSet(s)
    BY DEF ToSet
  <2>3. CASE waiters'[q] = s
    BY <2>2, <2>3
  <2>4. CASE current \notin ToSet(s) /\ waiters'[q] = Append(s, current)
    BY <2>1, <2>2, <2>4, QueueAppend
  <2>5. CASE s # <<>> /\ waiters'[q] = Tail(s)
    <3>1. ToSet(Tail(s)) = ToSet(s) \ {Head(s)}
      BY <2>1, <2>5, QueueTail
    <3>2. Head(s) = s[1] /\ Len(s) \in Nat /\ DOMAIN s = 1 .. Len(s)
      BY <2>1, <2>5
    <3>3. 1 \in DOMAIN s /\ j \in DOMAIN s /\ j # 1
      BY <1>1, <3>2
    <3>4. s[j] # Head(s)
      BY <2>1, <3>2, <3>3 DEF IsInjective
    <3> QED BY <2>2, <2>5, <3>1, <3>4
  <2>6. CASE waiters'[q] = <<>>
    BY <1>1, <2>6 DEF ToSet
  <2> HIDE DEF s
  <2> QED BY <1>1, <2>1, <2>3, <2>4, <2>5, <2>6, QueueSteps DEF s
<1>2. SyncInv /\ [SyncNext]_allVars =>
        [MayKill \/
         \A q \in Queue : \A i, j \in DOMAIN waiters[q] :
           i < j /\ waiters[q][i] \in ToSet(waiters'[q])
             => waiters[q][j] \in ToSet(waiters'[q])]_allVars
  <2> SUFFICES ASSUME SyncInv, [SyncNext]_allVars, ~MayKill
               PROVE  \A q \in Queue : \A i, j \in DOMAIN waiters[q] :
                        i < j /\ waiters[q][i] \in ToSet(waiters'[q])
                          => waiters[q][j] \in ToSet(waiters'[q])
    OBVIOUS
  <2> QED BY <1>1
<1> QED BY <1>2, SyncInvariant, PTL DEF SyncSpec, WokenInOrder

-----------------------------------------------------------------------------
(* No wake-up is lost (without thread_kill).                               *)

(* A thread in lock_acquire(l) that has been woken and not yet run; or it  *)
(* has been dispatched, and is about to look at the lock again.            *)
OnItsWay(t, l) ==
  /\ cont[t] = InAcquire(l)
  /\ state[t] = "READY" \/ (t = current /\ cpu \in {"dispatch", "kernel"})

HandedOn ==
  cpu # "halted" =>
  \A l \in Locks : holder[l] = NoThread /\ Awaited(l) => \E t \in Tid : OnItsWay(t, l)

(* A step that leaves a lock free, and makes nobody start to wait for it,  *)
(* leaves the thread that was on its way to it on its way.                 *)
LEMMA StillOnItsWay ==
  ASSUME HandedOn, cpu # "halted", NEW l \in Locks, holder[l] = NoThread,
         Awaited(l)' => Awaited(l),
         \A t \in Tid : OnItsWay(t, l) => OnItsWay(t, l)'
  PROVE  Awaited(l)' => \E t \in Tid : OnItsWay(t, l)'
BY DEF HandedOn

(* The steps of the threads                                                *)
LEMMA ThreadsHandOn ==
  ASSUME ~MayKill, SyncInv, NoKillInv, HandedOn, ThreadStep, UNCHANGED syncVars
  PROVE  HandedOn'
<1> USE Names, SyncNames
<1> SUFFICES ASSUME cpu' # "halted", NEW l \in Locks, holder[l] = NoThread
             PROVE  Awaited(l)' => \E t \in Tid : OnItsWay(t, l)'
  BY DEF HandedOn, syncVars
<1>1. cpu # "halted"
  BY DEF ThreadStep, ThreadCalls, WaitResumed, Switching, Ended, YieldAny, YieldTo,
     YieldSwitch, ThreadCreate, ThreadCreateNoStack, ThreadKill, WaitReap, WaitSleep,
     ThreadExit, KilledExit, KilledExitAgain, ProcessEnd, ExitSwitch,
     ExitSwitchReturns, Dispatch, vars
<1>2. ThreadFrame /\ IInv /\ killed = {} /\ cpu # "again"
  BY <1>1, ThreadStepFrame DEF SyncInv, NoKillInv
<1>3. Awaited(l)' => Awaited(l)
  BY <1>2 DEF Awaited, ThreadFrame, LockQueues
<1>4. ASSUME NEW t \in Tid, OnItsWay(t, l) PROVE OnItsWay(t, l)'
  <2>0. /\ current \in Tid /\ cont \in [Tid -> Cont]
        /\ state \in [Tid -> {"FREE", "READY", "RUNNING", "SLEEPING", "ZOMBIE"}]
        /\ cont[t] \in LockCont /\ cont[t] # User
        /\ \A u \in Tid : state[u] = "RUNNING" <=>
                             u = current /\ cpu \in {"user", "dispatch", "kernel"}
        /\ cpu = "user" => cont[current] = User
    BY <1>1, <1>4, <1>2 DEF IInv, BaseTypes, OnItsWay, CurrentOK, OnlyCurrentRuns, Joining
  <2>1. cont'[t] = InAcquire(l) /\ cont[t] = InAcquire(l)
    BY <1>2, <1>4, <2>0 DEF ThreadFrame, OnItsWay, Alive
  <2>2. CASE cpu = "kernel" /\ t = current
    BY <1>2, <1>4, <2>0, <2>2
    DEF ThreadFrame, OnItsWay, vars, threadVars
  <2>3. CASE cpu = "dispatch" /\ t = current
    <3>1. ThreadStep => Dispatch \/ UNCHANGED vars
      BY <1>2, <2>3
      DEF ThreadStep, ThreadCalls, WaitResumed, Switching, Ended, YieldAny, YieldTo,
          YieldSwitch, ThreadCreate, ThreadCreateNoStack, ThreadKill, WaitReap, WaitSleep,
          ThreadExit, KilledExit, KilledExitAgain, ProcessEnd, ExitSwitch,
          ExitSwitchReturns, SeenKilled
    <3>2. CASE Dispatch
      BY <2>0, <2>1, <2>3, <3>2 DEF Dispatch, OnItsWay
    <3>3. CASE UNCHANGED vars
      BY <1>4, <3>3 DEF OnItsWay, vars, threadVars
    <3> QED BY <3>1, <3>2, <3>3
  <2>4. CASE state[t] = "READY"
    <3>1. state'[t] = "READY" \/ (t = current' /\ cpu' = "dispatch")
      <4>1. t # current \/ cpu \in {"exit"}
        BY <1>1, <1>2, <2>0, <2>4 DEF IInv, BaseTypes
      <4>2. \A next \in Tid : YieldSwitch(next) =>
              state'[t] = "READY" \/ (t = current' /\ cpu' = "dispatch")
        BY <2>0, <2>4 DEF YieldSwitch, SwitchTo
      <4>3. \A u \in Tid : ThreadCreate(u) \/ ThreadCreateNoStack(u) \/ WaitReap(u) =>
              state'[t] = "READY"
        BY <2>0, <2>4 DEF ThreadCreate, ThreadCreateNoStack, WaitReap, Reapable, Destroy
      <4>4. \A u \in Tid : WaitSleep(u) =>
              state'[t] = "READY" \/ (t = current' /\ cpu' = "dispatch")
        BY <2>0, <2>4 DEF WaitSleep, SleepOn, SwitchTo
      <4>5. BeginExit /\ cpu = "user" => state'[t] = "READY"
        BY <2>0, <2>4 DEF BeginExit, WakeState
      <4>6. WaitResumed => state'[t] = "READY"
        BY <1>2, <2>4, JoinerReapsNobody
      <4>7. ExitSwitch => state'[t] = "READY" \/ (t = current' /\ cpu' = "dispatch")
        BY <2>0, <2>4 DEF ExitSwitch, SwitchTo
      <4>8. Dispatch \/ UNCHANGED vars => state'[t] = "READY"
        BY <2>4 DEF Dispatch, vars, threadVars
      <4>9. ~KilledExit /\ ~KilledExitAgain /\ ~ExitSwitchReturns /\ ~ProcessEnd
            /\ ~\E u \in Tid : ThreadKill(u)
        BY <1>2 DEF KilledExit, KilledExitAgain, ExitSwitchReturns, ThreadKill, SeenKilled,
           ProcessEnd, NoKillInv
      <4> QED BY <4>2, <4>3, <4>4, <4>5, <4>6, <4>7, <4>8, <4>9
          DEF ThreadStep, ThreadCalls, Switching, Ended, YieldAny, YieldTo, ThreadExit
    <3> QED BY <2>1, <3>1 DEF OnItsWay
  <2> QED BY <1>4, <2>2, <2>3, <2>4 DEF OnItsWay
<1> QED BY <1>1, <1>3, <1>4, StillOnItsWay

(* thread_sleep takes the place of nobody on the way to another lock.      *)
LEMMA SleepHandsOn ==
  ASSUME SyncInv, HandedOn, cpu \in {"user", "kernel"}, UNCHANGED holder,
         NEW q \in Queue, NEW k \in Cont, SleepOn(q, k),
         \A l \in Locks : holder[l] = NoThread =>
           q # LockQueue(l) /\ cont[current] # InAcquire(l)
  PROVE  HandedOn'
<1> USE Names, SyncNames, SyncFacts
<1> SUFFICES ASSUME NEW l \in Locks, holder[l] = NoThread
             PROVE  Awaited(l)' => \E t \in Tid : OnItsWay(t, l)'
  BY DEF HandedOn
<1>1. /\ cpu' = "dispatch" /\ wait_queue'[current] = q
      /\ \A t \in Tid \ {current} :
           /\ cont'[t] = cont[t] /\ wait_queue'[t] = wait_queue[t]
           /\ \/ state'[t] = state[t]
              \/ state[t] = "READY" /\ state'[t] = "RUNNING" /\ t = current'
  BY SleepFacts
<1>2. Awaited(l)' => Awaited(l)
  BY <1>1 DEF Awaited
<1>3. ASSUME NEW t \in Tid, OnItsWay(t, l) PROVE OnItsWay(t, l)'
  BY <1>1, <1>3 DEF OnItsWay
<1> QED BY <1>2, <1>3, StillOnItsWay

(* A call that does not sleep: who is READY stays so.                      *)
LEMMA RunningHandsOn ==
  ASSUME SyncInv, HandedOn, cpu \in {"user", "kernel"}, NEW l \in Locks,
         holder[l] = NoThread, cont[current] # InAcquire(l),
         \A t \in Tid \ {current} : cont'[t] = cont[t],
         \A t \in Tid :
           \/ state'[t] = state[t] /\ wait_queue'[t] = wait_queue[t]
           \/ wait_queue'[t] = NoQueue /\ state'[t] = "READY"
  PROVE  Awaited(l)' => \E t \in Tid : OnItsWay(t, l)'
<1> USE Names, SyncNames, SyncFacts
<1>1. Awaited(l)' => Awaited(l)
  BY DEF Awaited
<1>2. ASSUME NEW t \in Tid, OnItsWay(t, l) PROVE OnItsWay(t, l)'
  BY <1>2 DEF OnItsWay
<1> QED BY <1>1, <1>2, StillOnItsWay

(* The one that is woken is on its way.                                    *)
LEMMA WakeHandsOn ==
  ASSUME SyncInv, cpu = "user", NEW l \in Locks,
         Wakeup(LockQueue(l), FALSE), state' = WakeState(state, LockQueue(l), FALSE),
         \A t \in Tid \ {current} : cont'[t] = cont[t]
  PROVE  Awaited(l)' => \E t \in Tid : OnItsWay(t, l)'
<1> USE Names, SyncNames, SyncFacts
<1> DEFINE q == LockQueue(l)
           w == Woken(q, FALSE)
<1>0. q \in Queue /\ FALSE \in BOOLEAN /\ IInv /\ waiters[q] \in Seq(Tid)
      /\ Wakeup(q, FALSE) /\ state' = WakeState(state, q, FALSE)
  BY DEF IInv, BaseTypes
<1> HIDE DEF q
<1>1. /\ ToSet(w) \subseteq ToSet(waiters[q]) /\ ToSet(w) \subseteq Tid
      /\ waiters[q] # <<>> => ToSet(w) # {}
  BY <1>0, WokenSplits DEF IInv
<1>2. \A t \in Tid : t \in ToSet(waiters[q]) <=> state[t] = "SLEEPING" /\ wait_queue[t] = q
  BY <1>0 DEF IInv, QueueDiscipline
<1>3. /\ wait_queue' = [t \in Tid |-> IF t \in ToSet(w) THEN NoQueue ELSE wait_queue[t]]
      /\ state' = [t \in Tid |-> IF t \in ToSet(w) THEN "READY" ELSE state[t]]
  BY <1>0 DEF Wakeup, WakeState
<1> HIDE DEF w
<1> SUFFICES ASSUME NEW u \in Tid, state'[u] = "SLEEPING", wait_queue'[u] = LockQueue(l)
             PROVE  \E t \in Tid : OnItsWay(t, l)'
  BY DEF Awaited
<1>4. state[u] = "SLEEPING" /\ wait_queue[u] = q
  BY <1>3 DEF q
<1>5. waiters[q] # <<>>
  <2>1. ToSet(<<>>) = {} /\ u \in ToSet(waiters[q])
    BY <1>2, <1>4 DEF ToSet
  <2> QED BY <2>1
<1>6. PICK t \in Tid : t \in ToSet(w)
  BY <1>1, <1>5
<1>7. state[t] = "SLEEPING" /\ wait_queue[t] = LockQueue(l) /\ t # current
  BY <1>1, <1>2, <1>6 DEF q
<1>8. cont[t] = InAcquire(l)
  BY <1>7 DEF InCalls
<1> QED BY <1>3, <1>6, <1>7, <1>8 DEF OnItsWay

LEMMA HandedOnStep ==
  ASSUME ~MayKill, SyncInv, NoKillInv, HandedOn, [SyncNext]_allVars
  PROVE  HandedOn'
<1> USE Names, SyncNames
<1>1. CASE (ThreadCalls \/ WaitResumed \/ Switching \/ Ended) /\ UNCHANGED syncVars
  BY <1>1, ThreadsHandOn DEF ThreadStep
<1>2. CASE UNCHANGED allVars
  BY <1>2, ThreadsHandOn DEF ThreadStep, allVars
<1>3. ASSUME NEW l \in Locks, LockCreate(l) PROVE HandedOn'
  <2>1. cpu = "user" /\ l \notin locks /\ UNCHANGED <<cpu, current, cont, state, wait_queue>>
        /\ \A m \in Locks : holder'[m] = IF m = l THEN NoThread ELSE holder[m]
    BY <1>3, SyncFacts DEF LockCreate, threadVars
  <2>2. ~Awaited(l)
    BY <2>1, SyncFacts DEF InCalls, Awaited, Alive
  <2> QED BY <2>1, <2>2 DEF HandedOn, Awaited, OnItsWay
<1>4. (\E l \in Locks : LockDestroy(l)) \/ (\E c \in Cvs : CvCreate(c) \/ CvDestroy(c))
        => HandedOn'
  BY DEF LockDestroy, CvCreate, CvDestroy, vars, threadVars, HandedOn, Awaited, OnItsWay
<1>5. ASSUME NEW l \in Locks, Take(l), cpu \in {"user", "kernel"},
             \A m \in Locks \ {l} : cont[current] # InAcquire(m)
      PROVE  HandedOn'
  <2> SUFFICES ASSUME NEW m \in Locks, m # l, holder[m] = NoThread
               PROVE  Awaited(m)' => \E t \in Tid : OnItsWay(t, m)'
    BY <1>5, SyncFacts DEF HandedOn, Take
  <2>1. /\ UNCHANGED <<state, wait_queue>> /\ cont[current] # InAcquire(m)
        /\ \A t \in Tid \ {current} : cont'[t] = cont[t]
    BY <1>5, SyncFacts DEF Take, threadVars
  <2> QED BY <1>5, <2>1, RunningHandsOn
<1>6. ASSUME NEW l \in Locks, SleepFor(l), cpu \in {"user", "kernel"},
             \A m \in Locks \ {l} : cont[current] # InAcquire(m)
      PROVE  HandedOn'
  BY <1>6, SleepHandsOn DEF SleepFor
<1>7. ASSUME NEW q \in Queue, GiveUp(q), cpu = "kernel",
             \A m \in Locks : holder[m] = NoThread => cont[current] # InAcquire(m)
      PROVE  HandedOn'
  <2> SUFFICES ASSUME NEW m \in Locks, holder[m] = NoThread
               PROVE  Awaited(m)' => \E t \in Tid : OnItsWay(t, m)'
    BY <1>7, SyncFacts DEF HandedOn, GiveUp
  <2>1. /\ UNCHANGED <<state, wait_queue>>
        /\ \A t \in Tid \ {current} : cont'[t] = cont[t]
    BY <1>7, SyncFacts DEF GiveUp, threadVars
  <2> QED BY <1>7, <2>1, RunningHandsOn
<1>8. ASSUME NEW l \in Locks, cpu = "user", holder' = [holder EXCEPT ![l] = NoThread],
             Wakeup(LockQueue(l), FALSE), state' = WakeState(state, LockQueue(l), FALSE),
             \A t \in Tid \ {current} : cont'[t] = cont[t]
      PROVE  HandedOn'
  <2> SUFFICES ASSUME NEW m \in Locks, holder'[m] = NoThread
               PROVE  Awaited(m)' => \E t \in Tid : OnItsWay(t, m)'
    BY DEF HandedOn
  <2>1. CASE m = l
    BY <1>8, <2>1, WakeHandsOn
  <2>2. CASE m # l
    <3>1. holder[m] = NoThread /\ cont[current] # InAcquire(m)
      BY <1>8, <2>2, SyncFacts
    <3>2. \A t \in Tid :
           \/ state'[t] = state[t] /\ wait_queue'[t] = wait_queue[t]
           \/ wait_queue'[t] = NoQueue /\ state'[t] = "READY"
      BY <1>8 DEF Wakeup, WakeState
    <3> QED BY <1>8, <3>1, <3>2, RunningHandsOn
  <2> QED BY <2>1, <2>2
<1>9. ASSUME NEW c \in Cvs, NEW all \in BOOLEAN, CvNotify(c, all) PROVE HandedOn'
  <2> SUFFICES ASSUME NEW m \in Locks, holder[m] = NoThread
               PROVE  Awaited(m)' => \E t \in Tid : OnItsWay(t, m)'
    BY <1>9 DEF HandedOn, CvNotify, syncVars
  <2>1. cpu = "user" /\ cont' = cont /\ cont[current] # InAcquire(m)
    BY <1>9, SyncFacts DEF CvNotify
  <2>2. \A t \in Tid :
           \/ state'[t] = state[t] /\ wait_queue'[t] = wait_queue[t]
           \/ wait_queue'[t] = NoQueue /\ state'[t] = "READY"
    BY <1>9, SyncFacts DEF CvNotify, Wakeup, WakeState
  <2> QED BY <2>1, <2>2, RunningHandsOn
<1>10. ASSUME NEW l \in Locks, LockAcquire(l) \/ LockRelease(l) PROVE HandedOn'
  <2>1. CASE LockAcquire(l)
    <3>1. cpu = "user" /\ \A m \in Locks : cont[current] # InAcquire(m)
      BY <2>1, SyncFacts DEF LockAcquire
    <3> QED BY <1>5, <1>6, <2>1, <3>1 DEF LockAcquire
  <2>2. CASE LockRelease(l)
    BY <1>8, <2>2 DEF LockRelease, GiveBack
  <2> QED BY <1>10, <2>1, <2>2
<1>11. ASSUME NEW c \in Cvs, CvWait(c) PROVE HandedOn'
  <2> DEFINE l == LockOf[c]
  <2>1. /\ l \in Locks /\ cpu = "user" /\ holder' = [holder EXCEPT ![l] = NoThread]
        /\ Wakeup(LockQueue(l), FALSE) /\ state' = WakeState(state, LockQueue(l), FALSE)
        /\ \A t \in Tid \ {current} : cont'[t] = cont[t]
    BY <1>11, SyncFacts DEF CvWait
  <2> HIDE DEF l
  <2> QED BY <1>8, <2>1
<1>12. CASE LockCalls
  BY <1>3, <1>4, <1>9, <1>10, <1>11, <1>12 DEF LockCalls, CvSignal, CvBroadcast
<1>13. ASSUME NEW l \in Locks, AcquireResumed(l) PROVE HandedOn'
  <2>1. /\ cpu = "kernel"
        /\ Take(l) \/ SleepFor(l) \/ (holder[l] # NoThread /\ GiveUp(LockQueue(l)))
        /\ \A m \in Locks \ {l} : cont[current] # InAcquire(m)
    BY <1>13 DEF AcquireResumed
  <2>2. CASE Take(l)
    BY <1>5, <2>1, <2>2
  <2>3. CASE SleepFor(l)
    BY <1>6, <2>1, <2>3
  <2>4. CASE holder[l] # NoThread /\ GiveUp(LockQueue(l))
    <3>1. \A m \in Locks : holder[m] = NoThread => cont[current] # InAcquire(m)
      BY <2>1, <2>4
    <3> QED BY <1>7, <2>1, <2>4, <3>1
  <2> QED BY <2>1, <2>2, <2>3, <2>4
<1>14. ASSUME NEW c \in Cvs, CvSleep(c) PROVE HandedOn'
  <2>1. cpu = "kernel" /\ \A m \in Locks : cont[current] # InAcquire(m)
    BY <1>14 DEF CvSleep
  <2>2. CASE GiveUp(CvQueue(c))
    BY <1>7, <2>1, <2>2
  <2>3. CASE ~GiveUp(CvQueue(c))
    <3>1. SleepOn(CvQueue(c), InCvWait(c)) /\ UNCHANGED holder
      BY <1>14, <2>3 DEF CvSleep
    <3>2. /\ CvQueue(c) \in Queue /\ InCvWait(c) \in Cont
          /\ \A l \in Locks : CvQueue(c) # LockQueue(l)
      OBVIOUS
    <3> QED BY <2>1, <3>1, <3>2, SleepHandsOn
  <2> QED BY <2>2, <2>3
<1>15. CASE LockResumed
  BY <1>13, <1>14, <1>15 DEF LockResumed
<1> QED BY <1>1, <1>2, <1>12, <1>15 DEF SyncNext

(* A free lock that threads wait for has been handed on: lock_release and  *)
(* cv_wait wake one of them, which nothing but its own lock_acquire takes  *)
(* from its way to the lock.                                               *)
THEOREM LocksHandedOn == ASSUME ~MayKill PROVE SyncSpec => []LockHandedOn
<1>1. SyncInit => HandedOn
  BY DEF SyncInit, Init, HandedOn, Awaited
<1>2. SyncInv /\ NoKillInv /\ HandedOn /\ [SyncNext]_allVars => HandedOn'
  BY HandedOnStep
<1>3. SyncInv /\ NoKillInv /\ HandedOn => LockHandedOn
  <2> SUFFICES ASSUME SyncInv, NoKillInv, HandedOn, cpu = "user", NEW l \in Locks,
                      holder[l] = NoThread, waiters[LockQueue(l)] # <<>>
               PROVE  \E t \in Tid : /\ state[t] = "READY" /\ t \notin killed
                                     /\ cont[t] = InAcquire(l)
    BY DEF LockHandedOn
  <2> DEFINE q == LockQueue(l)
  <2>1. q \in Queue /\ waiters[q] \in Seq(Tid) /\ waiters[q] # <<>>
        /\ \A t \in Tid : t \in ToSet(waiters[q]) => state[t] = "SLEEPING" /\ wait_queue[t] = q
    BY SyncNames DEF SyncInv, IInv, BaseTypes, QueueDiscipline
  <2> HIDE DEF q
  <2>2. PICK u \in Tid : u \in ToSet(waiters[q])
    BY <2>1, QueueEmpty
  <2>3. Awaited(l)
    BY <2>1, <2>2 DEF Awaited, q
  <2> QED BY <2>3 DEF HandedOn, OnItsWay, NoKillInv
<1> QED BY <1>1, <1>2, <1>3, SyncInvariant, SyncNoKillInvariance, PTL DEF SyncSpec

=============================================================================
