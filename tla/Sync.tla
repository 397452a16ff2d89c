-------------------------------- MODULE Sync --------------------------------
(***************************************************************************)
(* The locks and condition variables of "Preemptive Threads/thread.c", on  *)
(* top of the threads of module Threads: every call below is built from    *)
(* thread_sleep (SleepOn) and thread_wakeup (Wakeup).                      *)
(*                                                                         *)
(* What is assumed of the program is in its guards: it keeps the           *)
(* assertions of the library (lock_release and cv_wait by the holder), it  *)
(* leaves a thread only when it holds no lock (MayExit), it kills no       *)
(* thread inside a critical section (MayBeKilled), and it destroys no lock *)
(* or cv another thread is still inside a call on (NobodyInside).          *)
(***************************************************************************)
EXTENDS Threads

CONSTANT LockOf   \* the lock passed to cv_create

ASSUME LockOfAssumption == LockOf \in [Cvs -> Locks]

VARIABLES
  holder,   \* lock->holder
  locks,    \* the locks created and not destroyed
  cvs       \* the condition variables created and not destroyed

syncVars == <<holder, locks, cvs>>
allVars == <<vars, syncVars>>

SyncInit ==
  /\ Init
  /\ holder = [l \in Locks |-> NoThread]
  /\ locks = {} /\ cvs = {}

NobodyInside(k) == \A t \in Tid : cont[t] = k => state[t] \in {"FREE", "ZOMBIE"}

LockCreate(l) ==
  /\ cpu = "user" /\ l \notin locks
  /\ locks' = locks \cup {l}
  /\ holder' = [holder EXCEPT ![l] = NoThread]
  /\ owner' = [owner EXCEPT ![l] = NoThread]
  /\ UNCHANGED <<cpu, current, resumed, cont, threadVars, ready, waiters,
                 stackVars, cvs>>

(* Mutant: the condition variables of the lock are not counted.            *)
LockDestroyWithCvs(l) ==
  /\ cpu = "user" /\ l \in locks
  /\ holder[l] = NoThread /\ waiters[LockQueue(l)] = <<>>
  /\ NobodyInside(InAcquire(l))
  /\ locks' = locks \ {l}
  /\ UNCHANGED <<vars, holder, cvs>>

LockDestroy(l) ==
  /\ cpu = "user" /\ l \in locks
  /\ holder[l] = NoThread /\ waiters[LockQueue(l)] = <<>>
  /\ \A c \in cvs : LockOf[c] # l
  /\ NobodyInside(InAcquire(l))
  /\ locks' = locks \ {l}
  /\ UNCHANGED <<vars, holder, cvs>>

CvCreate(c) ==
  /\ cpu = "user" /\ c \notin cvs /\ LockOf[c] \in locks
  /\ cvs' = cvs \cup {c}
  /\ UNCHANGED <<vars, holder, locks>>

CvDestroy(c) ==
  /\ cpu = "user" /\ c \in cvs
  /\ waiters[CvQueue(c)] = <<>> /\ NobodyInside(InCvWait(c))
  /\ cvs' = cvs \ {c}
  /\ UNCHANGED <<vars, holder, locks>>

-----------------------------------------------------------------------------
(* lock_acquire finds the lock free.                                       *)
Take(l) ==
  /\ holder[l] = NoThread
  /\ holder' = [holder EXCEPT ![l] = current]
  /\ owner' = [owner EXCEPT ![l] = current]
  /\ cpu' = "user"
  /\ cont' = [cont EXCEPT ![current] = User]
  /\ UNCHANGED <<current, resumed, threadVars, ready, waiters, stackVars>>

(* It finds the lock held, and sleeps.                                     *)
SleepFor(l) ==
  /\ holder[l] # NoThread
  /\ SleepOn(LockQueue(l), InAcquire(l))
  /\ UNCHANGED <<tid_used, killed, w_exit, owner, stackVars, holder>>

(* It finds the lock held and cannot sleep: THREAD_DEADLOCK or THREAD_NONE.*)
GiveUp(q) ==
  /\ CannotSleep(q)
  /\ cpu' = "user"
  /\ cont' = [cont EXCEPT ![current] = User]
  /\ UNCHANGED <<current, resumed, threadVars, queueVars, stackVars, holder>>

LockAcquire(l) ==
  /\ cpu = "user" /\ l \in locks
  /\ Take(l) \/ SleepFor(l)
  /\ UNCHANGED <<locks, cvs>>

(* The loop of lock_acquire once thread_sleep has returned, and the        *)
(* lock_acquire of a cv_wait whose thread_sleep has returned.              *)
AcquireResumed(l) ==
  /\ cpu = "kernel"
  /\ \/ cont[current] = InAcquire(l)
     \/ \E c \in Cvs : LockOf[c] = l /\ cont[current] = InCvWait(c)
  /\ Take(l) \/ SleepFor(l) \/ (holder[l] # NoThread /\ GiveUp(LockQueue(l)))
  /\ UNCHANGED <<locks, cvs>>

(* Mutant: the queue keeps its owner.                                      *)
GiveBackHolder(l) ==
  holder' = [holder EXCEPT ![l] = NoThread] /\ UNCHANGED owner

GiveBack(l) ==
  /\ holder' = [holder EXCEPT ![l] = NoThread]
  /\ owner' = [owner EXCEPT ![l] = NoThread]

(* Mutant: nobody is woken.                                                *)
LockReleaseSilent(l) ==
  /\ cpu = "user" /\ holder[l] = current
  /\ GiveBack(l)
  /\ UNCHANGED <<cpu, current, resumed, cont, threadVars, ready, waiters,
                 stackVars, locks, cvs>>

LockRelease(l) ==
  /\ cpu = "user" /\ holder[l] = current
  /\ GiveBack(l)
  /\ Wakeup(LockQueue(l), FALSE)
  /\ state' = WakeState(state, LockQueue(l), FALSE)
  /\ UNCHANGED <<cpu, current, resumed, cont, tid_used, killed, w_exit,
                 stackVars, locks, cvs>>

(* cv_wait drops the lock and wakes one thread waiting for it; the owner   *)
(* of the lock's queue is left as it was ...                               *)
CvWait(c) ==
  /\ cpu = "user" /\ c \in cvs /\ holder[LockOf[c]] = current
  /\ holder' = [holder EXCEPT ![LockOf[c]] = NoThread]
  /\ Wakeup(LockQueue(LockOf[c]), FALSE)
  /\ state' = WakeState(state, LockQueue(LockOf[c]), FALSE)
  /\ cpu' = "kernel"
  /\ cont' = [cont EXCEPT ![current] = CvRelease(c)]
  /\ UNCHANGED <<current, resumed, tid_used, killed, w_exit, owner, stackVars,
                 locks, cvs>>

(* ... and sleeps, or returns THREAD_NONE without the lock.                *)
CvSleep(c) ==
  /\ cpu = "kernel" /\ cont[current] = CvRelease(c)
  /\ \/ /\ SleepOn(CvQueue(c), InCvWait(c))
        /\ UNCHANGED <<tid_used, killed, w_exit, owner, stackVars, holder>>
     \/ GiveUp(CvQueue(c))
  /\ UNCHANGED <<locks, cvs>>

(* cv_signal and cv_broadcast                                              *)
CvNotify(c, all) ==
  /\ cpu = "user" /\ c \in cvs
  /\ Wakeup(CvQueue(c), all)
  /\ state' = WakeState(state, CvQueue(c), all)
  /\ UNCHANGED <<cpu, current, resumed, cont, tid_used, killed, w_exit, owner,
                 stackVars, syncVars>>
CvSignal(c) == CvNotify(c, FALSE)
CvBroadcast(c) == CvNotify(c, TRUE)

-----------------------------------------------------------------------------
MayExit == \A l \in Locks : holder[l] # current
MayBeKilled(t) == \A l \in Locks : holder[l] # t /\ owner[l] # t

ThreadCalls ==
  \/ YieldAny
  \/ \E t \in Tid : \/ ThreadCreate(t) \/ ThreadCreateNoStack(t) \/ YieldTo(t)
                    \/ WaitReap(t) \/ WaitSleep(t)
                    \/ MayBeKilled(t) /\ ThreadKill(t)
  \/ MayExit /\ ThreadExit

LockCalls ==
  \/ \E l \in Locks : \/ LockCreate(l) \/ LockDestroy(l)
                      \/ LockAcquire(l) \/ LockRelease(l)
  \/ \E c \in Cvs : \/ CvCreate(c) \/ CvDestroy(c)
                    \/ CvWait(c) \/ CvSignal(c) \/ CvBroadcast(c)

LockResumed ==
  (\E l \in Locks : AcquireResumed(l)) \/ (\E c \in Cvs : CvSleep(c))

SyncNext ==
  \/ (ThreadCalls \/ WaitResumed \/ Switching \/ Ended) /\ UNCHANGED syncVars
  \/ LockCalls
  \/ LockResumed

(* Fair as Spec of Threads, with the rest of the lock and cv calls.        *)
SyncSpec ==
  /\ SyncInit /\ [][SyncNext]_allVars
  /\ WF_allVars(LockResumed)
  /\ WF_allVars((WaitResumed \/ Switching) /\ UNCHANGED syncVars)
  /\ SF_allVars(YieldAny /\ UNCHANGED syncVars)

-----------------------------------------------------------------------------
(* Properties.                                                             *)

SyncTypeOK ==
  /\ TypeOK
  /\ holder \in [Locks -> Tid \cup {NoThread}]
  /\ locks \subseteq Locks /\ cvs \subseteq Cvs

(* A free lock that threads wait for has been handed on: a thread woken    *)
(* inside lock_acquire is on its way to it.                                *)
LockHandedOn ==
  cpu = "user" =>
  \A l \in Locks :
    holder[l] = NoThread /\ waiters[LockQueue(l)] # <<>>
      => \E t \in Tid : /\ state[t] = "READY" /\ t \notin killed
                        /\ cont[t] = InAcquire(l)

(* A thread that holds a lock is alive and neither waits for that lock nor *)
(* sleeps on one of its condition variables; a destroyed lock or cv has no *)
(* holder and no thread in its queue.                                      *)
HolderIsActive ==
  cpu # "halted" =>
  /\ \A l \in Locks : holder[l] # NoThread =>
       /\ l \in locks /\ state[holder[l]] \in {"RUNNING", "READY", "SLEEPING"}
       /\ wait_queue[holder[l]] # LockQueue(l)
       /\ \A c \in Cvs : LockOf[c] = l => wait_queue[holder[l]] # CvQueue(c)
  /\ \A l \in Locks \ locks : waiters[LockQueue(l)] = <<>>
  /\ \A c \in Cvs : c \in cvs => LockOf[c] \in locks
  /\ \A c \in Cvs \ cvs : waiters[CvQueue(c)] = <<>>

(* thread_sleep says THREAD_DEADLOCK only of a real deadlock: there is a   *)
(* set of threads, the caller among them, each of which but the caller     *)
(* sleeps until another of the set exits or releases a lock, and the       *)
(* caller would join them.                                                 *)
Needs(q) ==
  CASE q[1] = "join" -> q[2]
    [] q[1] = "lock" -> holder[q[2]]
    [] OTHER         -> NoThread
OnlyRealDeadlocks ==
  cpu = "user" =>
  \A q \in Queue :
    Needs(q) # NoThread /\ WalkMeetsCurrent(q)
      => \E S \in SUBSET Tid :
           /\ {current, Needs(q)} \subseteq S
           /\ \A t \in S \ {current} : Blocked(t) /\ Needs(wait_queue[t]) \in S

(* thread_wakeup wakes the threads of a queue in the order they came       *)
(* (thread.h): nobody leaves a queue before a thread ahead of it.          *)
WokenInOrder ==
  [][MayKill \/
     \A q \in Queue : \A i, j \in DOMAIN waiters[q] :
       i < j /\ waiters[q][i] \in ToSet(waiters'[q])
         => waiters[q][j] \in ToSet(waiters'[q])]_allVars

=============================================================================
