------------------------------- MODULE Threads -------------------------------
(***************************************************************************)
(* The life cycle and the scheduling of the preemptive user threads of     *)
(* "Preemptive Threads/thread.c".                                          *)
(*                                                                         *)
(* There is one processor.  A library call runs with the timer signal      *)
(* blocked, up to the thread_switch that leaves it, and again from the     *)
(* thread_switch that resumes it.  The variable cpu says what the processor*)
(* executes next:                                                          *)
(*   "user"      the current thread, outside the library, signal unblocked *)
(*   "dispatch"  thread_switch has just made "next" the current thread     *)
(*   "kernel"    the current thread, resumed inside the call cont[current] *)
(*   "exit"      thread_exit, after it has woken the joiners               *)
(*   "again"     thread_switch, after its first nested thread_exit came    *)
(*               back: it is about to test next->killed                    *)
(*   "halted"    the process has ended                                     *)
(* Whenever cpu is not "user" exactly one action is enabled, so a call that*)
(* is split into several actions is still executed without interleaving.   *)
(*                                                                         *)
(* A thread structure is named by its tid: "FREE" in state[t] stands for   *)
(* thread_list[t] = NULL.  Calls that return an error code and change      *)
(* nothing are stuttering steps and have no action.  exit_code, start_fn,  *)
(* parg, yield_tid are data no decision reads; reaped is set only just     *)
(* before the structure is freed.                                          *)
(***************************************************************************)
EXTENDS Integers, Sequences, SequencesExt

CONSTANTS
  MaxThreads,     \* THREAD_MAX_THREADS
  Locks, Cvs,     \* the locks and condition variables a program may create
  Policy,         \* the scheduler of the configuration: "fcfs" or "rand"
  MayKill,        \* the program calls thread_kill
  MallocMayFail   \* malloc may fail to find a stack

Tid == 0 .. MaxThreads - 1
NoThread == -1
NoQueue == <<"none">>

JoinQueue(t) == <<"join", t>>
LockQueue(l) == <<"lock", l>>
CvQueue(c) == <<"cv", c>>
Queue == {JoinQueue(t) : t \in Tid} \cup {LockQueue(l) : l \in Locks}
           \cup {CvQueue(c) : c \in Cvs}

ASSUME ConstantsAssumption ==
  /\ MaxThreads \in Nat \ {0}
  /\ Policy \in {"fcfs", "rand"}
  /\ MayKill \in BOOLEAN
  /\ MallocMayFail \in BOOLEAN

VARIABLES
  cpu,            \* what the processor executes next
  current,        \* the thread structure the library takes for the running one
  state,          \* thread->state, "FREE" where thread_list holds NULL
  tid_used,       \* the tids marked used
  killed,         \* the threads whose killed flag is set
  resumed,        \* the threads whose saved context is in thread_switch
  w_exit,         \* the threads that exited while others waited for them
  wait_queue,     \* the queue a thread sleeps on
  ready,          \* the scheduler's ready queue
  waiters,        \* the content of every fifo_queue_t
  owner,          \* the owner field of every lock's wait queue
  cont,           \* the library call a thread is in while it is switched out
  stack_base,     \* the threads whose stack_base is not NULL
  stacks,         \* the malloc'ed stacks that have not been freed
  stack_to_free,  \* the stack that the next thread to run will free
  cpu_stack       \* the stack the processor runs on, NoThread for main's own

threadVars == <<state, tid_used, killed, w_exit, wait_queue>>
queueVars == <<ready, waiters, owner>>
stackVars == <<stack_base, stacks, stack_to_free, cpu_stack>>
vars == <<cpu, current, resumed, cont, threadVars, queueVars, stackVars>>

User == [fn |-> "user"]
InWait(t) == [fn |-> "thread_wait", tid |-> t]
InAcquire(l) == [fn |-> "lock_acquire", lock |-> l]
CvRelease(c) == [fn |-> "cv_release", cv |-> c]
InCvWait(c) == [fn |-> "cv_wait", cv |-> c]
Cont == {User} \cup {InWait(t) : t \in Tid} \cup {InAcquire(l) : l \in Locks}
          \cup {CvRelease(c) : c \in Cvs} \cup {InCvWait(c) : c \in Cvs}

Init ==
  /\ cpu = "user" /\ current = 0
  /\ state = [t \in Tid |-> IF t = 0 THEN "RUNNING" ELSE "FREE"]
  /\ tid_used = {0}
  /\ killed = {} /\ resumed = {} /\ w_exit = {}
  /\ wait_queue = [t \in Tid |-> NoQueue]
  /\ ready = <<>>
  /\ waiters = [q \in Queue |-> <<>>]
  /\ owner = [l \in Locks |-> NoThread]
  /\ cont = [t \in Tid |-> User]
  /\ stack_base = {} /\ stacks = {}
  /\ stack_to_free = NoThread /\ cpu_stack = NoThread

-----------------------------------------------------------------------------
(* The scheduler and the wait queues.                                      *)

(* scheduler->dequeue may hand out "next": the head under fcfs, any ready  *)
(* thread under rand.  The order of the ready queue means nothing to rand. *)
Dequeues(next) ==
  /\ next \in ToSet(ready)
  /\ Policy = "fcfs" => next = Head(ready)

(* thread_switch from its second half on: the context of the current       *)
(* thread is saved and next becomes the current one, still on the old stack*)
SwitchTo(next) ==
  /\ resumed' = resumed \cup {current}
  /\ current' = next
  /\ cpu' = "dispatch"

(* The owner of a queue: a join queue belongs to the thread joined, a      *)
(* lock's queue to the thread lock_acquire recorded, a cv's to nobody.     *)
OwnerOf(q) ==
  CASE q[1] = "join" -> q[2]
    [] q[1] = "lock" -> owner[q[2]]
    [] OTHER         -> NoThread

Blocked(t) == state[t] = "SLEEPING" /\ wait_queue[t] # NoQueue
BlockedBy(t) == OwnerOf(wait_queue[t])

(* Mutant: only the first holder is looked at.                             *)
OwnerIsCurrent(q) == OwnerOf(q) = current

(* The walk of thread_sleep from holder to holder meets the current thread.*)
(* C is any set the walk cannot leave: it has the first holder and, for    *)
(* each blocked member before the current thread, the thread that blocks it*)
WalkMeetsCurrent(q) ==
  /\ OwnerOf(q) # NoThread
  /\ \A C \in SUBSET Tid :
       /\ OwnerOf(q) \in C
       /\ \A t \in C \ {current} :
            Blocked(t) /\ BlockedBy(t) # NoThread => BlockedBy(t) \in C
       => current \in C

(* thread_sleep returns THREAD_DEADLOCK or THREAD_NONE.                    *)
CannotSleep(q) == WalkMeetsCurrent(q) \/ ready = <<>>

(* thread_sleep succeeds; the caller continues in k when it is resumed.    *)
SleepOn(q, k) ==
  /\ ~WalkMeetsCurrent(q)
  /\ \E next \in Tid :
       /\ Dequeues(next)
       /\ ready' = RemoveFirst(ready, next)
       /\ state' = [state EXCEPT ![current] = "SLEEPING", ![next] = "RUNNING"]
       /\ SwitchTo(next)
  /\ wait_queue' = [wait_queue EXCEPT ![current] = q]
  /\ waiters' = [waiters EXCEPT ![q] = Append(@, current)]
  /\ cont' = [cont EXCEPT ![current] = k]

(* Mutants of thread_wakeup: all = 1 is ignored, the thread that is woken  *)
(* stays in the queue, the last one is taken out of it.                    *)
WokenOne(q, all) == IF waiters[q] = <<>> THEN <<>> ELSE <<Head(waiters[q])>>
NobodyTakenOut(q, all) == waiters[q]
LastTakenOut(q, all) == IF all \/ waiters[q] = <<>> THEN <<>> ELSE Front(waiters[q])

(* thread_wakeup: Woken are the threads it moves to the ready queue.       *)
Woken(q, all) ==
  IF all \/ waiters[q] = <<>> THEN waiters[q] ELSE <<Head(waiters[q])>>
StillWaiting(q, all) ==
  IF all \/ waiters[q] = <<>> THEN <<>> ELSE Tail(waiters[q])

WakeState(s, q, all) ==
  [t \in Tid |-> IF t \in ToSet(Woken(q, all)) THEN "READY" ELSE s[t]]

Wakeup(q, all) ==
  /\ ready' = ready \o Woken(q, all)
  /\ waiters' = [waiters EXCEPT ![q] = StillWaiting(q, all)]
  /\ wait_queue' = [t \in Tid |-> IF t \in ToSet(Woken(q, all))
                                    THEN NoQueue ELSE wait_queue[t]]

(* thread_destroy(dead) *)
Destroy(dead) ==
  /\ ready' = RemoveFirst(ready, dead)
  /\ stacks' = stacks \ (stack_base \cap {dead})
  /\ stack_base' = stack_base \ {dead}
  /\ state' = [state EXCEPT ![dead] = "FREE"]
  /\ tid_used' = tid_used \ {dead}
  /\ killed' = killed \ {dead}
  /\ resumed' = resumed \ {dead}
  /\ w_exit' = w_exit \ {dead}

-----------------------------------------------------------------------------
(* The calls of a running thread.                                          *)

(* Mutant: the tid of a zombie is unused.                                  *)
PickTidOfZombie(t) == state[t] \in {"FREE", "ZOMBIE"}

(* The highest unused tid is taken.                                        *)
PickTid(t) == t \notin tid_used /\ \A u \in Tid \ tid_used : u <= t

ThreadCreate(t) ==
  /\ cpu = "user" /\ PickTid(t)
  /\ tid_used' = tid_used \cup {t}
  /\ state' = [state EXCEPT ![t] = "READY"]
  /\ ready' = Append(ready, t)
  /\ cont' = [cont EXCEPT ![t] = User]
  /\ stack_base' = stack_base \cup {t}
  /\ stacks' = stacks \cup {t}
  /\ UNCHANGED <<cpu, current, resumed, killed, w_exit, wait_queue, waiters,
                 owner, stack_to_free, cpu_stack>>

(* malloc finds no stack: THREAD_NOMEMORY, and the tid stays marked.       *)
ThreadCreateNoStack(t) ==
  /\ MallocMayFail /\ cpu = "user" /\ PickTid(t)
  /\ tid_used' = tid_used \cup {t}
  /\ UNCHANGED <<cpu, current, resumed, cont, state, killed, w_exit,
                 wait_queue, queueVars, stackVars>>

(* Mutants: the caller goes to the front of the queue, or nowhere.         *)
RequeuedFirst(next) == <<current>> \o RemoveFirst(ready, next)
NotRequeued(next) == RemoveFirst(ready, next)

(* The ready queue when next has left it and the caller has joined it.     *)
Requeued(next) == Append(RemoveFirst(ready, next), current)

(* The switch of thread_yield.                                             *)
YieldSwitch(next) ==
  /\ cpu = "user"
  /\ ready' = Requeued(next)
  /\ state' = [state EXCEPT ![current] = "READY", ![next] = "RUNNING"]
  /\ SwitchTo(next)
  /\ UNCHANGED <<cont, tid_used, killed, w_exit, wait_queue, waiters, owner,
                 stackVars>>

(* thread_yield(THREAD_ANY), called by the program or, on a timer signal,  *)
(* by interrupt_handler.                                                   *)
YieldAny == \E next \in Tid : Dequeues(next) /\ YieldSwitch(next)

(* thread_yield(tid)                                                       *)
YieldTo(next) ==
  state[next] = "READY" /\ next \in ToSet(ready) /\ YieldSwitch(next)

(* Mutant: the target is put in the ready queue in whatever state it is.   *)
AlwaysAwakened(target) == TRUE

(* thread_kill takes a sleeping target out of its queue and makes it ready.*)
Awakened(target) == state[target] = "SLEEPING"

(* thread_kill(target) of a thread that has not exited.                    *)
ThreadKill(target) ==
  /\ MayKill /\ cpu = "user"
  /\ target # current /\ state[target] \notin {"FREE", "ZOMBIE"}
  /\ killed' = killed \cup {target}
  /\ IF Awakened(target)
       THEN /\ waiters' = [waiters EXCEPT ![wait_queue[target]] =
                                            RemoveFirst(@, target)]
            /\ wait_queue' = [wait_queue EXCEPT ![target] = NoQueue]
            /\ state' = [state EXCEPT ![target] = "READY"]
            /\ ready' = Append(ready, target)
       ELSE UNCHANGED <<waiters, wait_queue, state, ready>>
  /\ UNCHANGED <<cpu, current, resumed, cont, tid_used, w_exit, owner,
                 stackVars>>

(* Mutant: the w_exit flag is not looked at.                               *)
AnyZombie(target) == state[target] = "ZOMBIE"

(* thread_wait may free a zombie nobody slept for.                         *)
Reapable(target) == state[target] = "ZOMBIE" /\ target \notin w_exit

(* thread_wait(target): reap a zombie ...                                  *)
WaitReap(target) ==
  /\ cpu = "user" /\ target # current
  /\ Reapable(target)
  /\ Destroy(target)
  /\ UNCHANGED <<cpu, current, cont, wait_queue, waiters, owner,
                 stack_to_free, cpu_stack>>

(* ... or sleep until a live thread exits.                                 *)
WaitSleep(target) ==
  /\ cpu = "user" /\ target # current
  /\ state[target] \notin {"FREE", "ZOMBIE"}
  /\ SleepOn(JoinQueue(target), InWait(target))
  /\ UNCHANGED <<tid_used, killed, w_exit, owner, stackVars>>

(* The rest of thread_wait, once its thread_sleep has returned.            *)
WaitResumed ==
  /\ cpu = "kernel" /\ cont[current].fn = "thread_wait"
  /\ LET target == cont[current].tid
     IN  IF Reapable(target)
           THEN Destroy(target)
           ELSE UNCHANGED <<ready, stacks, stack_base, state, tid_used, killed,
                            resumed, w_exit>>
  /\ cpu' = "user"
  /\ cont' = [cont EXCEPT ![current] = User]
  /\ UNCHANGED <<current, wait_queue, waiters, owner, stack_to_free, cpu_stack>>

-----------------------------------------------------------------------------
(* thread_exit, called by the program and by thread_switch.                *)

(* Up to the wake-up of the joiners.                                       *)
BeginExit ==
  /\ state' = WakeState([state EXCEPT ![current] = "ZOMBIE"],
                        JoinQueue(current), TRUE)
  /\ Wakeup(JoinQueue(current), TRUE)
  /\ w_exit' = IF waiters[JoinQueue(current)] # <<>>
                 THEN w_exit \cup {current} ELSE w_exit
  /\ cpu' = "exit"
  /\ UNCHANGED <<current, resumed, cont, tid_used, killed, owner, stackVars>>

(* The running thread returns from its function or calls thread_exit.      *)
ThreadExit == cpu = "user" /\ BeginExit

(* Mutant: thread_switch does not look at the flag.                        *)
NotSeenKilled == FALSE

(* The two tests of the killed flag in thread_switch, on the old stack.    *)
SeenKilled == current \in killed
KilledExit == cpu = "dispatch" /\ SeenKilled /\ BeginExit
KilledExitAgain == cpu = "again" /\ BeginExit

(* No thread is ready: thread_end frees what is left, the process ends.    *)
ProcessEnd ==
  /\ cpu = "exit" /\ ready = <<>>
  /\ cpu' = "halted"
  /\ state' = [t \in Tid |-> IF t = 0 THEN state[t] ELSE "FREE"]
  /\ stacks' = stacks \ (stack_base \ {0})
  /\ stack_base' = stack_base \cap {0}
  /\ UNCHANGED <<current, resumed, cont, tid_used, killed, w_exit, wait_queue,
                 queueVars, stack_to_free, cpu_stack>>

(* Mutant: the stack is forgotten.                                         *)
HandedOverNothing == stack_to_free

(* stack_to_free once thread_exit has handed over the current stack.       *)
HandedOver ==
  IF current # 0 /\ current \in stack_base THEN current ELSE stack_to_free

(* Mutant: thread_exit frees the stack it is running on.                   *)
ExitSwitchFrees ==
  /\ cpu = "exit" /\ current \notin resumed
  /\ \E next \in Tid :
       /\ Dequeues(next)
       /\ ready' = RemoveFirst(ready, next)
       /\ state' = [state EXCEPT ![next] = "RUNNING"]
       /\ SwitchTo(next)
  /\ stacks' = stacks \ {HandedOver}
  /\ stack_base' = IF current # 0 THEN stack_base \ {current} ELSE stack_base
  /\ UNCHANGED <<cont, tid_used, killed, w_exit, wait_queue, waiters, owner,
                 stack_to_free, cpu_stack>>

(* thread_switch leaves the dead thread for the next one.                  *)
ExitSwitch ==
  /\ cpu = "exit" /\ current \notin resumed
  /\ \E next \in Tid :
       /\ Dequeues(next)
       /\ ready' = RemoveFirst(ready, next)
       /\ state' = [state EXCEPT ![next] = "RUNNING"]
       /\ SwitchTo(next)
  /\ stack_to_free' = HandedOver
  /\ stack_base' = IF current # 0 THEN stack_base \ {current} ELSE stack_base
  /\ UNCHANGED <<cont, tid_used, killed, w_exit, wait_queue, waiters, owner,
                 stacks, cpu_stack>>

(* The dead thread is a killed one that had been switched out: its resumed *)
(* flag is still set, so thread_switch takes this call for the return of   *)
(* the old one.  It comes back without running the thread just dequeued.   *)
ExitSwitchReturns ==
  /\ cpu = "exit" /\ current \in resumed
  /\ \E next \in Tid : Dequeues(next) /\ ready' = RemoveFirst(ready, next)
  /\ resumed' = resumed \ {current}
  /\ stack_base' = IF current # 0 THEN stack_base \ {current} ELSE stack_base
  /\ stacks' = stacks \ {HandedOver}
  /\ stack_to_free' = NoThread
  /\ cpu' = "again"
  /\ UNCHANGED <<current, cont, threadVars, waiters, owner, cpu_stack>>

(* setcontext: the new thread runs on its own stack and frees the one its  *)
(* predecessor left, in thread_switch or, the first time, in thread_stub.  *)
Dispatch ==
  /\ cpu = "dispatch" /\ ~SeenKilled
  /\ resumed' = resumed \ {current}
  /\ stacks' = stacks \ {stack_to_free}
  /\ stack_to_free' = NoThread
  /\ cpu_stack' = IF current \in stack_base THEN current ELSE NoThread
  /\ cpu' = IF cont[current] = User THEN "user" ELSE "kernel"
  /\ UNCHANGED <<current, cont, threadVars, queueVars, stack_base>>

Ended == cpu = "halted" /\ UNCHANGED vars

-----------------------------------------------------------------------------
(* A thread outside the library can always be preempted, call or exit.     *)
Calls ==
  \/ YieldAny
  \/ \E t \in Tid : \/ ThreadCreate(t) \/ ThreadCreateNoStack(t)
                    \/ YieldTo(t) \/ ThreadKill(t)
                    \/ WaitReap(t) \/ WaitSleep(t)

(* What the library does with the timer signal blocked.                    *)
Switching ==
  \/ KilledExit \/ KilledExitAgain
  \/ ProcessEnd \/ ExitSwitch \/ ExitSwitchReturns
  \/ Dispatch

Next == Calls \/ ThreadExit \/ WaitResumed \/ Switching \/ Ended

(* The processor executes the library's code; a pending timer signal is    *)
(* delivered when the signal is unblocked, so preemption, which is enabled *)
(* at every return to the program, is strongly fair.                       *)
Spec ==
  /\ Init /\ [][Next]_vars
  /\ WF_vars(WaitResumed) /\ WF_vars(Switching) /\ SF_vars(YieldAny)
-----------------------------------------------------------------------------
(* Properties.                                                             *)

(* Every variable has its type, and no queue holds more threads than the   *)
(* THREAD_MAX_THREADS slots it has: fcfs_enqueue, rand_enqueue and         *)
(* queue_push report a full queue, and every caller ignores that.          *)
TypeOK ==
  /\ cpu \in {"user", "dispatch", "kernel", "exit", "again", "halted"}
  /\ current \in Tid
  /\ state \in [Tid -> {"FREE", "READY", "RUNNING", "SLEEPING", "ZOMBIE"}]
  /\ tid_used \subseteq Tid /\ killed \subseteq Tid
  /\ resumed \subseteq Tid /\ w_exit \subseteq Tid
  /\ wait_queue \in [Tid -> Queue \cup {NoQueue}]
  /\ ready \in Seq(Tid) /\ Len(ready) <= MaxThreads
  /\ waiters \in [Queue -> Seq(Tid)]
  /\ \A q \in Queue : Len(waiters[q]) <= MaxThreads
  /\ owner \in [Locks -> Tid \cup {NoThread}]
  /\ cont \in [Tid -> Cont]
  /\ stack_base \subseteq Tid /\ stacks \subseteq Tid
  /\ stack_to_free \in Tid \cup {NoThread}
  /\ cpu_stack \in Tid \cup {NoThread}

(* A thread is in the queue its state names and in no other, once: what    *)
(* the in_or_not flag of queue.c asserts, and what thread_sleep,           *)
(* thread_wakeup, thread_kill and thread_exit must keep between them.      *)
QueueDiscipline ==
  cpu # "halted" =>
  /\ IsInjective(ready)
  /\ \A t \in ToSet(ready) : state[t] = "READY"
  /\ \A q \in Queue : IsInjective(waiters[q])
  /\ \A q \in Queue, t \in Tid :
       t \in ToSet(waiters[q]) <=> state[t] = "SLEEPING" /\ wait_queue[t] = q
  /\ \A t \in Tid : state[t] = "SLEEPING" => wait_queue[t] # NoQueue

(* A READY thread is in the ready queue, or it would never run again.      *)
NothingReadyIsLost ==
  cpu # "halted" => \A t \in Tid : state[t] = "READY" => t \in ToSet(ready)

(* The thread in the state RUNNING is the one the library calls current.   *)
OnlyCurrentRuns ==
  \A t \in Tid :
    state[t] = "RUNNING" <=> t = current /\ cpu \in {"user", "dispatch", "kernel"}

(* The process ends only when no thread could still run (thread_exit,      *)
(* ut369.h: if other threads are runnable, one of them is scheduled).      *)
EndsWhenNobodyCanRun ==
  cpu = "exit" /\ ready = <<>> => \A t \in Tid : state[t] # "READY"

(* A killed thread executes nothing of its program and of its calls.       *)
KilledNeverRuns == cpu \in {"user", "kernel"} => current \notin killed

(* Nobody sleeps for a thread that has exited or is gone.                  *)
JoinersWoken ==
  cpu # "halted" =>
  \A t, u \in Tid :
    state[u] = "SLEEPING" /\ wait_queue[u] = JoinQueue(t)
      => state[t] \notin {"FREE", "ZOMBIE"}

(* A thread woken in thread_wait finds its target still there, a zombie    *)
(* whose exit code it can read.                                            *)
JoinerFindsZombie ==
  cpu # "halted" =>
  \A t, u \in Tid :
    /\ cont[u] = InWait(t) /\ u \notin killed
    /\ state[u] \in {"READY", "RUNNING"}
    => state[t] = "ZOMBIE"

(* A zombie is only ever reaped, never given to a new thread, and not      *)
(* before every thread that slept for it has read its exit code.           *)
ExitCodeKept ==
  [][\A t \in Tid :
       state[t] = "ZOMBIE" /\ state'[t] # "ZOMBIE" /\ cpu' # "halted"
         => /\ state'[t] = "FREE"
            /\ \A u \in Tid \ {current} :
                 state[u] \in {"SLEEPING", "READY"} /\ u \notin killed
                   => cont[u] # InWait(t)]_vars

(* When every thread that waited for a thread has got its exit code, the   *)
(* thread is released (ut369.h, thread_wait).                              *)
WaitedIsReleased ==
  cpu = "user" =>
  \A t \in Tid :
    state[t] = "ZOMBIE" /\ t \in w_exit
      => \E u \in Tid : /\ cont[u] = InWait(t)
                        /\ state[u] \in {"READY", "RUNNING"}

(* The processor never runs on a stack that has been freed.                *)
StackInUse ==
  cpu # "halted" /\ cpu_stack # NoThread => cpu_stack \in stacks

(* Every stack is still owned by a thread or is about to be freed.         *)
NoStackLeak == stacks \subseteq stack_base \cup {stack_to_free}

(* No set of sleeping threads in which each waits for another of the set:  *)
(* thread_sleep refuses the sleep that would close the cycle.              *)
NoWaitCycle ==
  \A S \in SUBSET Tid :
    S # {} => \E t \in S : ~(Blocked(t) /\ BlockedBy(t) \in S)

(* Under fcfs with preemption a READY thread gets to run.                  *)
ReadyRuns ==
  \A t \in Tid : state[t] = "READY" ~> (current = t \/ cpu = "halted")

(* A thread that waits for an exited thread returns from thread_wait.      *)
JoinReturns ==
  \A t, u \in Tid :
    cont[u] = InWait(t) /\ state[t] = "ZOMBIE"
      ~> (cont[u] # InWait(t) \/ cpu = "halted")

=============================================================================
