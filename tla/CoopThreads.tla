----------------------------- MODULE CoopThreads -----------------------------
(***************************************************************************)
(* The earlier, cooperative library of "Cooperative Threads/thread.c",     *)
(* beside the preemptive one it became.  A program is linked with one of   *)
(* the two.  They share thread structures, queues and most calls, so this  *)
(* module has the variables and the actions of Threads and says where the  *)
(* cooperative library differs: no call sleeps, thread_wait yields to its  *)
(* target until that has exited, thread_kill sets a flag and nothing else, *)
(* and thread_switch tests the killed flag of the next thread once.        *)
(***************************************************************************)
EXTENDS Threads

VARIABLES
  library,   \* the library of the program
  waits      \* the target of the thread_wait a thread is in, NoThread elsewhere

libraryVars == <<library, waits, vars>>

LibraryInit ==
  /\ Init
  /\ library \in {"preemptive", "cooperative"}
  /\ waits = [t \in Tid |-> NoThread]

-----------------------------------------------------------------------------
(* The calls of a running thread that is not inside thread_wait.           *)
Calling == cpu = "user" /\ waits[current] = NoThread

CoopCreate(t) ==
  /\ Calling
  /\ ThreadCreate(t) \/ ThreadCreateNoStack(t)
  /\ waits' = [waits EXCEPT ![t] = NoThread]

(* Nothing but the program yields: there is no timer signal.               *)
CoopYield ==
  /\ Calling /\ UNCHANGED waits
  /\ YieldAny \/ \E next \in Tid : YieldTo(next)

(* No thread sleeps, so there is no queue to take the target out of.       *)
CoopKill(target) == Calling /\ ThreadKill(target) /\ UNCHANGED waits

CoopExit == Calling /\ ThreadExit /\ UNCHANGED waits

-----------------------------------------------------------------------------
(* thread_wait                                                             *)

Runnable(t) == state[t] \in {"READY", "RUNNING"}

(* thread_destroy of the target whose structure thread_wait has kept.      *)
CoopDestroy(target) ==
  /\ Destroy(target)
  /\ UNCHANGED <<cpu, current, cont, wait_queue, waiters, owner, stack_to_free,
                 cpu_stack>>

(* One turn of the loop of thread_wait, up to the switch of its yield.     *)
WaitTurn(target) ==
  \/ Runnable(target) /\ YieldTo(target) /\ waits' = [waits EXCEPT ![current] = target]
  \/ ~Runnable(target) /\ CoopDestroy(target) /\ waits' = [waits EXCEPT ![current] = NoThread]

(* A program must not wait for a thread another thread waits for: the      *)
(* library would destroy its structure twice.                              *)
Waiting(u) == state[u] \in {"READY", "RUNNING"} /\ u \notin killed /\ waits[u] # NoThread
MayWaitFor(target) == \A u \in Tid : Waiting(u) => waits[u] # target

CoopWait(target) ==
  /\ Calling /\ target # current /\ state[target] # "FREE" /\ MayWaitFor(target)
  /\ WaitTurn(target)

CoopWaitAgain == cpu = "user" /\ waits[current] # NoThread /\ WaitTurn(waits[current])

-----------------------------------------------------------------------------
(* thread_switch and the end of a thread                                   *)

(* thread_exit of a killed thread on its first turn, and of any other.     *)
CoopSwitch ==
  /\ KilledExit \/ ExitSwitch \/ Dispatch
  /\ UNCHANGED waits

(* Mutant: thread_switch tests the flag again and exits again.             *)
SwitchReturnsToTest == ExitSwitchReturns /\ UNCHANGED waits

(* A killed thread that had been switched out: its resumed flag makes the  *)
(* thread_switch of its exit return to the one that found it killed, which *)
(* goes on with setcontext of the context just saved, and so comes back    *)
(* into the first, its flag now cleared.  That frame is dead; nothing but  *)
(* the call of setcontext has used the stack below it since, and the       *)
(* switch it goes on with does not return.                                 *)
SwitchReturnsTwice ==
  /\ cpu = "exit" /\ current \in resumed
  /\ \E next \in Tid :
       /\ Dequeues(next)
       /\ ready' = RemoveFirst(ready, next)
       /\ state' = [state EXCEPT ![next] = "RUNNING"]
       /\ SwitchTo(next)
  /\ stack_base' = IF current # 0 THEN stack_base \ {current} ELSE stack_base
  /\ stacks' = stacks \ {HandedOver}
  /\ stack_to_free' = NoThread
  /\ UNCHANGED <<waits, cont, tid_used, killed, w_exit, wait_queue, waiters, owner,
                 cpu_stack>>

CoopEnd == (ProcessEnd \/ Ended) /\ UNCHANGED waits

CoopNext ==
  \/ CoopYield
  \/ \E t \in Tid : CoopCreate(t) \/ CoopKill(t) \/ CoopWait(t)
  \/ CoopWaitAgain
  \/ CoopExit
  \/ CoopSwitch \/ SwitchReturnsTwice \/ CoopEnd

LibraryNext ==
  \/ library = "preemptive" /\ Next /\ UNCHANGED <<library, waits>>
  \/ library = "cooperative" /\ CoopNext /\ UNCHANGED library

LibrarySpec == LibraryInit /\ [][LibraryNext]_libraryVars

-----------------------------------------------------------------------------
(* Properties, with those of module Threads                                *)

(* In the cooperative library kills lose no thread: what is READY is in    *)
(* the ready queue, although a killed thread that was switched out takes   *)
(* the exit's thread_switch for the return of an older one.  So the        *)
(* assertion in the loop of thread_wait, that yielding to a runnable       *)
(* target succeeds, never fails.                                           *)
KillsLoseNobody == library = "cooperative" => NothingReadyIsLost

=============================================================================
