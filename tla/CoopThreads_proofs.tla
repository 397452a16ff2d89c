------------------------- MODULE CoopThreads_proofs -------------------------
(***************************************************************************)
(* The invariant of module Threads holds in both libraries, and in the     *)
(* cooperative one kills lose no thread, for every number of threads.  The *)
(* steps the libraries share are those of Threads_proofs.                  *)
(***************************************************************************)
EXTENDS CoopThreads, Threads_proofs

(* Of two threads in thread_wait, neither waits for itself nor for a       *)
(* thread whose structure is freed, nor both for the same one.             *)
TargetsOK ==
  cpu # "halted" =>
  \A u \in Tid : Waiting(u) =>
    /\ waits[u] # u /\ state[waits[u]] # "FREE"
    /\ \A v \in Tid : Waiting(v) /\ waits[v] = waits[u] => v = u

NobodySleeps == w_exit = {} /\ \A t \in Tid : state[t] # "SLEEPING"

CoopInv ==
  /\ waits \in [Tid -> Tid \cup {NoThread}]
  /\ NobodySleeps /\ TargetsOK /\ NothingReadyIsLost

LibraryInv ==
  /\ IInv /\ library \in {"preemptive", "cooperative"}
  /\ library = "cooperative" => CoopInv

LEMMA InitLibraryInv == LibraryInit => LibraryInv
<1> SUFFICES ASSUME LibraryInit PROVE LibraryInv
  OBVIOUS
<1>1. IInv
  BY InitIInv DEF LibraryInit
<1>2. /\ waits = [t \in Tid |-> NoThread] /\ w_exit = {}
      /\ state = [t \in Tid |-> IF t = 0 THEN "RUNNING" ELSE "FREE"]
  BY DEF LibraryInit, Init
<1>3. CoopInv
  BY <1>2 DEF CoopInv, NobodySleeps, TargetsOK, Waiting, NothingReadyIsLost
<1> QED BY <1>1, <1>3 DEF LibraryInv, LibraryInit

-----------------------------------------------------------------------------
(* The steps only the cooperative library has.                             *)

(* thread_destroy in thread_wait is that of a zombie nobody slept for.     *)
LEMMA DestroyIsReap ==
  ASSUME IInv, NobodySleeps, NEW target \in Tid, cpu = "user", target # current,
         state[target] # "FREE", ~Runnable(target), CoopDestroy(target)
  PROVE  WaitReap(target) /\ state[target] = "ZOMBIE"
<1>1. state[target] = "ZOMBIE"
  BY DEF NobodySleeps, Runnable, IInv, BaseTypes
<1> QED BY <1>1 DEF WaitReap, CoopDestroy, Reapable, NobodySleeps

(* The switch of a killed thread's exit, which runs the next thread.       *)
LEMMA SwitchReturnsTwiceStep ==
  ASSUME IInv, SwitchReturnsTwice
  PROVE  IInv'
<1> USE Names DEF IInv
<1>1. /\ cpu = "exit" /\ cpu' = "dispatch" /\ current \in Tid
      /\ state[current] = "ZOMBIE" /\ resumed' = resumed \cup {current}
      /\ UNCHANGED <<cont, tid_used, killed, w_exit, wait_queue, waiters, owner,
                     cpu_stack>>
  BY DEF SwitchReturnsTwice, SwitchTo, CurrentOK, BaseTypes
<1>2. PICK next \in Tid :
        /\ Dequeues(next) /\ ready' = RemoveFirst(ready, next)
        /\ state' = [state EXCEPT ![next] = "RUNNING"]
        /\ current' = next
  BY DEF SwitchReturnsTwice, SwitchTo
<1>3. /\ state[next] = "READY" /\ ready' \in Seq(Tid) /\ IsInjective(ready')
      /\ ToSet(ready') = ToSet(ready) \ {next}
  BY <1>1, <1>2, DequeuedReady
<1>4. BaseTypes'
  BY <1>1, <1>2, <1>3 DEF BaseTypes, SwitchReturnsTwice
<1>5. NoRepeats'
  BY <1>1, <1>3 DEF NoRepeats
<1>6. QueueDiscipline'
  <2>1. \A t \in Tid : state'[t] = "SLEEPING" <=> state[t] = "SLEEPING"
    BY <1>2, <1>3 DEF BaseTypes
  <2>2. \A t \in ToSet(ready') : state'[t] = "READY"
    BY <1>1, <1>2, <1>3, QueueEmpty DEF QueueDiscipline, BaseTypes
  <2> QED BY <1>1, <1>5, <2>1, <2>2 DEF QueueDiscipline, NoRepeats
<1>7. CurrentOK'
  BY <1>1, <1>2, <1>3 DEF CurrentOK, OnlyCurrentRuns, KilledNeverRuns, BaseTypes
<1>8. TidsMarked' /\ Joining'
  BY <1>1, <1>2, <1>3 DEF TidsMarked, Joining, BaseTypes
<1>9. NoWaitCycle'
  <2>1. \A u \in Tid : Blocked(u)' => Blocked(u) /\ BlockedBy(u)' = BlockedBy(u)
    BY <1>1, <1>2, <1>3 DEF Blocked, BlockedBy, OwnerOf, BaseTypes
  <2> QED BY <2>1, FewerBlocked
<1> QED BY <1>4, <1>5, <1>6, <1>7, <1>8, <1>9

-----------------------------------------------------------------------------
(* How the shared steps change states and the ready queue.                 *)

LEMMA YieldReady ==
  ASSUME IInv, NEW next \in ToSet(ready), YieldSwitch(next)
  PROVE  /\ next \in Tid /\ next # current /\ cpu' = "dispatch" /\ cpu # "halted"
         /\ state' = [state EXCEPT ![current] = "READY", ![next] = "RUNNING"]
         /\ state[next] = "READY" /\ state[current] = "RUNNING"
         /\ current \notin killed /\ killed' = killed /\ w_exit' = w_exit
         /\ ToSet(ready') = (ToSet(ready) \ {next}) \cup {current}
<1> USE DEF IInv
<1>1. /\ next \in Tid /\ state[next] = "READY" /\ cpu = "user" /\ current \in Tid
      /\ state[current] = "RUNNING" /\ current \notin ToSet(ready)
      /\ current \notin killed
  BY QueueEmpty DEF YieldSwitch, QueueDiscipline, CurrentOK, OnlyCurrentRuns,
     KilledNeverRuns, BaseTypes
<1> DEFINE r == RemoveFirst(ready, next)
<1>2. r \in Seq(Tid) /\ IsInjective(r) /\ ToSet(r) = ToSet(ready) \ {next}
  BY QueueRemove DEF BaseTypes, NoRepeats
<1>3. ready' = Append(r, current)
  BY DEF YieldSwitch, Requeued
<1> HIDE DEF r
<1>4. ToSet(ready') = (ToSet(ready) \ {next}) \cup {current}
  BY <1>1, <1>2, <1>3, QueueAppend
<1> QED BY <1>1, <1>4 DEF YieldSwitch, SwitchTo

(* Where threads only lose the right to go on in thread_wait, and no       *)
(* structure is freed, the targets stay as they were.                      *)
LEMMA TargetsKept ==
  ASSUME TargetsOK, waits \in [Tid -> Tid \cup {NoThread}], cpu # "halted",
         UNCHANGED waits,
         \A u \in Tid : Waiting(u)' => Waiting(u),
         \A t \in Tid : state[t] # "FREE" => state'[t] # "FREE"
  PROVE  TargetsOK'
BY DEF TargetsOK, Waiting

LEMMA CoopYieldStep ==
  ASSUME IInv, CoopInv, UNCHANGED waits, NEW next \in ToSet(ready), YieldSwitch(next)
  PROVE  CoopInv'
<1>1. NobodySleeps'
  BY YieldReady DEF CoopInv, NobodySleeps, IInv, BaseTypes
<1>2. NothingReadyIsLost'
  BY YieldReady DEF CoopInv, NothingReadyIsLost, IInv, BaseTypes
<1>3. TargetsOK'
  <2>1. \A u \in Tid : Waiting(u)' => Waiting(u)
    BY YieldReady DEF Waiting, IInv, BaseTypes
  <2>2. \A t \in Tid : state[t] # "FREE" => state'[t] # "FREE"
    BY YieldReady DEF IInv, BaseTypes
  <2> QED BY <2>1, <2>2, YieldReady, TargetsKept DEF CoopInv
<1> QED BY <1>1, <1>2, <1>3 DEF CoopInv

LEMMA CoopCreateStep ==
  ASSUME IInv, CoopInv, NEW t \in Tid, CoopCreate(t)
  PROVE  IInv' /\ CoopInv'
<1>1. /\ waits' = [waits EXCEPT ![t] = NoThread] /\ cpu = "user" /\ killed' = killed
      /\ state[t] = "FREE" /\ w_exit' = w_exit
  BY DEF CoopCreate, ThreadCreate, ThreadCreateNoStack, Calling, PickTid, IInv, TidsMarked
<1>2. CASE ThreadCreate(t)
  <2>1. /\ state' = [state EXCEPT ![t] = "READY"] /\ ready' = Append(ready, t)
    BY <1>2 DEF ThreadCreate
  <2>2. ToSet(ready') = ToSet(ready) \cup {t}
    BY <1>1, <2>1, QueueAppend DEF IInv, BaseTypes, NoRepeats, QueueDiscipline
  <2>3. NobodySleeps' /\ NothingReadyIsLost'
    BY <1>1, <2>1, <2>2 DEF CoopInv, NobodySleeps, NothingReadyIsLost, IInv, BaseTypes
  <2>4. TargetsOK'
    BY <1>1, <2>1 DEF CoopInv, TargetsOK, Waiting, IInv, BaseTypes
  <2> QED BY <1>1, <1>2, <2>3, <2>4, CreateStep DEF CoopInv
<1>3. CASE ThreadCreateNoStack(t)
  <2>1. UNCHANGED <<cpu, state, ready>>
    BY <1>3 DEF ThreadCreateNoStack, queueVars
  <2>2. NobodySleeps' /\ NothingReadyIsLost'
    BY <1>1, <2>1 DEF CoopInv, NobodySleeps, NothingReadyIsLost
  <2>3. TargetsOK'
    BY <1>1, <2>1 DEF CoopInv, TargetsOK, Waiting
  <2> QED BY <1>1, <1>3, <2>2, <2>3, CreateNoStackStep DEF CoopInv
<1> QED BY <1>2, <1>3 DEF CoopCreate

LEMMA CoopKillStep ==
  ASSUME IInv, CoopInv, NEW target \in Tid, CoopKill(target)
  PROVE  IInv' /\ CoopInv'
<1>1. /\ killed' = killed \cup {target} /\ cpu = "user"
      /\ UNCHANGED <<waits, cpu, state, ready, w_exit>>
  BY DEF CoopKill, ThreadKill, Awakened, CoopInv, NobodySleeps
<1>2. CoopInv'
  BY <1>1, TargetsKept
     DEF CoopInv, NobodySleeps, NothingReadyIsLost, Waiting
<1> QED BY <1>2, KillStep DEF CoopKill

(* An exit: nobody slept for the thread, so nobody is woken.               *)
LEMMA CoopExitStep ==
  ASSUME IInv, CoopInv, UNCHANGED waits, cpu \in {"user", "dispatch"}, BeginExit
  PROVE  CoopInv'
<1> DEFINE q == JoinQueue(current)
<1>1. current \in Tid /\ q \in Queue
  BY Names DEF IInv, BaseTypes
<1>2. waiters[q] = <<>>
  <2>1. ToSet(waiters[q]) = {}
    BY <1>1, QueueEmpty DEF IInv, QueueDiscipline, BaseTypes, CoopInv, NobodySleeps
  <2> QED BY <1>1, <2>1, QueueEmpty DEF IInv, BaseTypes
<1>3. Woken(q, TRUE) = <<>> /\ ToSet(waiters[q]) = {}
  BY <1>1, <1>2, QueueEmpty DEF Woken, IInv, BaseTypes
<1>4. /\ state' = [state EXCEPT ![current] = "ZOMBIE"]
      /\ ready' = ready \o <<>> /\ w_exit' = w_exit /\ killed' = killed
  BY <1>1, <1>2, <1>3 DEF BeginExit, WakeState, Wakeup, IInv, BaseTypes
<1>5. ready' = ready
  BY <1>4 DEF IInv, BaseTypes
<1> HIDE DEF q
<1>6. NobodySleeps' /\ NothingReadyIsLost'
  BY <1>1, <1>4, <1>5 DEF CoopInv, NobodySleeps, NothingReadyIsLost, IInv, BaseTypes
<1>7. TargetsOK'
  <2>1. \A u \in Tid : Waiting(u)' => Waiting(u)
    BY <1>1, <1>4 DEF Waiting, IInv, BaseTypes
  <2>2. \A t \in Tid : state[t] # "FREE" => state'[t] # "FREE"
    BY <1>1, <1>4 DEF IInv, BaseTypes
  <2> QED BY <2>1, <2>2, TargetsKept DEF CoopInv
<1> QED BY <1>6, <1>7 DEF CoopInv

(* thread_switch goes on with a thread that was ready.                     *)
LEMMA CoopSwitchStep ==
  ASSUME IInv, CoopInv, UNCHANGED <<waits, killed, w_exit>>, cpu = "exit",
         NEW next \in Tid, Dequeues(next), ready' = RemoveFirst(ready, next),
         state' = [state EXCEPT ![next] = "RUNNING"]
  PROVE  CoopInv'
<1>1. state[next] = "READY" /\ ToSet(ready') = ToSet(ready) \ {next}
  BY DequeuedReady
<1>2. NobodySleeps' /\ NothingReadyIsLost'
  BY <1>1 DEF CoopInv, NobodySleeps, NothingReadyIsLost, IInv, BaseTypes
<1>3. TargetsOK'
  <2>1. \A u \in Tid : Waiting(u)' => Waiting(u)
    BY <1>1 DEF Waiting, IInv, BaseTypes
  <2>2. \A t \in Tid : state[t] # "FREE" => state'[t] # "FREE"
    BY <1>1 DEF IInv, BaseTypes
  <2> QED BY <2>1, <2>2, TargetsKept DEF CoopInv
<1> QED BY <1>2, <1>3 DEF CoopInv

(* A turn of the loop of thread_wait: the caller alone waits for target.   *)
LEMMA WaitTurnStep ==
  ASSUME IInv, CoopInv, cpu = "user", NEW target \in Tid, target # current,
         state[target] # "FREE", WaitTurn(target),
         \A u \in Tid \ {current} : Waiting(u) => waits[u] # target
  PROVE  IInv' /\ CoopInv'
<1>0. current \in Tid /\ state[current] = "RUNNING"
  BY DEF IInv, BaseTypes, CurrentOK, OnlyCurrentRuns
<1>1. CASE YieldTo(target) /\ waits' = [waits EXCEPT ![current] = target]
  <2>1. target \in ToSet(ready) /\ YieldSwitch(target)
    BY <1>1 DEF YieldTo
  <2>2. /\ state' = [state EXCEPT ![current] = "READY", ![target] = "RUNNING"]
        /\ ToSet(ready') = (ToSet(ready) \ {target}) \cup {current}
        /\ state[target] = "READY" /\ killed' = killed /\ w_exit' = w_exit
        /\ cpu' = "dispatch" /\ current \notin killed
    BY <2>1, YieldReady
  <2>3. NobodySleeps' /\ NothingReadyIsLost'
    BY <1>0, <2>2 DEF CoopInv, NobodySleeps, NothingReadyIsLost, IInv, BaseTypes
  <2>4. waits' \in [Tid -> Tid \cup {NoThread}] /\ waits'[current] = target
        /\ \A u \in Tid \ {current} :
             waits'[u] = waits[u] /\ (Waiting(u)' <=> Waiting(u))
    BY <1>0, <1>1, <2>2 DEF CoopInv, Waiting, IInv, BaseTypes
  <2>5. TargetsOK'
    <3> SUFFICES ASSUME NEW u \in Tid, Waiting(u)'
                 PROVE  /\ waits'[u] # u /\ state'[waits'[u]] # "FREE"
                        /\ \A v \in Tid : Waiting(v)' /\ waits'[v] = waits'[u] => v = u
      BY DEF TargetsOK
    <3>1. \A t \in Tid : state[t] # "FREE" => state'[t] # "FREE"
      BY <1>0, <2>2 DEF IInv, BaseTypes
    <3>2. CASE u = current
      BY <2>4, <3>1, <3>2
    <3>3. CASE u # current
      <4>1. Waiting(u) /\ waits'[u] = waits[u] /\ waits[u] # target
        BY <2>4, <3>3
      <4>2. waits[u] \in Tid
        BY <4>1 DEF Waiting, CoopInv
      <4> QED BY <1>0, <2>4, <3>1, <3>3, <4>1, <4>2 DEF CoopInv, TargetsOK
    <3> QED BY <3>2, <3>3
  <2> QED BY <2>1, <2>3, <2>4, <2>5, YieldStep DEF CoopInv
<1>2. CASE /\ ~Runnable(target) /\ CoopDestroy(target)
           /\ waits' = [waits EXCEPT ![current] = NoThread]
  <2>1. WaitReap(target) /\ state[target] = "ZOMBIE"
    BY <1>2, DestroyIsReap DEF CoopInv
  <2>2. /\ state' = [state EXCEPT ![target] = "FREE"] /\ killed' = killed \ {target}
        /\ w_exit' = w_exit \ {target} /\ cpu' = cpu
        /\ ready' = RemoveFirst(ready, target)
    BY <1>2 DEF CoopDestroy, Destroy
  <2>3. ToSet(ready') = ToSet(ready) \ {target}
    BY <2>2, QueueRemove DEF IInv, BaseTypes, NoRepeats
  <2>4. NobodySleeps' /\ NothingReadyIsLost'
    BY <2>2, <2>3 DEF CoopInv, NobodySleeps, NothingReadyIsLost, IInv, BaseTypes
  <2>5. TargetsOK'
    <3>1. \A u \in Tid : Waiting(u)' => u # current /\ Waiting(u) /\ waits'[u] = waits[u]
      BY <1>0, <1>2, <2>2 DEF CoopInv, Waiting, IInv, BaseTypes
    <3>2. \A u \in Tid : Waiting(u) => waits[u] \in Tid
      BY DEF Waiting, CoopInv
    <3> QED BY <2>2, <3>1, <3>2 DEF CoopInv, TargetsOK, IInv, BaseTypes
  <2>6. waits' \in [Tid -> Tid \cup {NoThread}]
    BY <1>2 DEF CoopInv
  <2> QED BY <2>1, <2>4, <2>5, <2>6, WaitReapStep DEF CoopInv
<1> QED BY <1>1, <1>2 DEF WaitTurn

(* Every step of the cooperative library.                                  *)
LEMMA CoopNextStep ==
  ASSUME IInv, CoopInv, CoopNext
  PROVE  IInv' /\ CoopInv'
<1>1. CASE CoopYield
  <2>1. PICK next \in ToSet(ready) : YieldSwitch(next)
    BY <1>1 DEF CoopYield, YieldAny, YieldTo, Dequeues
  <2> QED BY <1>1, <2>1, YieldStep, CoopYieldStep DEF CoopYield
<1>2. CASE \E t \in Tid : CoopCreate(t) \/ CoopKill(t)
  BY <1>2, CoopCreateStep, CoopKillStep
<1>3. CASE \E t \in Tid : CoopWait(t)
  BY <1>3, WaitTurnStep DEF CoopWait, MayWaitFor, Calling
<1>4. CASE CoopWaitAgain
  <2> DEFINE target == waits[current]
  <2>1. cpu = "user" /\ current \in Tid /\ target # NoThread /\ WaitTurn(target)
    BY <1>4 DEF CoopWaitAgain, IInv, BaseTypes
  <2>2. target \in Tid /\ Waiting(current)
    BY <2>1 DEF CoopInv, Waiting, IInv, CurrentOK, OnlyCurrentRuns, KilledNeverRuns
  <2>3. /\ target # current /\ state[target] # "FREE"
        /\ \A u \in Tid \ {current} : Waiting(u) => waits[u] # target
    BY <2>1, <2>2 DEF CoopInv, TargetsOK
  <2> HIDE DEF target
  <2> QED BY <2>1, <2>2, <2>3, WaitTurnStep
<1>5. CASE CoopExit
  BY <1>5, BeginExitStep, CoopExitStep DEF CoopExit, ThreadExit
<1>6. CASE CoopSwitch
  <2>1. CASE KilledExit
    BY <1>6, <2>1, BeginExitStep, CoopExitStep DEF CoopSwitch, KilledExit
  <2>2. CASE ExitSwitch
    <3>1. CoopInv'
      BY <1>6, <2>2, CoopSwitchStep DEF CoopSwitch, ExitSwitch
    <3> QED BY <2>2, <3>1, ExitSwitchStep
  <2>3. CASE Dispatch
    <3>1. UNCHANGED <<waits, state, killed, w_exit, ready>> /\ cpu = "dispatch"
      BY <1>6, <2>3 DEF CoopSwitch, Dispatch, threadVars, queueVars
    <3>2. CoopInv'
      BY <3>1, TargetsKept DEF CoopInv, NobodySleeps, NothingReadyIsLost, Waiting
    <3> QED BY <2>3, <3>2, DispatchStep
  <2> QED BY <1>6, <2>1, <2>2, <2>3 DEF CoopSwitch
<1>7. CASE SwitchReturnsTwice
  <2>1. CoopInv'
    BY <1>7, CoopSwitchStep DEF SwitchReturnsTwice
  <2> QED BY <1>7, <2>1, SwitchReturnsTwiceStep
<1>8. CASE CoopEnd
  <2>1. CASE ProcessEnd
    <3>1. /\ cpu' = "halted" /\ UNCHANGED <<waits, w_exit>>
          /\ state' = [t \in Tid |-> IF t = 0 THEN state[t] ELSE "FREE"]
      BY <1>8, <2>1 DEF CoopEnd, ProcessEnd
    <3>2. CoopInv'
      BY <3>1 DEF CoopInv, NobodySleeps, TargetsOK, NothingReadyIsLost
    <3> QED BY <2>1, <3>2, ProcessEndStep
  <2>2. CASE Ended
    <3>1. UNCHANGED <<waits, vars>>
      BY <1>8, <2>2 DEF CoopEnd, Ended
    <3>2. CoopInv'
      BY <3>1 DEF CoopInv, NobodySleeps, TargetsOK, Waiting, NothingReadyIsLost,
                  vars, threadVars, queueVars
    <3> QED BY <3>1, <3>2, StutterStep
  <2> QED BY <1>8, <2>1, <2>2 DEF CoopEnd
<1> QED BY <1>1, <1>2, <1>3, <1>4, <1>5, <1>6, <1>7, <1>8 DEF CoopNext

LEMMA NextLibraryInv == LibraryInv /\ [LibraryNext]_libraryVars => LibraryInv'
<1> SUFFICES ASSUME LibraryInv, [LibraryNext]_libraryVars PROVE LibraryInv'
  OBVIOUS
<1>1. CASE library = "preemptive" /\ Next /\ UNCHANGED <<library, waits>>
  BY <1>1, NextIInv DEF LibraryInv
<1>2. CASE library = "cooperative" /\ CoopNext /\ UNCHANGED library
  BY <1>2, CoopNextStep DEF LibraryInv
<1>3. CASE UNCHANGED libraryVars
  <2>1. UNCHANGED <<library, waits, vars>>
    BY <1>3 DEF libraryVars
  <2>2. CoopInv => CoopInv'
    BY <2>1 DEF CoopInv, NobodySleeps, TargetsOK, Waiting, NothingReadyIsLost,
                vars, threadVars, queueVars
  <2> QED BY <2>1, <2>2, StutterStep DEF LibraryInv
<1> QED BY <1>1, <1>2, <1>3 DEF LibraryNext

(* Every call of either library keeps the invariant.                       *)
THEOREM LibraryInvariance == LibrarySpec => []LibraryInv
BY InitLibraryInv, NextLibraryInv, PTL DEF LibrarySpec

(* In the cooperative library no READY thread is ever outside the ready    *)
(* queue, whoever is killed: the assertion of thread_wait holds.           *)
THEOREM CooperativeKills == LibrarySpec => []KillsLoseNobody
<1>1. LibraryInv => KillsLoseNobody
  BY DEF LibraryInv, CoopInv, KillsLoseNobody
<1> QED BY <1>1, LibraryInvariance, PTL

(* Whichever library a program links, its threads are in the queues their  *)
(* states name, and a killed thread executes nothing but its exit.         *)
THEOREM BothLibraries == LibrarySpec => [](QueueDiscipline /\ KilledNeverRuns)
<1>1. LibraryInv => QueueDiscipline /\ KilledNeverRuns
  BY DEF LibraryInv, IInv, CurrentOK
<1> QED BY <1>1, LibraryInvariance, PTL

(* In the cooperative library the structure thread_wait has a pointer to   *)
(* is not freed while it yields.                                           *)
THEOREM TargetsLive == LibrarySpec => [](library = "cooperative" => TargetsOK)
<1>1. LibraryInv => (library = "cooperative" => TargetsOK)
  BY DEF LibraryInv, CoopInv
<1> QED BY <1>1, LibraryInvariance, PTL

=============================================================================
