--------------------------- MODULE Threads_proofs ---------------------------
(***************************************************************************)
(* The inductive invariant of module Threads and its proof, for every      *)
(* number of threads, both schedulers, with and without thread_kill.       *)
(***************************************************************************)
EXTENDS Threads, QueueLemmas

(* TypeOK but for the lengths of the queues, which follow from NoRepeats.  *)
BaseTypes ==
  /\ cpu \in {"user", "dispatch", "kernel", "exit", "again", "halted"}
  /\ current \in Tid
  /\ state \in [Tid -> {"FREE", "READY", "RUNNING", "SLEEPING", "ZOMBIE"}]
  /\ tid_used \subseteq Tid /\ killed \subseteq Tid
  /\ resumed \subseteq Tid /\ w_exit \subseteq Tid
  /\ wait_queue \in [Tid -> Queue \cup {NoQueue}]
  /\ ready \in Seq(Tid)
  /\ waiters \in [Queue -> Seq(Tid)]
  /\ owner \in [Locks -> Tid \cup {NoThread}]
  /\ cont \in [Tid -> Cont]
  /\ stack_base \subseteq Tid /\ stacks \subseteq Tid
  /\ stack_to_free \in Tid \cup {NoThread}
  /\ cpu_stack \in Tid \cup {NoThread}

NoRepeats == IsInjective(ready) /\ \A q \in Queue : IsInjective(waiters[q])

(* The thread that exits is a zombie, and no killed thread got past        *)
(* thread_switch.                                                          *)
CurrentOK ==
  /\ OnlyCurrentRuns
  /\ cpu \in {"exit", "again"} => state[current] = "ZOMBIE"
  /\ KilledNeverRuns

(* thread_create finds a tid only where there is no thread.                *)
TidsMarked ==
  cpu # "halted" => \A t \in Tid : state[t] # "FREE" => t \in tid_used

(* A sleeping joiner is in the join queue of a live thread; a joiner that  *)
(* was woken by the exit of its target finds the zombie, marked w_exit.    *)
Joining ==
  cpu # "halted" =>
  /\ cpu = "user" => cont[current] = User
  /\ \A t, u \in Tid :
       state[u] = "SLEEPING" /\ wait_queue[u] = JoinQueue(t)
         => state[t] \notin {"FREE", "ZOMBIE"} /\ cont[u] = InWait(t)
  /\ \A t, u \in Tid :
       cont[u] = InWait(t) =>
         /\ state[u] = "SLEEPING" => wait_queue[u] = JoinQueue(t)
         /\ state[u] \in {"READY", "RUNNING"} /\ u \notin killed
              => state[t] = "ZOMBIE" /\ t \in w_exit

IInv ==
  /\ BaseTypes /\ NoRepeats /\ QueueDiscipline /\ CurrentOK
  /\ TidsMarked /\ Joining /\ NoWaitCycle

-----------------------------------------------------------------------------
(* Names of queues and of calls.                                           *)
LEMMA Names ==
  /\ 0 \in Tid /\ NoThread \notin Tid
  /\ User \in Cont /\ NoQueue \notin Queue
  /\ \A t \in Tid : JoinQueue(t) \in Queue /\ InWait(t) \in Cont /\ InWait(t) # User
  /\ \A t, u \in Tid : JoinQueue(t) = JoinQueue(u) => t = u
  /\ \A t, u \in Tid : InWait(t) = InWait(u) => t = u
<1>1. 0 \in Tid /\ NoThread \notin Tid
  BY ConstantsAssumption DEF Tid, NoThread
<1>2. \A t \in Tid : InWait(t) # User
  BY DEF InWait, User
<1>3. \A t, u \in Tid : InWait(t) = InWait(u) => t = u
  BY DEF InWait
<1>4. NoQueue \notin Queue
  BY DEF NoQueue, Queue, JoinQueue, LockQueue, CvQueue
<1> QED
  BY <1>1, <1>2, <1>3, <1>4
  DEF User, Cont, Queue, JoinQueue

(* Blocking fewer threads, on the same queues, makes no cycle.             *)
LEMMA FewerBlocked ==
  ASSUME NoWaitCycle,
         \A t \in Tid : Blocked(t)' => Blocked(t) /\ BlockedBy(t)' = BlockedBy(t)
  PROVE  NoWaitCycle'
BY DEF NoWaitCycle

LEMMA InitIInv == Init => IInv
<1> SUFFICES ASSUME Init PROVE IInv
  OBVIOUS
<1> USE Names DEF Init
<1>1. BaseTypes
  <2>1. <<>> \in Seq(Tid)
    OBVIOUS
  <2> QED BY <2>1 DEF BaseTypes
<1>2. NoRepeats
  BY <1>1, QueueEmpty DEF BaseTypes, NoRepeats
<1>3. QueueDiscipline
  BY QueueEmpty, SMTT(30) DEF QueueDiscipline
<1>4. CurrentOK
  BY DEF CurrentOK, OnlyCurrentRuns, KilledNeverRuns
<1>5. TidsMarked
  BY DEF TidsMarked
<1>6. Joining
  BY DEF Joining
<1>7. NoWaitCycle
  BY DEF NoWaitCycle, Blocked
<1> QED BY <1>1, <1>2, <1>3, <1>4, <1>5, <1>6, <1>7 DEF IInv
-----------------------------------------------------------------------------
(* One lemma for each action.                                              *)

LEMMA CreateStep ==
  ASSUME IInv, NEW t \in Tid, ThreadCreate(t)
  PROVE  IInv'
<1> USE Names DEF IInv
<1>1. /\ state[t] = "FREE" /\ t # current /\ cpu = "user" /\ cpu' = "user"
      /\ t \notin ToSet(ready) /\ \A q \in Queue : t \notin ToSet(waiters[q])
  BY DEF ThreadCreate, PickTid, TidsMarked, QueueDiscipline, CurrentOK,
         OnlyCurrentRuns, BaseTypes
<1>2. /\ ready' \in Seq(Tid) /\ IsInjective(ready')
      /\ ToSet(ready') = ToSet(ready) \cup {t}
  BY <1>1, QueueAppend DEF ThreadCreate, BaseTypes, NoRepeats
<1>3. BaseTypes'
  BY <1>2 DEF BaseTypes, ThreadCreate
<1>4. NoRepeats'
  BY <1>2 DEF NoRepeats, ThreadCreate
<1>5. QueueDiscipline'
  BY <1>1, <1>2, <1>4 DEF QueueDiscipline, ThreadCreate, BaseTypes, NoRepeats
<1>6. CurrentOK'
  BY <1>1 DEF CurrentOK, OnlyCurrentRuns, KilledNeverRuns, ThreadCreate, BaseTypes
<1>7. TidsMarked'
  BY <1>1 DEF TidsMarked, ThreadCreate, BaseTypes
<1>8. Joining'
  BY <1>1 DEF Joining, ThreadCreate, BaseTypes
<1>9. NoWaitCycle'
  <2>1. \A u \in Tid : Blocked(u)' => Blocked(u) /\ BlockedBy(u)' = BlockedBy(u)
    BY DEF ThreadCreate, Blocked, BlockedBy, OwnerOf, BaseTypes
  <2> QED BY <2>1, FewerBlocked
<1> QED BY <1>3, <1>4, <1>5, <1>6, <1>7, <1>8, <1>9

LEMMA CreateNoStackStep ==
  ASSUME IInv, NEW t \in Tid, ThreadCreateNoStack(t)
  PROVE  IInv'
<1> USE DEF IInv, ThreadCreateNoStack, queueVars, stackVars
<1>1. BaseTypes'
  BY DEF BaseTypes
<1>2. NoRepeats' /\ QueueDiscipline'
  BY DEF NoRepeats, QueueDiscipline
<1>3. CurrentOK' /\ TidsMarked'
  BY DEF CurrentOK, OnlyCurrentRuns, KilledNeverRuns, TidsMarked, BaseTypes
<1>4. Joining'
  BY DEF Joining
<1>5. NoWaitCycle'
  BY FewerBlocked DEF Blocked, BlockedBy, OwnerOf
<1> QED BY <1>1, <1>2, <1>3, <1>4, <1>5

(* thread_yield: the caller takes the place of next among the ready.       *)
LEMMA YieldStep ==
  ASSUME IInv, NEW next \in ToSet(ready), YieldSwitch(next)
  PROVE  IInv'
<1> USE Names DEF IInv
<1>1. /\ next \in Tid /\ state[next] = "READY" /\ next # current /\ current \in Tid
      /\ state[current] = "RUNNING" /\ cpu = "user" /\ current \notin killed
      /\ cpu' = "dispatch" /\ current' = next
      /\ current \notin ToSet(ready) /\ \A q \in Queue : current \notin ToSet(waiters[q])
  BY QueueEmpty DEF YieldSwitch, SwitchTo, QueueDiscipline, CurrentOK,
         OnlyCurrentRuns, KilledNeverRuns, BaseTypes
<1>2. /\ ready' \in Seq(Tid) /\ IsInjective(ready')
      /\ ToSet(ready') = (ToSet(ready) \ {next}) \cup {current}
  <2> DEFINE r == RemoveFirst(ready, next)
  <2>1. r \in Seq(Tid) /\ IsInjective(r) /\ ToSet(r) = ToSet(ready) \ {next}
    BY QueueRemove DEF BaseTypes, NoRepeats
  <2>2. ready' = Append(r, current)
    BY DEF YieldSwitch, Requeued
  <2> HIDE DEF r
  <2> QED BY <1>1, <2>1, <2>2, QueueAppend
<1>3. BaseTypes'
  BY <1>1, <1>2 DEF BaseTypes, YieldSwitch, SwitchTo, stackVars
<1>4. NoRepeats'
  BY <1>2 DEF NoRepeats, YieldSwitch
<1>5. QueueDiscipline'
  <2>1. /\ state' = [state EXCEPT ![current] = "READY", ![next] = "RUNNING"]
        /\ waiters' = waiters /\ wait_queue' = wait_queue
    BY DEF YieldSwitch
  <2>2. \A t \in ToSet(ready') : state'[t] = "READY"
    BY <1>1, <1>2, <2>1, QueueEmpty DEF QueueDiscipline, BaseTypes
  <2>3. \A t \in Tid : state'[t] = "SLEEPING" <=> state[t] = "SLEEPING"
    BY <1>1, <2>1 DEF BaseTypes
  <2> QED BY <1>1, <1>4, <2>1, <2>2, <2>3 DEF QueueDiscipline, NoRepeats
<1>6. CurrentOK'
  BY <1>1 DEF CurrentOK, OnlyCurrentRuns, KilledNeverRuns, YieldSwitch, BaseTypes
<1>7. TidsMarked'
  BY <1>1 DEF TidsMarked, YieldSwitch, BaseTypes
<1>8. Joining'
  BY <1>1 DEF Joining, YieldSwitch, BaseTypes
<1>9. NoWaitCycle'
  <2>1. \A u \in Tid : Blocked(u)' => Blocked(u) /\ BlockedBy(u)' = BlockedBy(u)
    BY <1>1 DEF YieldSwitch, Blocked, BlockedBy, OwnerOf, BaseTypes
  <2> QED BY <2>1, FewerBlocked
<1> QED BY <1>3, <1>4, <1>5, <1>6, <1>7, <1>8, <1>9

(* thread_kill takes a sleeping thread out of the queue it sleeps on.      *)
LEMMA KillStep ==
  ASSUME IInv, NEW target \in Tid, ThreadKill(target)
  PROVE  IInv'
<1> USE Names DEF IInv
<1>1. /\ cpu = "user" /\ cpu' = "user" /\ current' = current /\ current \in Tid
      /\ target # current /\ state[target] \in {"READY", "SLEEPING"}
      /\ killed' = killed \cup {target} /\ cont' = cont /\ owner' = owner
      /\ tid_used' = tid_used /\ w_exit' = w_exit
  BY DEF ThreadKill, CurrentOK, OnlyCurrentRuns, BaseTypes
<1>2. CASE state[target] # "SLEEPING"
  <2>1. UNCHANGED <<waiters, wait_queue, state, ready>>
    BY <1>2 DEF ThreadKill, Awakened
  <2>2. BaseTypes'
    BY <2>1 DEF BaseTypes, ThreadKill, stackVars
  <2>3. NoRepeats' /\ QueueDiscipline' /\ TidsMarked'
    BY <1>1, <2>1 DEF NoRepeats, QueueDiscipline, TidsMarked
  <2>4. CurrentOK'
    BY <1>1, <2>1 DEF CurrentOK, OnlyCurrentRuns, KilledNeverRuns
  <2>5. Joining'
    BY <1>1, <2>1 DEF Joining
  <2>6. NoWaitCycle'
    BY <1>1, <2>1, FewerBlocked DEF Blocked, BlockedBy, OwnerOf
  <2> QED BY <2>2, <2>3, <2>4, <2>5, <2>6
<1>3. CASE state[target] = "SLEEPING"
  <2> DEFINE q == wait_queue[target]
             w == RemoveFirst(waiters[q], target)
  <2>1. /\ waiters' = [waiters EXCEPT ![q] = w]
        /\ wait_queue' = [wait_queue EXCEPT ![target] = NoQueue]
        /\ state' = [state EXCEPT ![target] = "READY"]
        /\ ready' = Append(ready, target)
    BY <1>3 DEF ThreadKill, Awakened
  <2>2. q \in Queue /\ waiters[q] \in Seq(Tid) /\ IsInjective(waiters[q])
    BY <1>1, <1>3 DEF QueueDiscipline, BaseTypes, NoRepeats
  <2>3. w \in Seq(Tid) /\ IsInjective(w) /\ ToSet(w) = ToSet(waiters[q]) \ {target}
    BY <2>2, QueueRemove
  <2> HIDE DEF q, w
  <2>4. target \notin ToSet(ready)
    BY <1>1, <1>3 DEF QueueDiscipline
  <2>5. /\ ready' \in Seq(Tid) /\ IsInjective(ready')
        /\ ToSet(ready') = ToSet(ready) \cup {target}
    BY <2>1, <2>4, QueueAppend DEF BaseTypes, NoRepeats
  <2>6. BaseTypes'
    BY <1>1, <2>1, <2>3, <2>5 DEF BaseTypes, ThreadKill, stackVars
  <2>7. NoRepeats'
    BY <2>1, <2>2, <2>3, <2>5 DEF NoRepeats, BaseTypes
  <2>8. QueueDiscipline'
    <3>1. \A t \in ToSet(ready') : state'[t] = "READY"
      BY <1>1, <2>1, <2>5, QueueEmpty DEF QueueDiscipline, BaseTypes
    <3>2. \A p \in Queue, t \in Tid :
            t \in ToSet(waiters'[p]) <=> state'[t] = "SLEEPING" /\ wait_queue'[t] = p
      <4> SUFFICES ASSUME NEW p \in Queue, NEW t \in Tid
                   PROVE  t \in ToSet(waiters'[p])
                            <=> state'[t] = "SLEEPING" /\ wait_queue'[t] = p
        OBVIOUS
      <4>1. t \in ToSet(waiters[p]) <=> state[t] = "SLEEPING" /\ wait_queue[t] = p
        BY <1>1 DEF QueueDiscipline
      <4>2. t \in ToSet(waiters'[p]) <=> t \in ToSet(waiters[p]) /\ t # target
        <5>1. CASE p = q
          BY <2>1, <2>2, <2>3, <5>1 DEF BaseTypes
        <5>2. CASE p # q
          <6>1. waiters'[p] = waiters[p]
            BY <2>1, <5>2 DEF BaseTypes
          <6> QED BY <4>1, <5>2, <6>1 DEF q
        <5> QED BY <5>1, <5>2
      <4> QED BY <2>1, <4>1, <4>2 DEF BaseTypes
    <3>3. \A t \in Tid : state'[t] = "SLEEPING" => wait_queue'[t] # NoQueue
      BY <1>1, <2>1 DEF QueueDiscipline, BaseTypes
    <3> QED BY <2>7, <3>1, <3>2, <3>3 DEF QueueDiscipline, NoRepeats
  <2>9. CurrentOK'
    BY <1>1, <1>3, <2>1 DEF CurrentOK, OnlyCurrentRuns, KilledNeverRuns, BaseTypes
  <2>10. TidsMarked'
    BY <1>1, <1>3, <2>1 DEF TidsMarked, BaseTypes
  <2>11. Joining'
    BY <1>1, <1>3, <2>1 DEF Joining, BaseTypes
  <2>12. NoWaitCycle'
    <3>1. \A u \in Tid : Blocked(u)' => Blocked(u) /\ BlockedBy(u)' = BlockedBy(u)
      BY <1>1, <2>1 DEF Blocked, BlockedBy, OwnerOf, BaseTypes
    <3> QED BY <3>1, FewerBlocked
  <2> QED BY <2>6, <2>7, <2>8, <2>9, <2>10, <2>11, <2>12
<1> QED BY <1>2, <1>3

(* thread_wait of a zombie frees a thread nobody waits for.                *)
LEMMA WaitReapStep ==
  ASSUME IInv, NEW dead \in Tid, WaitReap(dead)
  PROVE  IInv'
<1> USE Names DEF IInv
<1>1. /\ cpu = "user" /\ cpu' = "user" /\ current' = current /\ current \in Tid
      /\ dead # current /\ state[dead] = "ZOMBIE" /\ dead \notin w_exit
      /\ cont' = cont /\ owner' = owner /\ waiters' = waiters
      /\ wait_queue' = wait_queue
      /\ state' = [state EXCEPT ![dead] = "FREE"]
      /\ tid_used' = tid_used \ {dead} /\ killed' = killed \ {dead}
      /\ w_exit' = w_exit \ {dead}
  BY DEF WaitReap, Destroy, Reapable, BaseTypes
<1>2. /\ ready' \in Seq(Tid) /\ IsInjective(ready')
      /\ ToSet(ready') = ToSet(ready) \ {dead}
  BY QueueRemove DEF WaitReap, Destroy, BaseTypes, NoRepeats
<1>3. BaseTypes'
  BY <1>1, <1>2 DEF BaseTypes, WaitReap, Destroy
<1>4. NoRepeats'
  BY <1>1, <1>2 DEF NoRepeats
<1>5. QueueDiscipline'
  <2>1. \A t \in Tid : state'[t] = "SLEEPING" <=> state[t] = "SLEEPING"
    BY <1>1 DEF BaseTypes
  <2>2. \A t \in ToSet(ready') : state'[t] = "READY"
    BY <1>1, <1>2, QueueEmpty DEF QueueDiscipline, BaseTypes
  <2> QED BY <1>1, <1>4, <2>1, <2>2 DEF QueueDiscipline, NoRepeats
<1>6. CurrentOK'
  BY <1>1 DEF CurrentOK, OnlyCurrentRuns, KilledNeverRuns, BaseTypes
<1>7. TidsMarked'
  BY <1>1 DEF TidsMarked, BaseTypes
<1>8. Joining'
  BY <1>1 DEF Joining, BaseTypes
<1>9. NoWaitCycle'
  <2>1. \A u \in Tid : Blocked(u)' => Blocked(u) /\ BlockedBy(u)' = BlockedBy(u)
    BY <1>1 DEF Blocked, BlockedBy, OwnerOf, BaseTypes
  <2> QED BY <2>1, FewerBlocked
<1> QED BY <1>3, <1>4, <1>5, <1>6, <1>7, <1>8, <1>9

(* A joiner that slept does not free its target: the exit marked it w_exit.*)
LEMMA JoinerReapsNobody ==
  ASSUME IInv, WaitResumed
  PROVE  UNCHANGED <<ready, stacks, stack_base, state, tid_used, killed, resumed,
                     w_exit>>
<1> USE Names DEF IInv
<1> DEFINE target == cont[current].tid
<1>1. /\ cpu = "kernel" /\ cont[current].fn = "thread_wait" /\ current \in Tid
      /\ current \notin killed /\ state[current] = "RUNNING"
  BY DEF WaitResumed, CurrentOK, OnlyCurrentRuns, KilledNeverRuns, BaseTypes
<1>2. \E t \in Tid : cont[current] = InWait(t)
  BY <1>1, SMTT(30) DEF BaseTypes, Cont, User, InWait, InAcquire, CvRelease, InCvWait
<1>3. target \in Tid /\ cont[current] = InWait(target)
  BY <1>2 DEF InWait
<1>4. target \in w_exit
  BY <1>1, <1>3 DEF Joining
<1> QED BY <1>4 DEF WaitResumed, Reapable

LEMMA WaitResumedStep ==
  ASSUME IInv, WaitResumed
  PROVE  IInv'
<1> USE Names DEF IInv
<1>1. /\ cpu = "kernel" /\ cpu' = "user" /\ current' = current /\ current \in Tid
      /\ current \notin killed /\ state[current] = "RUNNING"
      /\ cont' = [cont EXCEPT ![current] = User]
      /\ UNCHANGED <<wait_queue, waiters, owner, stack_to_free, cpu_stack>>
  BY DEF WaitResumed, CurrentOK, OnlyCurrentRuns, KilledNeverRuns, BaseTypes
<1>2. UNCHANGED <<ready, stacks, stack_base, state, tid_used, killed, resumed, w_exit>>
  BY JoinerReapsNobody
<1>3. BaseTypes'
  BY <1>1, <1>2 DEF BaseTypes
<1>4. NoRepeats' /\ QueueDiscipline'
  BY <1>1, <1>2 DEF NoRepeats, QueueDiscipline
<1>5. CurrentOK' /\ TidsMarked'
  BY <1>1, <1>2 DEF CurrentOK, OnlyCurrentRuns, KilledNeverRuns, TidsMarked
<1>6. Joining'
  BY <1>1, <1>2 DEF Joining, BaseTypes
<1>7. NoWaitCycle'
  BY <1>1, <1>2, FewerBlocked DEF Blocked, BlockedBy, OwnerOf
<1> QED BY <1>3, <1>4, <1>5, <1>6, <1>7

(* thread_exit moves every joiner to the ready queue.                      *)
LEMMA BeginExitStep ==
  ASSUME IInv, cpu \in {"user", "dispatch", "again"}, BeginExit
  PROVE  IInv'
<1> USE Names DEF IInv
<1> DEFINE q == JoinQueue(current)
           W == waiters[q]
<1>1. /\ cpu' = "exit" /\ current' = current /\ current \in Tid
      /\ cpu # "halted" /\ state[current] \in {"RUNNING", "ZOMBIE"}
      /\ q \in Queue /\ W \in Seq(Tid) /\ IsInjective(W)
  BY DEF BeginExit, CurrentOK, OnlyCurrentRuns, BaseTypes, NoRepeats
<1>2. ToSet(W) \subseteq Tid /\ (W = <<>> <=> ToSet(W) = {}) /\ ToSet(<<>>) = {}
      /\ IsInjective(<<>>) /\ <<>> \in Seq(Tid)
  BY <1>1, QueueEmpty
<1>3. \A t \in Tid : t \in ToSet(W) <=> state[t] = "SLEEPING" /\ wait_queue[t] = q
  BY <1>1 DEF QueueDiscipline
<1>4. Woken(q, TRUE) = W /\ StillWaiting(q, TRUE) = <<>>
  BY DEF Woken, StillWaiting
<1>5. /\ state' = [t \in Tid |-> IF t \in ToSet(W) THEN "READY"
                                  ELSE IF t = current THEN "ZOMBIE" ELSE state[t]]
      /\ ready' = ready \o W /\ waiters' = [waiters EXCEPT ![q] = <<>>]
      /\ wait_queue' = [t \in Tid |-> IF t \in ToSet(W) THEN NoQueue
                                       ELSE wait_queue[t]]
      /\ w_exit' = IF W # <<>> THEN w_exit \cup {current} ELSE w_exit
      /\ UNCHANGED <<resumed, cont, tid_used, killed, owner, stackVars>>
  BY <1>1, <1>4 DEF BeginExit, WakeState, Wakeup, BaseTypes
<1> HIDE DEF W
<1>6. /\ ready' \in Seq(Tid) /\ IsInjective(ready')
      /\ ToSet(ready') = ToSet(ready) \cup ToSet(W)
  <2>1. ToSet(ready) \cap ToSet(W) = {}
    BY <1>1, <1>2, <1>3 DEF QueueDiscipline
  <2> QED BY <1>1, <1>5, <2>1, QueueConcat DEF BaseTypes, NoRepeats
<1>7. BaseTypes'
  BY <1>1, <1>2, <1>5, <1>6 DEF BaseTypes, stackVars
<1>8. NoRepeats'
  BY <1>1, <1>2, <1>5, <1>6 DEF NoRepeats, BaseTypes
<1>9. QueueDiscipline'
  <2>1. \A t \in ToSet(ready') : state'[t] = "READY"
    <3>1. \A t \in ToSet(ready) : t \in Tid /\ state[t] = "READY"
      BY <1>1, QueueEmpty DEF QueueDiscipline, BaseTypes
    <3> QED BY <1>1, <1>2, <1>5, <1>6, <3>1
  <2>2. \A p \in Queue, t \in Tid :
          t \in ToSet(waiters'[p]) <=> state'[t] = "SLEEPING" /\ wait_queue'[t] = p
    <3> SUFFICES ASSUME NEW p \in Queue, NEW t \in Tid
                 PROVE  t \in ToSet(waiters'[p])
                          <=> state'[t] = "SLEEPING" /\ wait_queue'[t] = p
      OBVIOUS
    <3>1. t \in ToSet(waiters[p]) <=> state[t] = "SLEEPING" /\ wait_queue[t] = p
      BY <1>1 DEF QueueDiscipline
    <3>2. state'[t] = "SLEEPING" <=> state[t] = "SLEEPING" /\ wait_queue[t] # q
      BY <1>1, <1>3, <1>5
    <3>3. CASE p = q
      <4>1. waiters'[p] = <<>>
        BY <1>1, <1>5, <3>3 DEF BaseTypes
      <4> QED BY <1>2, <1>3, <1>5, <3>2, <3>3, <4>1
    <3>4. CASE p # q
      <4>1. waiters'[p] = waiters[p]
        BY <1>5, <3>4 DEF BaseTypes
      <4> QED BY <1>3, <1>5, <3>1, <3>2, <3>4, <4>1
    <3> QED BY <3>3, <3>4
  <2>3. \A t \in Tid : state'[t] = "SLEEPING" => wait_queue'[t] # NoQueue
    BY <1>1, <1>5 DEF QueueDiscipline
  <2> QED BY <1>8, <2>1, <2>2, <2>3 DEF QueueDiscipline, NoRepeats
<1>10. CurrentOK'
  <2>1. \A t \in Tid : state'[t] # "RUNNING"
    BY <1>1, <1>5 DEF CurrentOK, OnlyCurrentRuns
  <2>2. state'[current] = "ZOMBIE"
    BY <1>1, <1>3, <1>5
  <2> QED BY <1>1, <2>1, <2>2 DEF CurrentOK, OnlyCurrentRuns, KilledNeverRuns
<1>11. TidsMarked'
  BY <1>1, <1>3, <1>5 DEF TidsMarked
<1>12. Joining'
  <2> SUFFICES ASSUME NEW t \in Tid, NEW u \in Tid
      PROVE  /\ state'[u] = "SLEEPING" /\ wait_queue'[u] = JoinQueue(t)
                  => state'[t] \notin {"FREE", "ZOMBIE"} /\ cont'[u] = InWait(t)
             /\ cont'[u] = InWait(t) =>
                  /\ state'[u] = "SLEEPING" => wait_queue'[u] = JoinQueue(t)
                  /\ state'[u] \in {"READY", "RUNNING"} /\ u \notin killed'
                       => state'[t] = "ZOMBIE" /\ t \in w_exit'
    BY <1>1 DEF Joining
  <2>1. state'[u] = "SLEEPING" /\ wait_queue'[u] = JoinQueue(t)
          => state'[t] \notin {"FREE", "ZOMBIE"} /\ cont'[u] = InWait(t)
    BY <1>1, <1>3, <1>5 DEF Joining
  <2>2. cont'[u] = InWait(t) /\ state'[u] = "SLEEPING" => wait_queue'[u] = JoinQueue(t)
    BY <1>1, <1>3, <1>5 DEF Joining
  <2>3. ASSUME cont'[u] = InWait(t), state'[u] \in {"READY", "RUNNING"}, u \notin killed'
        PROVE  state'[t] = "ZOMBIE" /\ t \in w_exit'
    <3>1. CASE u \in ToSet(W)
      <4>1. JoinQueue(t) = q
        BY <1>1, <1>3, <1>5, <2>3, <3>1 DEF Joining
      <4>2. t = current /\ W # <<>>
        BY <1>1, <1>2, <3>1, <4>1
      <4> QED BY <1>1, <1>3, <1>5, <4>2
    <3>2. CASE u \notin ToSet(W)
      <4>1. state[u] \in {"READY", "RUNNING"} /\ u \notin killed /\ cont[u] = InWait(t)
        BY <1>5, <2>3, <3>2
      <4>2. state[t] = "ZOMBIE" /\ t \in w_exit
        BY <1>1, <4>1 DEF Joining
      <4> QED BY <1>3, <1>5, <4>2
    <3> QED BY <3>1, <3>2
  <2> QED BY <2>1, <2>2, <2>3
<1>13. NoWaitCycle'
  <2>1. \A u \in Tid : Blocked(u)' => Blocked(u) /\ BlockedBy(u)' = BlockedBy(u)
    BY <1>1, <1>5 DEF Blocked, BlockedBy, OwnerOf
  <2> QED BY <2>1, FewerBlocked
<1> QED BY <1>7, <1>8, <1>9, <1>10, <1>11, <1>12, <1>13

(* The head of the ready queue, or any of its threads, leaves it.          *)
LEMMA DequeuedReady ==
  ASSUME IInv, cpu # "halted", NEW next \in Tid, Dequeues(next)
  PROVE  LET r == RemoveFirst(ready, next)
         IN  /\ state[next] = "READY" /\ r \in Seq(Tid) /\ IsInjective(r)
             /\ ToSet(r) = ToSet(ready) \ {next}
BY QueueRemove DEF IInv, Dequeues, QueueDiscipline, BaseTypes, NoRepeats

(* The sleep thread_sleep allows closes no cycle of waiting threads.       *)
LEMMA SleepNoCycle ==
  ASSUME NoWaitCycle, BaseTypes, NEW q \in Queue, ~WalkMeetsCurrent(q),
         UNCHANGED owner,
         wait_queue' = [wait_queue EXCEPT ![current] = q],
         \A t \in Tid \ {current} : state'[t] = "SLEEPING" => state[t] = "SLEEPING"
  PROVE  NoWaitCycle'
<1> SUFFICES ASSUME NEW S \in SUBSET Tid, S # {},
                    \A t \in S : Blocked(t)' /\ BlockedBy(t)' \in S
             PROVE  FALSE
  BY DEF NoWaitCycle
<1>1. current \in Tid /\ wait_queue'[current] = q
  BY DEF BaseTypes
<1>2. \A t \in S \ {current} : Blocked(t) /\ BlockedBy(t) = BlockedBy(t)'
  BY DEF Blocked, BlockedBy, OwnerOf, BaseTypes
<1>3. CASE current \notin S
  BY <1>2, <1>3 DEF NoWaitCycle
<1>4. CASE current \in S
  <2>1. OwnerOf(q) \in S
    BY <1>1, <1>4 DEF BlockedBy, OwnerOf
  <2>2. NoThread \notin S /\ OwnerOf(q) # NoThread
    BY <2>1, Names
  <2>3. PICK C \in SUBSET Tid :
          /\ OwnerOf(q) \in C /\ current \notin C
          /\ \A t \in C \ {current} :
               Blocked(t) /\ BlockedBy(t) # NoThread => BlockedBy(t) \in C
    BY <2>2 DEF WalkMeetsCurrent
  <2>4. \A t \in C \cap S : Blocked(t) /\ BlockedBy(t) \in C \cap S
    BY <1>2, <2>2, <2>3
  <2>5. C \cap S \in SUBSET Tid /\ C \cap S # {}
    BY <2>1, <2>3
  <2> QED BY <2>4, <2>5 DEF NoWaitCycle
<1> QED BY <1>3, <1>4

(* thread_sleep, in whatever call it is made: a joiner sleeps in the join  *)
(* queue of a live thread, and nobody else sleeps in a join queue.         *)
LEMMA SleepStep ==
  ASSUME IInv, NEW q \in Queue, NEW k \in Cont, SleepOn(q, k),
         cpu \in {"user", "kernel"},
         \A t \in Tid : q = JoinQueue(t) => state[t] \notin {"FREE", "ZOMBIE"},
         \A t \in Tid : q = JoinQueue(t) <=> k = InWait(t),
         UNCHANGED <<tid_used, killed, w_exit, owner, stackVars>>
  PROVE  IInv'
<1> USE Names DEF IInv
<1>1. /\ cpu' = "dispatch" /\ cpu # "halted" /\ current \in Tid
      /\ state[current] = "RUNNING" /\ current \notin killed
      /\ ~WalkMeetsCurrent(q)
      /\ resumed' = resumed \cup {current}
      /\ wait_queue' = [wait_queue EXCEPT ![current] = q]
      /\ waiters' = [waiters EXCEPT ![q] = Append(@, current)]
      /\ cont' = [cont EXCEPT ![current] = k]
  BY DEF SleepOn, SwitchTo, CurrentOK, OnlyCurrentRuns, KilledNeverRuns, BaseTypes
<1>2. PICK next \in Tid :
        /\ Dequeues(next) /\ ready' = RemoveFirst(ready, next)
        /\ state' = [state EXCEPT ![current] = "SLEEPING", ![next] = "RUNNING"]
        /\ current' = next
  BY DEF SleepOn, SwitchTo
<1>3. /\ state[next] = "READY" /\ next # current
      /\ ready' \in Seq(Tid) /\ IsInjective(ready')
      /\ ToSet(ready') = ToSet(ready) \ {next}
  BY <1>1, <1>2, DequeuedReady
<1>4. waiters[q] \in Seq(Tid) /\ IsInjective(waiters[q]) /\ current \notin ToSet(waiters[q])
  BY <1>1 DEF BaseTypes, NoRepeats, QueueDiscipline
<1> DEFINE w == Append(waiters[q], current)
<1>5. w \in Seq(Tid) /\ IsInjective(w) /\ ToSet(w) = ToSet(waiters[q]) \cup {current}
  BY <1>1, <1>4, QueueAppend
<1>6. waiters' = [waiters EXCEPT ![q] = w]
  BY <1>1
<1> HIDE DEF w
<1>7. BaseTypes'
  <2>1. waiters' \in [Queue -> Seq(Tid)] /\ ready' \in Seq(Tid)
    BY <1>3, <1>5, <1>6 DEF BaseTypes
  <2>2. /\ state' \in [Tid -> {"FREE", "READY", "RUNNING", "SLEEPING", "ZOMBIE"}]
        /\ current' \in Tid /\ cpu' = "dispatch" /\ resumed' \subseteq Tid
    BY <1>1, <1>2 DEF BaseTypes
  <2>3. wait_queue' \in [Tid -> Queue \cup {NoQueue}] /\ cont' \in [Tid -> Cont]
    BY <1>1 DEF BaseTypes
  <2> QED BY <2>1, <2>2, <2>3 DEF BaseTypes, stackVars
<1>8. NoRepeats'
  BY <1>3, <1>5, <1>6 DEF NoRepeats, BaseTypes
<1>9. QueueDiscipline'
  <2>1. \A t \in ToSet(ready') : state'[t] = "READY"
    <3>1. \A t \in ToSet(ready) : t \in Tid /\ state[t] = "READY"
      BY <1>1, QueueEmpty DEF QueueDiscipline, BaseTypes
    <3> QED BY <1>1, <1>2, <1>3, <3>1 DEF BaseTypes
  <2>2. \A p \in Queue, t \in Tid :
          t \in ToSet(waiters'[p]) <=> state'[t] = "SLEEPING" /\ wait_queue'[t] = p
    <3> SUFFICES ASSUME NEW p \in Queue, NEW t \in Tid
                 PROVE  t \in ToSet(waiters'[p])
                          <=> state'[t] = "SLEEPING" /\ wait_queue'[t] = p
      OBVIOUS
    <3>1. t \in ToSet(waiters[p]) <=> state[t] = "SLEEPING" /\ wait_queue[t] = p
      BY <1>1 DEF QueueDiscipline
    <3>2. state'[t] = "SLEEPING" <=> state[t] = "SLEEPING" \/ t = current
      BY <1>1, <1>2, <1>3 DEF BaseTypes
    <3>3. wait_queue'[t] = IF t = current THEN q ELSE wait_queue[t]
      BY <1>1 DEF BaseTypes
    <3>4. waiters'[p] = IF p = q THEN w ELSE waiters[p]
      BY <1>6 DEF BaseTypes
    <3> QED BY <1>1, <1>5, <3>1, <3>2, <3>3, <3>4
  <2>3. \A t \in Tid : state'[t] = "SLEEPING" => wait_queue'[t] # NoQueue
    BY <1>1, <1>2, <1>3 DEF QueueDiscipline, BaseTypes
  <2> QED BY <1>8, <2>1, <2>2, <2>3 DEF QueueDiscipline, NoRepeats
<1>10. CurrentOK'
  BY <1>1, <1>2, <1>3 DEF CurrentOK, OnlyCurrentRuns, KilledNeverRuns, BaseTypes
<1>11. TidsMarked'
  BY <1>1, <1>2, <1>3 DEF TidsMarked, BaseTypes
<1>12. Joining'
  <2> SUFFICES ASSUME NEW t \in Tid, NEW u \in Tid
      PROVE  /\ state'[u] = "SLEEPING" /\ wait_queue'[u] = JoinQueue(t)
                  => state'[t] \notin {"FREE", "ZOMBIE"} /\ cont'[u] = InWait(t)
             /\ cont'[u] = InWait(t) =>
                  /\ state'[u] = "SLEEPING" => wait_queue'[u] = JoinQueue(t)
                  /\ state'[u] \in {"READY", "RUNNING"} /\ u \notin killed'
                       => state'[t] = "ZOMBIE" /\ t \in w_exit'
    BY <1>1 DEF Joining
  <2>1. state'[t] \in {"FREE", "ZOMBIE"} <=> state[t] \in {"FREE", "ZOMBIE"}
    BY <1>1, <1>2, <1>3 DEF BaseTypes
  <2>2. CASE u = current
    <3>1. state'[u] = "SLEEPING" /\ wait_queue'[u] = q /\ cont'[u] = k
      BY <1>1, <1>2, <1>3, <2>2 DEF BaseTypes
    <3> QED BY <2>1, <3>1
  <2>3. CASE u # current
    <3>1. /\ wait_queue'[u] = wait_queue[u] /\ cont'[u] = cont[u]
          /\ (state'[u] = "SLEEPING" <=> state[u] = "SLEEPING")
          /\ (state'[u] \in {"READY", "RUNNING"} => state[u] \in {"READY", "RUNNING"})
      BY <1>1, <1>2, <1>3, <2>3 DEF BaseTypes
    <3>2. state[t] = "ZOMBIE" => state'[t] = "ZOMBIE"
      BY <1>1, <1>2, <1>3 DEF BaseTypes
    <3> QED BY <1>1, <2>1, <3>1, <3>2 DEF Joining
  <2> QED BY <2>2, <2>3
<1>13. NoWaitCycle'
  <2>1. \A t \in Tid \ {current} : state'[t] = "SLEEPING" => state[t] = "SLEEPING"
    BY <1>2, <1>3 DEF BaseTypes
  <2> QED BY <1>1, <2>1, SleepNoCycle
<1> QED BY <1>7, <1>8, <1>9, <1>10, <1>11, <1>12, <1>13

LEMMA WaitSleepStep ==
  ASSUME IInv, NEW target \in Tid, WaitSleep(target)
  PROVE  IInv'
BY SleepStep, Names DEF WaitSleep

(* The end of the process frees what is left.                              *)
LEMMA ProcessEndStep ==
  ASSUME IInv, ProcessEnd
  PROVE  IInv'
<1> USE Names DEF IInv
<1>1. /\ cpu = "exit" /\ cpu' = "halted" /\ state[current] = "ZOMBIE"
      /\ state' = [t \in Tid |-> IF t = 0 THEN state[t] ELSE "FREE"]
      /\ UNCHANGED <<current, resumed, cont, tid_used, killed, w_exit, wait_queue,
                     ready, waiters, owner, stack_to_free, cpu_stack>>
  BY DEF ProcessEnd, queueVars, CurrentOK
<1>2. BaseTypes'
  BY <1>1 DEF BaseTypes, ProcessEnd
<1>3. NoRepeats' /\ QueueDiscipline' /\ TidsMarked' /\ Joining'
  BY <1>1 DEF NoRepeats, QueueDiscipline, TidsMarked, Joining
<1>4. CurrentOK'
  BY <1>1 DEF CurrentOK, OnlyCurrentRuns, KilledNeverRuns
<1>5. NoWaitCycle'
  BY <1>1, FewerBlocked DEF Blocked, BlockedBy, OwnerOf
<1> QED BY <1>2, <1>3, <1>4, <1>5

(* thread_switch leaves a dead thread for next.                            *)
LEMMA ExitSwitchStep ==
  ASSUME IInv, ExitSwitch
  PROVE  IInv'
<1> USE Names DEF IInv
<1>1. /\ cpu = "exit" /\ cpu' = "dispatch" /\ current \in Tid
      /\ state[current] = "ZOMBIE" /\ resumed' = resumed \cup {current}
      /\ UNCHANGED <<cont, tid_used, killed, w_exit, wait_queue, waiters, owner,
                     stacks, cpu_stack>>
  BY DEF ExitSwitch, SwitchTo, CurrentOK, BaseTypes
<1>2. PICK next \in Tid :
        /\ Dequeues(next) /\ ready' = RemoveFirst(ready, next)
        /\ state' = [state EXCEPT ![next] = "RUNNING"]
        /\ current' = next
  BY DEF ExitSwitch, SwitchTo
<1>3. /\ state[next] = "READY" /\ ready' \in Seq(Tid) /\ IsInjective(ready')
      /\ ToSet(ready') = ToSet(ready) \ {next}
  BY <1>1, <1>2, DequeuedReady
<1>4. BaseTypes'
  BY <1>1, <1>2, <1>3 DEF BaseTypes, ExitSwitch, HandedOver
<1>5. NoRepeats'
  BY <1>1, <1>3 DEF NoRepeats
<1>6. QueueDiscipline'
  <2>1. \A t \in Tid : state'[t] = "SLEEPING" <=> state[t] = "SLEEPING"
    BY <1>2, <1>3 DEF BaseTypes
  <2>2. \A t \in ToSet(ready') : state'[t] = "READY"
    BY <1>1, <1>2, <1>3, QueueEmpty DEF QueueDiscipline, BaseTypes
  <2> QED BY <1>1, <1>5, <2>1, <2>2 DEF QueueDiscipline, NoRepeats
<1>7. CurrentOK'
  BY <1>1, <1>2, <1>3 DEF CurrentOK, OnlyCurrentRuns, KilledNeverRuns, BaseTypes
<1>8. TidsMarked'
  BY <1>1, <1>2, <1>3 DEF TidsMarked, BaseTypes
<1>9. Joining'
  BY <1>1, <1>2, <1>3 DEF Joining, BaseTypes
<1>10. NoWaitCycle'
  <2>1. \A u \in Tid : Blocked(u)' => Blocked(u) /\ BlockedBy(u)' = BlockedBy(u)
    BY <1>1, <1>2, <1>3 DEF Blocked, BlockedBy, OwnerOf, BaseTypes
  <2> QED BY <2>1, FewerBlocked
<1> QED BY <1>4, <1>5, <1>6, <1>7, <1>8, <1>9, <1>10

(* The thread that is lost when thread_switch returns stays READY.         *)
LEMMA ExitSwitchReturnsStep ==
  ASSUME IInv, ExitSwitchReturns
  PROVE  IInv'
<1> USE Names DEF IInv
<1>1. /\ cpu = "exit" /\ cpu' = "again" /\ current \in Tid
      /\ state[current] = "ZOMBIE"
      /\ UNCHANGED <<current, cont, state, tid_used, killed, w_exit, wait_queue,
                     waiters, owner, cpu_stack>>
  BY DEF ExitSwitchReturns, threadVars, CurrentOK, BaseTypes
<1>2. PICK next \in Tid : Dequeues(next) /\ ready' = RemoveFirst(ready, next)
  BY DEF ExitSwitchReturns
<1>3. /\ ready' \in Seq(Tid) /\ IsInjective(ready')
      /\ ToSet(ready') = ToSet(ready) \ {next}
  BY <1>1, <1>2, DequeuedReady
<1>4. BaseTypes'
  BY <1>1, <1>3 DEF BaseTypes, ExitSwitchReturns
<1>5. NoRepeats'
  BY <1>1, <1>3 DEF NoRepeats
<1>6. QueueDiscipline'
  BY <1>1, <1>3, <1>5 DEF QueueDiscipline, NoRepeats
<1>7. CurrentOK' /\ TidsMarked' /\ Joining'
  BY <1>1 DEF CurrentOK, OnlyCurrentRuns, KilledNeverRuns, TidsMarked, Joining
<1>8. NoWaitCycle'
  BY <1>1, FewerBlocked DEF Blocked, BlockedBy, OwnerOf
<1> QED BY <1>4, <1>5, <1>6, <1>7, <1>8

(* Only a thread that is not killed gets past thread_switch.               *)
LEMMA DispatchStep ==
  ASSUME IInv, Dispatch
  PROVE  IInv'
<1> USE Names DEF IInv
<1>1. /\ cpu = "dispatch" /\ current \in Tid /\ current \notin killed
      /\ cpu' = IF cont[current] = User THEN "user" ELSE "kernel"
      /\ UNCHANGED <<current, cont, state, tid_used, killed, w_exit, wait_queue,
                     ready, waiters, owner, stack_base>>
  BY DEF Dispatch, threadVars, queueVars, BaseTypes, SeenKilled
<1>2. BaseTypes'
  BY <1>1 DEF BaseTypes, Dispatch
<1>3. NoRepeats' /\ QueueDiscipline'
  BY <1>1 DEF NoRepeats, QueueDiscipline
<1>4. CurrentOK' /\ TidsMarked' /\ Joining'
  BY <1>1 DEF CurrentOK, OnlyCurrentRuns, KilledNeverRuns, TidsMarked, Joining
<1>5. NoWaitCycle'
  BY <1>1, FewerBlocked DEF Blocked, BlockedBy, OwnerOf
<1> QED BY <1>2, <1>3, <1>4, <1>5

LEMMA StutterStep ==
  ASSUME IInv, UNCHANGED vars
  PROVE  IInv'
<1> USE DEF vars, threadVars, queueVars, stackVars
<1>1. BaseTypes' /\ NoRepeats' /\ QueueDiscipline' /\ CurrentOK'
  BY DEF IInv, BaseTypes, NoRepeats, QueueDiscipline, CurrentOK,
         OnlyCurrentRuns, KilledNeverRuns
<1>2. TidsMarked' /\ Joining'
  BY DEF IInv, TidsMarked, Joining
<1>3. NoWaitCycle'
  BY FewerBlocked DEF IInv, Blocked, BlockedBy, OwnerOf
<1> QED BY <1>1, <1>2, <1>3 DEF IInv
-----------------------------------------------------------------------------
LEMMA NextIInv == IInv /\ [Next]_vars => IInv'
<1> SUFFICES ASSUME IInv, [Next]_vars PROVE IInv'
  OBVIOUS
<1>1. CASE YieldAny
  BY <1>1, YieldStep DEF YieldAny, Dequeues
<1>2. CASE \E t \in Tid : YieldTo(t)
  BY <1>2, YieldStep DEF YieldTo
<1>3. CASE \E t \in Tid : ThreadCreate(t) \/ ThreadCreateNoStack(t)
  BY <1>3, CreateStep, CreateNoStackStep
<1>4. CASE \E t \in Tid : ThreadKill(t)
  BY <1>4, KillStep
<1>5. CASE \E t \in Tid : WaitReap(t) \/ WaitSleep(t)
  BY <1>5, WaitReapStep, WaitSleepStep
<1>6. CASE ThreadExit \/ KilledExit \/ KilledExitAgain
  BY <1>6, BeginExitStep DEF ThreadExit, KilledExit, KilledExitAgain
<1>7. CASE WaitResumed
  BY <1>7, WaitResumedStep
<1>8. CASE ProcessEnd \/ ExitSwitch \/ ExitSwitchReturns \/ Dispatch
  BY <1>8, ProcessEndStep, ExitSwitchStep, ExitSwitchReturnsStep, DispatchStep
<1>9. CASE Ended \/ UNCHANGED vars
  BY <1>9, StutterStep DEF Ended
<1> QED BY <1>1, <1>2, <1>3, <1>4, <1>5, <1>6, <1>7, <1>8, <1>9
     DEF Next, Calls, Switching

(* Every call of the library keeps the invariant.                          *)
THEOREM Invariance == Spec => []IInv
BY InitIInv, NextIInv, PTL DEF Spec

(* The queues are no longer than Tid is large.                             *)
LEMMA IInvTypeOK == IInv => TypeOK
<1>1. IsFiniteSet(Tid) /\ Cardinality(Tid) = MaxThreads
  BY ConstantsAssumption, FS_Interval DEF Tid
<1>2. IInv => /\ Len(ready) <= MaxThreads
              /\ \A q \in Queue : Len(waiters[q]) <= MaxThreads
  BY <1>1, QueueLength DEF IInv, BaseTypes, NoRepeats
<1> QED BY <1>2 DEF IInv, BaseTypes, TypeOK

(* Every variable has its type and no queue ever overflows.                *)
THEOREM TypeCorrect == Spec => []TypeOK
BY IInvTypeOK, Invariance, PTL

(* Every thread is in the one queue its state names.                       *)
THEOREM QueuesConsistent == Spec => []QueueDiscipline
BY Invariance, PTL DEF IInv

(* One thread is RUNNING, the current one.                                 *)
THEOREM OneRunningThread == Spec => []OnlyCurrentRuns
<1>1. IInv => OnlyCurrentRuns
  BY DEF IInv, CurrentOK
<1> QED BY <1>1, Invariance, PTL

(* A killed thread executes nothing but its exit.                          *)
THEOREM KilledThreadsExit == Spec => []KilledNeverRuns
<1>1. IInv => KilledNeverRuns
  BY DEF IInv, CurrentOK
<1> QED BY <1>1, Invariance, PTL

(* No joiner sleeps on a thread that has exited or is gone.                *)
THEOREM JoinersAreWoken == Spec => []JoinersWoken
<1>1. IInv => JoinersWoken
  BY DEF IInv, Joining, JoinersWoken
<1> QED BY <1>1, Invariance, PTL

(* A joiner that was woken finds the zombie whose exit code it reads.      *)
THEOREM JoinersFindExitCode == Spec => []JoinerFindsZombie
<1>1. IInv => JoinerFindsZombie
  BY DEF IInv, Joining, JoinerFindsZombie
<1> QED BY <1>1, Invariance, PTL

(* thread_sleep never closes a cycle of threads that wait for one another. *)
THEOREM NoCircularWait == Spec => []NoWaitCycle
BY Invariance, PTL DEF IInv

(* The structure of an exited thread is freed once, after the last joiner  *)
(* that slept for it has read its exit code.                               *)
THEOREM ExitCodes == Spec => ExitCodeKept
<1> DEFINE Kept ==
      \A t \in Tid :
        state[t] = "ZOMBIE" /\ state'[t] # "ZOMBIE" /\ cpu' # "halted"
          => /\ state'[t] = "FREE"
             /\ \A u \in Tid \ {current} :
                  state[u] \in {"SLEEPING", "READY"} /\ u \notin killed
                    => cont[u] # InWait(t)
<1>1. ASSUME IInv, [Next]_vars PROVE [Kept]_vars
  <2> USE <1>1
  <2> SUFFICES ASSUME NEW t \in Tid, state[t] = "ZOMBIE", state'[t] # "ZOMBIE",
                      cpu' # "halted", Next
               PROVE  /\ state'[t] = "FREE"
                      /\ \A u \in Tid \ {current} :
                           state[u] \in {"SLEEPING", "READY"} /\ u \notin killed
                             => cont[u] # InWait(t)
    OBVIOUS
  <2>1. state \in [Tid -> {"FREE", "READY", "RUNNING", "SLEEPING", "ZOMBIE"}]
        /\ current \in Tid /\ cpu # "halted"
    BY DEF IInv, BaseTypes, Next, Calls, Switching, Ended, YieldAny, YieldTo,
       YieldSwitch, ThreadCreate, ThreadCreateNoStack, ThreadKill, WaitReap,
       WaitSleep, ThreadExit, KilledExit, KilledExitAgain, WaitResumed,
       ProcessEnd, ExitSwitch, ExitSwitchReturns, Dispatch, SleepOn, SwitchTo,
       CurrentOK, OnlyCurrentRuns, vars
  <2>2. ASSUME WaitReap(t) PROVE state'[t] = "FREE" /\ t \notin w_exit
    BY <2>1, <2>2 DEF WaitReap, Destroy, Reapable
  <2>3. \A u \in Tid : state[u] = "SLEEPING" => cont[u] # InWait(t)
    BY <2>1, Names DEF IInv, Joining
  <2>4. t \notin w_exit =>
          \A u \in Tid : state[u] = "READY" /\ u \notin killed => cont[u] # InWait(t)
    BY <2>1 DEF IInv, Joining
  <2>5. WaitReap(t)
    <3>1. ToSet(ready) \subseteq Tid /\ \A u \in ToSet(ready) : state[u] = "READY"
      BY <2>1, QueueEmpty DEF IInv, QueueDiscipline, BaseTypes
    <3>2. ~YieldAny /\ ~\E u \in Tid : YieldTo(u)
      BY <2>1, <3>1 DEF YieldAny, YieldTo, YieldSwitch, Dequeues, IInv,
         CurrentOK, OnlyCurrentRuns
    <3>3. ~\E u \in Tid : ThreadCreate(u) \/ ThreadCreateNoStack(u) \/ ThreadKill(u)
      BY <2>1 DEF ThreadCreate, ThreadCreateNoStack, ThreadKill, PickTid, IInv,
         TidsMarked
    <3>4. ~\E u \in Tid : WaitSleep(u)
      BY <2>1, <3>1 DEF WaitSleep, SleepOn, Dequeues, SwitchTo, IInv,
         CurrentOK, OnlyCurrentRuns
    <3>5. ~BeginExit
      <4>1. JoinQueue(current) \in Queue
        BY <2>1, Names
      <4>2. t \notin ToSet(waiters[JoinQueue(current)])
        BY <2>1, <4>1 DEF IInv, QueueDiscipline
      <4> QED BY <2>1, <4>2 DEF BeginExit, WakeState, Woken
    <3>6. ~WaitResumed
      <4>1. ASSUME WaitResumed PROVE UNCHANGED state
        BY <4>1, <2>1, JoinerReapsNobody DEF IInv
      <4> QED BY <4>1
    <3>7. ~ProcessEnd /\ ~ExitSwitchReturns /\ ~Dispatch /\ ~Ended
      BY <2>1 DEF ProcessEnd, ExitSwitchReturns, Dispatch, Ended, threadVars
    <3>8. ~ExitSwitch
      BY <2>1, <3>1 DEF ExitSwitch, Dequeues, SwitchTo
    <3>9. \A u \in Tid : WaitReap(u) => u = t
      BY <2>1 DEF WaitReap, Destroy
    <3> QED BY <3>2, <3>3, <3>4, <3>5, <3>6, <3>7, <3>8, <3>9
        DEF Next, Calls, Switching, ThreadExit, KilledExit, KilledExitAgain
  <2> QED BY <2>2, <2>3, <2>4, <2>5
<1> QED BY <1>1, Invariance, PTL DEF Spec, ExitCodeKept

-----------------------------------------------------------------------------
(* Without thread_kill.  What a kill breaks is that a thread that exits may*)
(* still have its resumed flag set; without it the flag is clear whenever  *)
(* the thread runs, and every stack has an owner.                          *)
NoKillInv ==
  /\ killed = {} /\ cpu # "again"
  /\ cpu \in {"user", "kernel", "exit"} => current \notin resumed
  /\ NothingReadyIsLost

LEMMA NoKillStep ==
  ASSUME ~MayKill, IInv, NoKillInv, [Next]_vars
  PROVE  NoKillInv'
<1> USE Names
<1>0. /\ killed = {} /\ cpu # "again" /\ current \in Tid
      /\ ready \in Seq(Tid) /\ ToSet(ready) \subseteq Tid /\ IsInjective(ready)
      /\ state \in [Tid -> {"FREE", "READY", "RUNNING", "SLEEPING", "ZOMBIE"}]
      /\ (cpu \in {"user", "kernel", "exit"} => current \notin resumed)
      /\ \A t \in Tid : state[t] = "READY" /\ cpu # "halted" => t \in ToSet(ready)
  BY QueueEmpty DEF IInv, BaseTypes, NoRepeats, NoKillInv, NothingReadyIsLost
<1>1. ASSUME NEW next \in ToSet(ready), YieldSwitch(next) PROVE NoKillInv'
  <2> DEFINE r == RemoveFirst(ready, next)
  <2>1. r \in Seq(Tid) /\ IsInjective(r) /\ ToSet(r) = ToSet(ready) \ {next}
    BY <1>0, QueueRemove
  <2>2. /\ ready' = Append(r, current)
        /\ state' = [state EXCEPT ![current] = "READY", ![next] = "RUNNING"]
        /\ killed' = killed /\ cpu' = "dispatch" /\ cpu = "user"
    BY <1>1 DEF YieldSwitch, Requeued, SwitchTo
  <2>3. current \notin ToSet(ready)
    BY <1>0, <2>2 DEF IInv, QueueDiscipline, CurrentOK, OnlyCurrentRuns
  <2> HIDE DEF r
  <2>4. ToSet(ready') = (ToSet(ready) \ {next}) \cup {current}
    BY <1>0, <2>1, <2>2, <2>3, QueueAppend
  <2> QED BY <1>0, <2>2, <2>4 DEF NoKillInv, NothingReadyIsLost
<1>2. ASSUME NEW t \in Tid, ThreadCreate(t) \/ ThreadCreateNoStack(t)
      PROVE  NoKillInv'
  <2>1. CASE ThreadCreateNoStack(t)
    BY <1>0, <2>1 DEF ThreadCreateNoStack, queueVars, NoKillInv, NothingReadyIsLost
  <2>2. CASE ThreadCreate(t)
    <3>1. t \notin ToSet(ready)
      BY <1>0, <2>2 DEF ThreadCreate, PickTid, IInv, TidsMarked, QueueDiscipline
    <3>2. ToSet(ready') = ToSet(ready) \cup {t}
      BY <1>0, <2>2, <3>1, QueueAppend DEF ThreadCreate
    <3> QED BY <1>0, <2>2, <3>2 DEF ThreadCreate, NoKillInv, NothingReadyIsLost
  <2> QED BY <1>2, <2>1, <2>2
<1>3. ASSUME NEW t \in Tid, WaitReap(t) PROVE NoKillInv'
  <2>1. ToSet(ready') = ToSet(ready) \ {t}
    BY <1>0, <1>3, QueueRemove DEF WaitReap, Destroy
  <2> QED BY <1>0, <1>3, <2>1 DEF WaitReap, Destroy, NoKillInv, NothingReadyIsLost
<1>4. ASSUME NEW t \in Tid, WaitSleep(t) PROVE NoKillInv'
  <2>1. PICK next \in Tid :
          /\ ready' = RemoveFirst(ready, next)
          /\ state' = [state EXCEPT ![current] = "SLEEPING", ![next] = "RUNNING"]
    BY <1>4 DEF WaitSleep, SleepOn
  <2>2. ToSet(ready') = ToSet(ready) \ {next}
    BY <1>0, <2>1, QueueRemove
  <2> QED BY <1>0, <1>4, <2>1, <2>2
      DEF WaitSleep, SleepOn, SwitchTo, NoKillInv, NothingReadyIsLost
<1>5. ASSUME ThreadExit PROVE NoKillInv'
  <2> DEFINE q == JoinQueue(current)
             W == waiters[q]
  <2>1. W \in Seq(Tid) /\ Woken(q, TRUE) = W
    BY <1>0 DEF IInv, BaseTypes, Woken
  <2>2. /\ ready' = ready \o W
        /\ state' = [t \in Tid |-> IF t \in ToSet(W) THEN "READY"
                                    ELSE IF t = current THEN "ZOMBIE" ELSE state[t]]
    BY <1>0, <1>5, <2>1 DEF ThreadExit, BeginExit, Wakeup, WakeState
  <2> HIDE DEF W
  <2>3. ToSet(ready') = ToSet(ready) \cup ToSet(W)
    BY <1>0, <2>1, <2>2, ConcatElements
  <2> QED BY <1>0, <1>5, <2>2, <2>3
      DEF ThreadExit, BeginExit, NoKillInv, NothingReadyIsLost
<1>6. ASSUME WaitResumed PROVE NoKillInv'
  <2>1. UNCHANGED <<state, ready, resumed>>
    BY <1>6, JoinerReapsNobody
  <2> QED BY <1>0, <1>6, <2>1 DEF WaitResumed, Destroy, NoKillInv, NothingReadyIsLost
<1>7. ASSUME ExitSwitch PROVE NoKillInv'
  <2>1. PICK next \in Tid : /\ ready' = RemoveFirst(ready, next)
                            /\ state' = [state EXCEPT ![next] = "RUNNING"]
    BY <1>7 DEF ExitSwitch
  <2>2. ToSet(ready') = ToSet(ready) \ {next}
    BY <1>0, <2>1, QueueRemove
  <2> QED BY <1>0, <1>7, <2>1, <2>2
      DEF ExitSwitch, SwitchTo, NoKillInv, NothingReadyIsLost
<1>8. ASSUME Dispatch \/ ProcessEnd PROVE NoKillInv'
  BY <1>0, <1>8 DEF Dispatch, ProcessEnd, threadVars, queueVars, NoKillInv,
     NothingReadyIsLost
<1>9. ~KilledExit /\ ~KilledExitAgain /\ ~ExitSwitchReturns
      /\ ~\E t \in Tid : ThreadKill(t)
  BY <1>0 DEF KilledExit, KilledExitAgain, ExitSwitchReturns, ThreadKill
<1>10. CASE UNCHANGED vars
  BY <1>10 DEF vars, threadVars, queueVars, NoKillInv, NothingReadyIsLost
<1>11. (\E t \in Tid : YieldTo(t)) \/ YieldAny =>
         \E next \in ToSet(ready) : YieldSwitch(next)
  BY DEF YieldAny, YieldTo, Dequeues
<1> QED BY <1>1, <1>2, <1>3, <1>4, <1>5, <1>6, <1>7, <1>8, <1>9, <1>10, <1>11
    DEF Next, Calls, Switching, Ended

LEMMA NoKillInvariance == ASSUME ~MayKill PROVE Spec => []NoKillInv
<1>1. Init => NoKillInv
  BY Names DEF Init, NoKillInv, NothingReadyIsLost
<1>2. IInv /\ NoKillInv /\ [Next]_vars => NoKillInv'
  BY NoKillStep
<1> QED BY <1>1, <1>2, Invariance, PTL DEF Spec

(* Without thread_kill a READY thread is in the ready queue.               *)
THEOREM NothingLost == ASSUME ~MayKill PROVE Spec => []NothingReadyIsLost
<1>1. NoKillInv => NothingReadyIsLost
  BY DEF NoKillInv
<1> QED BY <1>1, NoKillInvariance, PTL

(* Without thread_kill the process ends only when no thread is READY.      *)
THEOREM EndIsTheEnd == ASSUME ~MayKill PROVE Spec => []EndsWhenNobodyCanRun
<1>1. IInv /\ NoKillInv => EndsWhenNobodyCanRun
  BY QueueEmpty DEF IInv, BaseTypes, NoKillInv, NothingReadyIsLost,
     EndsWhenNobodyCanRun
<1> QED BY <1>1, Invariance, NoKillInvariance, PTL

(* The stack in use is the current thread's, but for the moment between a  *)
(* thread's exit and setcontext, when it is one that is about to be freed  *)
(* or that a thread switched out still has.                                *)
StackInv ==
  /\ NoStackLeak
  /\ cpu # "halted" =>
       /\ stack_base \subseteq stacks
       /\ stack_to_free \notin stack_base
       /\ cpu # "dispatch" =>
            /\ stack_to_free = NoThread
            /\ cpu_stack = IF current \in stack_base THEN current ELSE NoThread
       /\ StackInUse

LEMMA StackStep ==
  ASSUME IInv, NoKillInv, StackInv, [Next]_vars
  PROVE  StackInv'
<1> USE Names
<1>0. /\ killed = {} /\ cpu # "again" /\ current \in Tid
      /\ stack_base \subseteq Tid /\ stacks \subseteq Tid
      /\ state \in [Tid -> {"FREE", "READY", "RUNNING", "SLEEPING", "ZOMBIE"}]
  BY DEF IInv, BaseTypes, NoKillInv
<1> USE DEF StackInv, StackInUse, NoStackLeak
<1>1. ASSUME NEW next \in Tid, YieldSwitch(next) PROVE StackInv'
  BY <1>0, <1>1 DEF YieldSwitch, SwitchTo, stackVars
<1>2. ASSUME NEW t \in Tid, ThreadCreate(t) \/ ThreadCreateNoStack(t)
      PROVE  StackInv'
  <2>1. CASE ThreadCreateNoStack(t)
    BY <1>0, <2>1 DEF ThreadCreateNoStack, stackVars
  <2>2. CASE ThreadCreate(t)
    <3>1. t # current /\ cpu = "user"
      BY <1>0, <2>2 DEF ThreadCreate, PickTid, IInv, TidsMarked, CurrentOK,
         OnlyCurrentRuns
    <3> QED BY <1>0, <2>2, <3>1 DEF ThreadCreate
  <2> QED BY <1>2, <2>1, <2>2
<1>3. ASSUME NEW t \in Tid, WaitReap(t) PROVE StackInv'
  BY <1>0, <1>3 DEF WaitReap, Destroy
<1>4. ASSUME NEW t \in Tid, WaitSleep(t) PROVE StackInv'
  BY <1>0, <1>4 DEF WaitSleep, SleepOn, SwitchTo, stackVars
<1>5. ASSUME NEW t \in Tid, ThreadKill(t) PROVE StackInv'
  BY <1>0, <1>5 DEF ThreadKill, stackVars
<1>6. ASSUME BeginExit PROVE StackInv'
  BY <1>0, <1>6 DEF BeginExit, stackVars
<1>7. ASSUME WaitResumed PROVE StackInv'
  <2>1. UNCHANGED <<stacks, stack_base>>
    BY <1>7, JoinerReapsNobody
  <2> QED BY <1>0, <1>7, <2>1 DEF WaitResumed
<1>8. ASSUME ExitSwitch PROVE StackInv'
  BY <1>0, <1>8 DEF ExitSwitch, SwitchTo, HandedOver
<1>9. ASSUME Dispatch PROVE StackInv'
  BY <1>0, <1>9 DEF Dispatch
<1>10. ASSUME ProcessEnd \/ UNCHANGED vars PROVE StackInv'
  BY <1>0, <1>10 DEF ProcessEnd, vars, stackVars
<1>11. ~KilledExit /\ ~KilledExitAgain /\ ~ExitSwitchReturns
  BY <1>0 DEF KilledExit, KilledExitAgain, ExitSwitchReturns, NoKillInv, SeenKilled
<1> QED BY <1>0, <1>1, <1>2, <1>3, <1>4, <1>5, <1>6, <1>7, <1>8, <1>9, <1>10, <1>11
    DEF Next, Calls, Switching, Ended, ThreadExit, YieldAny, YieldTo

LEMMA StackInvariance == ASSUME ~MayKill PROVE Spec => []StackInv
<1>1. Init => StackInv
  BY Names DEF Init, StackInv, StackInUse, NoStackLeak
<1>2. IInv /\ NoKillInv /\ StackInv /\ [Next]_vars => StackInv'
  BY StackStep
<1> QED BY <1>1, <1>2, Invariance, NoKillInvariance, PTL DEF Spec

(* Without thread_kill the processor never runs on a freed stack.          *)
THEOREM StacksAlive == ASSUME ~MayKill PROVE Spec => []StackInUse
<1>1. StackInv => StackInUse
  BY DEF StackInv, StackInUse
<1> QED BY <1>1, StackInvariance, PTL

(* Without thread_kill a stack that is not freed has an owner, or the next *)
(* thread is about to free it.                                             *)
THEOREM StacksOwned == ASSUME ~MayKill PROVE Spec => []NoStackLeak
<1>1. StackInv => NoStackLeak
  BY DEF StackInv
<1> QED BY <1>1, StackInvariance, PTL

=============================================================================
