---------------------------- MODULE TraceMemory ----------------------------
(***************************************************************************)
(* What the trace generator promises the simulator that replays its trace: *)
(* the lines are those of tasks that begin or are forked under the next    *)
(* number, end once and do nothing after that; and the value of every load *)
(* is what a private memory, copied by a fork, holds.  What a task has     *)
(* neither stored nor loaded is Unknown.                                   *)
(***************************************************************************)
EXTENDS Naturals, Sequences

CONSTANTS Addr, Val, Unknown

VARIABLES
  begun,    \* how many tasks there have been: 0 .. begun - 1
  ended,    \* the tasks that have ended
  memory,   \* what is known of the memory of each task, in the order of their numbers
  line      \* the last line of the trace

vars == <<begun, ended, memory, line>>
Blank == [a \in Addr |-> Unknown]

Init ==
  /\ begun = 0 /\ ended = {} /\ memory = <<>> /\ line.type = "none"

Alive == (0 .. begun - 1) \ ended

Begin ==
  /\ line' = [vpid |-> begun, type |-> "B", addr |-> 0, value |-> 0]
  /\ begun' = begun + 1 /\ memory' = Append(memory, Blank) /\ UNCHANGED ended

Fork(t) ==
  /\ line' = [vpid |-> t, type |-> "F", addr |-> begun, value |-> 0]
  /\ begun' = begun + 1 /\ memory' = Append(memory, memory[t + 1])
  /\ UNCHANGED ended

End(t) ==
  /\ line' = [vpid |-> t, type |-> "E", addr |-> 0, value |-> 0]
  /\ ended' = ended \cup {t} /\ UNCHANGED <<begun, memory>>

Access(t, a, v) ==
  /\ \/ line' = [vpid |-> t, type |-> "S", addr |-> a, value |-> v]
     \/ line' = [vpid |-> t, type |-> "M", addr |-> a, value |-> v]
     \/ /\ memory[t + 1][a] \in {v, Unknown}
        /\ \/ line' = [vpid |-> t, type |-> "L", addr |-> a, value |-> v]
           \/ line' = [vpid |-> t, type |-> "I", addr |-> a, value |-> v]
  /\ memory' = [memory EXCEPT ![t + 1][a] = v] /\ UNCHANGED <<begun, ended>>

Next ==
  \/ Begin
  \/ \E t \in Alive : Fork(t) \/ End(t) \/ \E a \in Addr, v \in Val : Access(t, a, v)

Spec == Init /\ [][Next]_vars

=============================================================================
