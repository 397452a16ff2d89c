--------------------------- MODULE AddressSpaces ---------------------------
(***************************************************************************)
(* What the virtual memory simulator promises the trace it replays: every  *)
(* task has a memory of its own, zero at first and copied by a fork, in    *)
(* which a read finds what was last written.  Only when swap_pageout has   *)
(* reported that the swap space is full may a page become zero again.      *)
(***************************************************************************)
EXTENDS Naturals

CONSTANTS Asid, Page, Val

VARIABLES
  live,    \* the tasks
  mem,     \* the memory of each task
  ret,     \* what the last read returned
  warned   \* swap_pageout has reported a full swap space

vars == <<live, mem, ret, warned>>

Zero == [v \in Page |-> 0]

Init ==
  /\ live = {} /\ mem = [p \in Asid |-> Zero]
  /\ ret = 0 /\ warned = FALSE

Create(p) ==
  /\ p \notin live /\ live' = live \cup {p}
  /\ UNCHANGED <<mem, ret, warned>>

Fork(p, c) ==
  /\ p \in live /\ c \notin live /\ live' = live \cup {c}
  /\ mem' = [mem EXCEPT ![c] = mem[p]]
  /\ UNCHANGED <<ret, warned>>

Exit(p) ==
  /\ p \in live /\ live' = live \ {p}
  /\ mem' = [mem EXCEPT ![p] = Zero]
  /\ UNCHANGED <<ret, warned>>

Read(p, v) ==
  /\ p \in live /\ ret' = mem[p][v]
  /\ UNCHANGED <<live, mem, warned>>

Write(p, v, x) ==
  /\ p \in live /\ mem' = [mem EXCEPT ![p][v] = x]
  /\ UNCHANGED <<live, ret, warned>>

Forget(p, v) ==
  /\ p \in live /\ mem' = [mem EXCEPT ![p][v] = 0]
  /\ warned' = TRUE
  /\ UNCHANGED <<live, ret>>

Next ==
  \E p \in Asid :
    \/ Create(p) \/ Exit(p)
    \/ \E c \in Asid : Fork(p, c)
    \/ \E v \in Page : Read(p, v) \/ Forget(p, v) \/ \E x \in Val : Write(p, v, x)

Spec == Init /\ [][Next]_vars

=============================================================================
