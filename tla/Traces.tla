-------------------------------- MODULE Traces --------------------------------
(***************************************************************************)
(* The trace generator: simplify_trace makes reference files of the raw    *)
(* logs, then schedule.py combines them into one trace.  Its random        *)
(* scheduler gives the turn to a process for a quantum of lines.           *)
(***************************************************************************)
EXTENDS Simplify

CONSTANTS
  Quantum,   \* lines of a turn after its first
  Nobody     \* no process is running

ASSUME TracesAssumption == Quantum \in Nat /\ Nobody \notin Nat

VARIABLES
  pid,        \* the real pid of each process, in the order of the vpids
  pos,        \* how many lines of its file each process has read
  processes,  \* the vpids the scheduler may choose
  running,    \* the vpid whose turn it is
  interval,   \* lines of the turn
  line,       \* the line written last
  memory      \* history: what the lines so far say of each process' memory, by vpid + 1

schedulerVars == <<pid, pos, processes, running, interval, line, memory>>
vars == <<simplifyVars, schedulerVars>>

TracesInit ==
  /\ Init
  /\ pid = <<>> /\ pos = <<>> /\ memory = <<>>
  /\ processes = {} /\ running = Nobody /\ interval = 0
  /\ line = [vpid |-> 0, type |-> "none", addr |-> 0, value |-> 0]

WriteLine(v, t, a, x) == line' = [vpid |-> v, type |-> t, addr |-> a, value |-> x]

(* A process that begins takes the next vpid.                              *)
Schedule(p) ==
  /\ pid' = Append(pid, p)
  /\ processes' = processes \cup {Len(pid)}

(* combine begins with the programs, in their order.                       *)
BeginProcess ==
  /\ stack = <<>> /\ Len(pid) < Len(runs)
  /\ Schedule(runs[Len(pid) + 1].pid) /\ pos' = Append(pos, 0)
  /\ WriteLine(Len(pid), "B", 0, 0) /\ memory' = Append(memory, AsMapCreate)
  /\ UNCHANGED <<simplifyVars, running, interval>>

(* run: who reads the next line, and how long the turn is then.            *)
TurnOver == running = Nobody \/ interval = Quantum
Chosen(v) == IF TurnOver THEN v \in processes ELSE v = running
Interval == IF TurnOver THEN 0 ELSE interval + 1

FileOf(v) == files[pid[v + 1]]
AtEnd(v) == pos[v + 1] = Len(FileOf(v))
NextLine(v) == FileOf(v)[pos[v + 1] + 1]

EndProcess(v) ==
  /\ AtEnd(v)
  /\ processes' = processes \ {v} /\ running' = Nobody /\ interval' = 0
  /\ WriteLine(v, "E", 0, 0)
  /\ UNCHANGED <<simplifyVars, pid, pos, memory>>

(* An F line gets the vpid of the child for its pid.                       *)
ForkProcess(v) ==
  /\ ~AtEnd(v) /\ NextLine(v).type = "F"
  /\ Schedule(NextLine(v).addr) /\ pos' = Append([pos EXCEPT ![v + 1] = @ + 1], 0)
  /\ running' = v /\ interval' = Interval
  /\ WriteLine(v, "F", Len(pid), 0) /\ memory' = Append(memory, memory[v + 1])
  /\ UNCHANGED simplifyVars

CopyLine(v) ==
  /\ ~AtEnd(v) /\ NextLine(v).type # "F"
  /\ pos' = [pos EXCEPT ![v + 1] = @ + 1]
  /\ running' = v /\ interval' = Interval
  /\ WriteLine(v, NextLine(v).type, NextLine(v).addr, NextLine(v).value)
  /\ memory' = [memory EXCEPT ![v + 1][NextLine(v).addr] = NextLine(v).value]
  /\ UNCHANGED <<simplifyVars, pid, processes>>

Combine ==
  /\ stack = <<>> /\ Len(pid) >= Len(runs) /\ processes # {}
  /\ \E v \in processes : Chosen(v) /\ (EndProcess(v) \/ ForkProcess(v) \/ CopyLine(v))

Finished == stack = <<>> /\ Len(pid) >= Len(runs) /\ processes = {} /\ UNCHANGED vars

Next == (SimplifyNext /\ UNCHANGED schedulerVars) \/ BeginProcess \/ Combine \/ Finished

Spec == TracesInit /\ [][Next]_vars

-----------------------------------------------------------------------------
(* Properties                                                              *)

(* The type invariant.                                                     *)
TraceLine ==
  [type : Types \cup {"S"}, addr : Addr, value : Val]
    \cup [type : {"F"}, addr : Pids(runs), value : {0}]
TypeOK ==
  /\ \A i \in DOMAIN stack :
       /\ stack[i].pid \in Pids(runs) /\ {stack[i].found, stack[i].ignore} \subseteq BOOLEAN
       /\ stack[i].as \in AsMap
       /\ stack[i].buf \in Seq(Line) /\ Len(stack[i].buf) < BufSize
       /\ stack[i].file \in Seq(TraceLine)
  /\ files \in [Pids(runs) -> Seq(TraceLine)]
  /\ pid \in Seq(Pids(runs)) /\ processes \subseteq 0 .. Len(pid) - 1
  /\ pos \in Seq(Nat) /\ Len(pos) = Len(pid)
  /\ \A v \in processes : pos[v + 1] \in 0 .. Len(FileOf(v))
  /\ running \in processes \cup {Nobody} /\ interval \in 0 .. Quantum

(* The reduction keeps the order in which pages were last used: what an    *)
(* activation has written and buffered names just the pages and types of   *)
(* the references its process has made where they are recorded, in the     *)
(* order of their last uses.                                               *)
Uses(file, buf) ==
  [i \in {j \in 1 .. Len(file) + Len(buf) : j <= Len(file) => file[j].type # "F"} |->
     IF i <= Len(file) THEN <<PageOf(file[i].addr), file[i].type>> ELSE Key(buf[i - Len(file)])]
InOrderOfLastUse(keys, uses) ==
  /\ IsInjective(keys) /\ ToSet(keys) = Range(uses)
  /\ \A i, j \in DOMAIN keys : i < j =>
       \E b \in DOMAIN uses :
         uses[b] = keys[j] /\ \A a \in DOMAIN uses : a >= b => uses[a] # keys[i]
LastUsesKept ==
  /\ \A i \in DOMAIN stack :
       InOrderOfLastUse(recency[stack[i].pid], Uses(stack[i].file, stack[i].buf))
  /\ stack = <<>> => \A p \in Pids(runs) : InOrderOfLastUse(recency[p], Uses(files[p], <<>>))

(* The trace implements TraceMemory: every value in it is one that a       *)
(* memory, private to each task and copied by a fork, would hold, in       *)
(* whatever order the scheduler takes the lines.                           *)
M == INSTANCE TraceMemory WITH
       begun <- Len(pid), ended <- (0 .. Len(pid) - 1) \ processes
ImplementsMemory == M!Spec

=============================================================================
